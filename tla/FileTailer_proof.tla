--------------------------- MODULE FileTailer_proof ---------------------------
(***************************************************************************)
(* For files of any length, any number of lines and any buffer of two      *)
(* characters or more: fileTail stays inside of its arrays, keeps the last *)
(* lines intact, and gives up only when they do not fit; and what tail     *)
(* returns is those lines, if none was wrapped.                            *)
(***************************************************************************)
EXTENDS FileTailer, FiniteSetTheorems, SequenceTheorems, TLAPS

\* What the character that is read next finds is of its type: a slot that is not
\* the last, so that a '\0' fits behind it, and an oldest line (fileTail,
\* fileTailer.cxx:26-40).
LEMMA PreparedType ==
    ASSUME TypeOK
    PROVE  /\ Found \in 1 .. nlines
           /\ Begun \in [Entries -> Pointers \X Pointers]
           /\ Turned \in [Entries -> Pointers \X Pointers]
           /\ Closed \in [Slots -> Chars]
           /\ Slot \in Slots /\ Slot + 1 \in Slots
           /\ Start \in Slots /\ Part \in {0, 1}
  <1>1. nlines \in Nat \ {0} /\ maxbuff \in Nat \ {0, 1} /\ nfound \in 0 .. nlines
    BY TailAssumption DEF TypeOK
  <1>2. Found \in 1 .. nlines
    BY <1>1 DEF Found, TypeOK
  <1>3. Begun \in [Entries -> Pointers \X Pointers]
    <2>1. NoLine \in Pointers \X Pointers
      BY DEF NoLine, Pointers
    <2>2. \A i \in Entries : i < Latest => i + 1 \in Entries
      BY <1>1 DEF Entries, Latest
    <2>3. Shifted(lines) \in [Entries -> Pointers \X Pointers]
      BY <2>1, <2>2 DEF Shifted, TypeOK
    <2> QED BY <2>3 DEF Begun, TypeOK
  <1>4. Turned \in [Entries -> Pointers \X Pointers]
    <2>1. Latest \in Entries /\ linestart \in Pointers
      BY <1>1 DEF Entries, Latest, Pointers, TypeOK
    <2>2. Begun[Latest] \in Pointers \X Pointers
      BY <1>3, <2>1
    <2>3. [Begun[Latest] EXCEPT ![1] = linestart] \in Pointers \X Pointers
      BY <2>1, <2>2
    <2> QED BY <1>3, <2>3 DEF Turned
  <1>5. Closed \in [Slots -> Chars]
    BY TailAssumption DEF Closed, Chars, TypeOK
  <1>6. Slot \in Slots /\ Slot + 1 \in Slots
    BY <1>1 DEF Slot, Full, Slots, TypeOK
  <1>7. Start \in Slots /\ Part \in {0, 1}
    BY <1>1 DEF Start, Part, Slots, TypeOK
  <1> QED BY <1>2, <1>3, <1>4, <1>5, <1>6, <1>7

LEMMA InitType == ASSUME Init PROVE TypeOK
  <1>1. nlines \in Nat \ {0} /\ maxbuff \in Nat \ {0, 1} /\ MaxLength \in Nat
    BY TailAssumption DEF Init, Joblog
  <1>2. buff \in [Slots -> Chars] /\ 0 \in Slots
    BY <1>1 DEF Init, Joblog, Slots, Chars, Junk
  <1>3. lines \in [Entries -> Pointers \X Pointers]
    BY DEF Init, Joblog, NoLine, Pointers
  <1>4. pos \in 0 .. length /\ nfound \in 0 .. nlines
    BY <1>1 DEF Init, Joblog
  <1> QED BY <1>2, <1>3, <1>4 DEF Init, Joblog, TypeOK, Fresh

LEMMA GiveUpType == ASSUME TypeOK, GiveUp PROVE TypeOK'
  <1>0. copied' = 0 /\ 0 \in 0 .. nlines /\ 0 \in Entries
    <2>1. nlines \in Nat \ {0}
      BY TailAssumption DEF TypeOK
    <2>2. copied' = 0
      BY DEF GiveUp, Reading, output, TypeOK
    <2> QED BY <2>1, <2>2 DEF Entries
  <1>1. pos' \in 0 .. length
    BY DEF GiveUp, Reading, TypeOK
  <1>2. nfound' > 0 /\ nfound' \in 0 .. nlines
    BY PreparedType, TailAssumption DEF GiveUp, TypeOK
  <1> QED BY <1>0, <1>1, <1>2, PreparedType DEF GiveUp, Reading, TypeOK, file, output, Slots, Entries, Pointers, Fresh

LEMMA StoreType == ASSUME TypeOK, Store PROVE TypeOK'
  <1>0. copied' = 0 /\ 0 \in 0 .. nlines /\ 0 \in Entries
    <2>1. nlines \in Nat \ {0}
      BY TailAssumption DEF TypeOK
    <2>2. copied' = 0
      BY DEF Store, Reading, output, TypeOK
    <2> QED BY <2>1, <2>2 DEF Entries
  <1>1. pos' \in 0 .. length /\ pos' \in Chars
    BY TailAssumption DEF Store, Reading, TypeOK, Chars
  <1>2. nfound' > 0 /\ nfound' \in 0 .. nlines
    BY PreparedType, TailAssumption DEF Store, TypeOK
  <1>3. buff' \in [Slots -> Chars]
    BY <1>1, PreparedType DEF Store
  <1> QED BY <1>0, <1>1, <1>2, <1>3, PreparedType
          DEF Store, Reading, TypeOK, file, output, Slots, Entries, Pointers, Fresh

LEMMA StoreNewlineType == ASSUME TypeOK, StoreNewline PROVE TypeOK'
  <1>0. copied' = 0 /\ 0 \in 0 .. nlines /\ 0 \in Entries
    <2>1. nlines \in Nat \ {0}
      BY TailAssumption DEF TypeOK
    <2>2. copied' = 0
      BY DEF StoreNewline, Reading, output, TypeOK
    <2> QED BY <2>1, <2>2 DEF Entries
  <1>1. pos' \in 0 .. length /\ pos' \in Chars /\ 0 \in Chars
    BY TailAssumption DEF StoreNewline, Reading, TypeOK, Chars
  <1>2. nfound' > 0 /\ nfound' \in 0 .. nlines
    BY PreparedType, TailAssumption DEF StoreNewline, TypeOK
  <1>3. buff' \in [Slots -> Chars]
    BY <1>1, PreparedType DEF StoreNewline
  <1>4. NextStart(Slot + 2) \in Slots
    BY PreparedType, TailAssumption DEF NextStart, Slots, TypeOK
  <1>5. lines' \in [Entries -> Pointers \X Pointers]
    <2>1. Latest \in Entries /\ Start \in Pointers
      BY PreparedType, TailAssumption DEF Entries, Latest, Pointers, TypeOK
    <2>2. Turned[Latest] \in Pointers \X Pointers
      BY <2>1, PreparedType
    <2>3. Part + 1 \in {1, 2}
      BY PreparedType
    <2>4. [Turned[Latest] EXCEPT ![Part + 1] = Start] \in Pointers \X Pointers
      BY <2>1, <2>2, <2>3
    <2>5. lines' = [Turned EXCEPT ![Latest] = [Turned[Latest] EXCEPT ![Part + 1] = Start]]
      BY DEF StoreNewline
    <2> QED BY <2>4, <2>5, PreparedType
  <1> QED BY <1>0, <1>1, <1>2, <1>3, <1>4, <1>5
          DEF StoreNewline, Reading, TypeOK, file, output, Slots, Entries, Pointers, Fresh

LEMMA EndOfFileType == ASSUME TypeOK, EndOfFile PROVE TypeOK'
  <1>0. copied' = 0 /\ 0 \in 0 .. nlines /\ 0 \in Entries
    <2>1. nlines \in Nat \ {0}
      BY TailAssumption DEF TypeOK
    <2>2. copied' = 0
      BY DEF EndOfFile, output, TypeOK
    <2> QED BY <2>1, <2>2 DEF Entries
  <1>1. 0 \in Chars
    BY TailAssumption DEF Chars
  <1>2. buff' \in [Slots -> Chars]
    BY <1>1 DEF EndOfFile, TypeOK
  <1>3. lines' \in [Entries -> Pointers \X Pointers]
    <2>1. Latest \in Entries /\ linestart \in Pointers
      BY TailAssumption DEF Entries, Latest, Pointers, TypeOK
    <2>2. lines[Latest] \in Pointers \X Pointers /\ wrap + 1 \in {1, 2}
      BY <2>1 DEF TypeOK
    <2>3. [lines[Latest] EXCEPT ![wrap + 1] = linestart] \in Pointers \X Pointers
      BY <2>1, <2>2
    <2>4. CASE UNCHANGED lines
      BY <2>4 DEF TypeOK
    <2>5. CASE lines' = [lines EXCEPT ![Latest] = [lines[Latest] EXCEPT ![wrap + 1] = linestart]]
      BY <2>3, <2>5 DEF TypeOK
    <2> QED BY <2>4, <2>5 DEF EndOfFile
  <1> QED BY <1>0, <1>2, <1>3 DEF EndOfFile, TypeOK, file, output, Slots, Entries, Pointers, Fresh

LEMMA NextType == ASSUME TypeOK, [Next]_vars PROVE TypeOK'
  <1>1. CASE GiveUp BY <1>1, GiveUpType
  <1>2. CASE Store BY <1>2, StoreType
  <1>3. CASE StoreNewline BY <1>3, StoreNewlineType
  <1>4. CASE EndOfFile BY <1>4, EndOfFileType
  <1>5. CASE CopyLine
    <2>1. nlines \in Nat \ {0}
      BY TailAssumption DEF TypeOK
    <2>2. /\ copied \in Entries /\ copied' = copied + 1
          /\ pc' = IF copied = Latest THEN "printed" ELSE "read"
      BY <1>5 DEF CopyLine, TypeOK
    <2>3. copied' \in 0 .. nlines /\ (pc' = "read" => copied' \in Entries)
      BY <2>1, <2>2 DEF Entries, Latest
    <2>4. UNCHANGED <<file, eof, cursor>> /\ pc' \in {"read", "printed"}
      BY <1>5 DEF CopyLine
    <2> QED BY <2>3, <2>4 DEF TypeOK, file, cursor, Slots, Entries, Pointers, Fresh
  <1>6. CASE UNCHANGED vars
    BY <1>6 DEF vars, TypeOK, file, cursor, output, Slots, Entries, Pointers, Fresh
  <1> QED BY <1>1, <1>2, <1>3, <1>4, <1>5, <1>6 DEF Next

\* At every step of fileTail (fileTailer.cxx:14-61) and of tail, what is written
\* to buff, and the entry of lines that is looked at, are inside of the arrays.
THEOREM TypeCorrect == Spec => []TypeOK
  BY InitType, NextType, PTL DEF Spec

-----------------------------------------------------------------------------
(* The lines that are kept, counted from the last.                         *)

\* How many of S there are from k on.
Rank(S, k) == Cardinality({s \in S : s >= k})

\* The j-th of S from the last.
Nth(S, j) == CHOOSE k \in S : Rank(S, k) = j

\* nfound is the number of lines kept, and that many lines there are.
Counted ==
    /\ nfound = Kept
    /\ \A j \in 1 .. nfound : \E k \in Starts : Rank(Starts, k) = j

LEMMA RankUnique ==
    ASSUME NEW S \in SUBSET Nat, IsFiniteSet(S), NEW k \in S, NEW l \in S,
           Rank(S, k) = Rank(S, l)
    PROVE  k = l
  <1>1. ASSUME NEW a \in S, NEW b \in S, a < b, Rank(S, a) = Rank(S, b) PROVE FALSE
    <2> DEFINE A == {s \in S : s >= a}
               B == {s \in S : s >= b}
    <2>1. IsFiniteSet(A) /\ B \subseteq A /\ a \in A /\ a \notin B
      <3>1. A \in SUBSET S
        OBVIOUS
      <3>2. IsFiniteSet(A)
        BY <3>1, FS_Subset
      <3>3. a \in Nat /\ b \in Nat /\ \A s \in S : s \in Nat
        OBVIOUS
      <3>4. \A s \in S : s >= b => s >= a
        BY <3>3, <1>1
      <3>5. a >= a /\ ~(a >= b)
        BY <3>3, <1>1
      <3> QED BY <3>2, <3>4, <3>5
    <2>2. Cardinality(B) < Cardinality(A)
      <3>1. B # A
        BY <2>1
      <3>2. Cardinality(B) <= Cardinality(A) /\ (Cardinality(B) = Cardinality(A) => B = A)
        BY <2>1, FS_Subset
      <3>3. Cardinality(A) \in Nat /\ Cardinality(B) \in Nat
        BY <2>1, FS_Subset, FS_CardinalityType
      <3> QED BY <3>1, <3>2, <3>3
    <2>3. Cardinality(A) \in Nat /\ Cardinality(B) \in Nat
      BY <2>1, FS_Subset, FS_CardinalityType
    <2> QED BY <1>1, <2>2, <2>3 DEF Rank
  <1>2. k \in Nat /\ l \in Nat
    OBVIOUS
  <1>3. ~(k < l) /\ ~(l < k)
    BY <1>1
  <1> QED BY <1>2, <1>3

LEMMA RankGrows ==
    ASSUME NEW S \in SUBSET Nat, IsFiniteSet(S), NEW n \in Nat, \A s \in S : s < n
    PROVE  /\ Rank(S \cup {n}, n) = 1
           /\ \A k \in S : Rank(S \cup {n}, k) = Rank(S, k) + 1
           /\ Cardinality(S \cup {n}) = Cardinality(S) + 1
  <1>1. {s \in S \cup {n} : s >= n} = {n}
    <2>1. n >= n /\ \A s \in S : ~(s >= n)
      <3>1. \A s \in S : s \in Nat
        OBVIOUS
      <3> QED BY <3>1
    <2> QED BY <2>1, Zenon
  <1>2. Rank(S \cup {n}, n) = 1
    BY <1>1, FS_Singleton DEF Rank
  <1>3. ASSUME NEW k \in S PROVE Rank(S \cup {n}, k) = Rank(S, k) + 1
    <2> DEFINE A == {s \in S : s >= k}
    <2>1. {s \in S \cup {n} : s >= k} = A \cup {n}
      OBVIOUS
    <2>2. IsFiniteSet(A) /\ n \notin A
      <3>1. IsFiniteSet(A)
        BY FS_Subset
      <3> QED BY <3>1
    <2>3. Cardinality(A \cup {n}) = Cardinality(A) + 1
      BY <2>2, FS_AddElement
    <2> QED BY <2>1, <2>3 DEF Rank
  <1>4. Cardinality(S \cup {n}) = Cardinality(S) + 1
    <2>1. n \notin S
      OBVIOUS
    <2> QED BY <2>1, FS_AddElement
  <1> QED BY <1>2, <1>3, <1>4

LEMMA StartsFinite == ASSUME TypeOK PROVE Starts \in SUBSET Nat /\ IsFiniteSet(Starts)
  <1>1. Starts \subseteq 1 .. pos /\ pos \in Nat
    BY DEF Starts, TypeOK
  <1>2. IsFiniteSet(1 .. pos)
    BY <1>1, FS_Interval
  <1>3. IsFiniteSet(Starts)
    BY <1>1, <1>2, FS_Subset
  <1>4. \A k \in 1 .. pos : k \in Nat
    BY <1>1
  <1> QED BY <1>1, <1>3, <1>4

LEMMA NthIs ==
    ASSUME NEW S \in SUBSET Nat, IsFiniteSet(S), NEW k \in S
    PROVE  Nth(S, Rank(S, k)) = k
  <1> DEFINE P(l) == l \in S /\ Rank(S, l) = Rank(S, k)
  <1>1. P(k) OBVIOUS
  <1>2. \A l : P(l) => l = k
    BY RankUnique
  <1>3. Nth(S, Rank(S, k)) = CHOOSE l : P(l)
    BY DEF Nth
  <1> QED BY <1>1, <1>2, <1>3

LEMMA FromLastIsNth == \A j : FromLast(j) = Nth(Starts, j)
  BY DEF FromLast, Nth, Rank

LEMMA NthFacts ==
    ASSUME NEW S \in SUBSET Nat, IsFiniteSet(S), NEW n \in Nat,
           \A j \in 1 .. n : \E k \in S : Rank(S, k) = j
    PROVE  /\ \A j \in 1 .. n : Nth(S, j) \in S /\ Rank(S, Nth(S, j)) = j
           /\ \A i, j \in 1 .. n : i < j => Nth(S, j) < Nth(S, i)
  <1>1. ASSUME NEW j \in 1 .. n PROVE Nth(S, j) \in S /\ Rank(S, Nth(S, j)) = j
    BY NthIs
  <1>2. ASSUME NEW k \in S, NEW l \in S, k <= l PROVE Rank(S, l) <= Rank(S, k)
    <2> DEFINE A == {s \in S : s >= k}
               B == {s \in S : s >= l}
    <2>1. IsFiniteSet(A)
      <3>1. A \in SUBSET S
        OBVIOUS
      <3> QED BY <3>1, FS_Subset
    <2>2. B \in SUBSET A
      <3>1. k \in Nat /\ l \in Nat /\ \A s \in S : s \in Nat
        OBVIOUS
      <3>2. \A s \in S : s >= l => s >= k
        BY <3>1, <1>2
      <3> QED BY <3>2
    <2>3. Cardinality(B) <= Cardinality(A)
      BY <2>1, <2>2, FS_Subset
    <2> QED BY <2>3 DEF Rank
  <1>3. ASSUME NEW i \in 1 .. n, NEW j \in 1 .. n, i < j PROVE Nth(S, j) < Nth(S, i)
    <2>1. Nth(S, i) \in S /\ Rank(S, Nth(S, i)) = i /\ Nth(S, j) \in S /\ Rank(S, Nth(S, j)) = j
      BY <1>1
    <2>2. SUFFICES ASSUME Nth(S, i) <= Nth(S, j) PROVE FALSE
      <3>1. Nth(S, i) \in Nat /\ Nth(S, j) \in Nat
        BY <2>1
      <3> QED BY <3>1
    <2>3. j <= i
      BY <1>2, <2>1, <2>2
    <2> QED BY <2>3, <1>3
  <1> QED BY <1>1, <1>3

-----------------------------------------------------------------------------
(* Where the lines are. buffp runs around the buffer: a line that starts d *)
(* slots behind it starts in this lap, if d is not more than buffp, and    *)
(* else in the one before, which ended one slot early if skip is 1.        *)

At(ptr, d, b, low, skip) ==
    IF d <= b THEN ptr = b - d
    ELSE ptr = maxbuff + b - d - skip /\ ptr \in low .. maxbuff - 2

\* The start of a kept line, and how far it is behind buffp: its characters and
\* those of the later ones, and the '\0' of each that is complete.
Pointer(j) == IF j = 1 /\ ~Fresh /\ wrap = 0 THEN linestart ELSE lines[nlines - j][1]
Behind(j) == (pos - FromLast(j) + 1) + (IF Fresh THEN j ELSE j - 1)

\* Within a line, a slot is left for its '\0'.
Low == IF Fresh THEN buffp ELSE buffp + 1

Layout ==
    \E skip \in {0, 1} : \A j \in 1 .. nfound : At(Pointer(j), Behind(j), buffp, Low, skip)

\* The line from k to e is in one string, or in two that buffp is between.
Spread(line, k, e, b) ==
    \/ line[2] = Null /\ Spells(line[1], k, e)
    \/ /\ line[2] = 0 /\ b <= line[1]
       /\ \E m \in k .. e - 1 :
              Spells(line[1], k, m) /\ Spells(0, m + 1, e) /\ e - m < b

Complete(line, k, b) ==
    \E e \in newlines : /\ e \in k .. pos
                        /\ \A m \in k .. e - 1 : m \notin newlines
                        /\ Spread(line, k, e, b)

Finished ==
    \A j \in 1 .. nfound :
        (j = 1 /\ ~Fresh) \/ Complete(lines[nlines - j], FromLast(j), buffp)

Empty == \A i \in 0 .. Latest - nfound : lines[i] = NoLine

BetweenLines ==
    /\ Fresh <=> (pos = 0 \/ pos \in newlines)
    /\ Fresh => buffp < maxbuff - 1 /\ (buffp # 0 => buff[buffp - 1] = 0)

\* What there is of the line that k starts, all of it in this lap, ...
InOneLap(k) ==
    /\ wrap = 0 /\ lines[Latest][1] = Null
    /\ linestart + (pos - k + 1) = buffp
    /\ \A c \in k .. pos : buff[linestart + c - k] = c

\* ... or the first part of it in the lap before.
InTwoLaps(k) ==
    /\ wrap = 1 /\ linestart = 0 /\ buffp < lines[Latest][1]
    /\ \E m \in k .. pos - 1 :
           /\ Spells(lines[Latest][1], k, m) /\ pos - m = buffp
           /\ \A c \in m + 1 .. pos : buff[c - m - 1] = c

InALineThen ==
    ~Fresh => /\ \A c \in FromLast(1) .. pos : c \notin newlines
              /\ lines[Latest][2] = Null
              /\ InOneLap(FromLast(1)) \/ InTwoLaps(FromLast(1))

Ring == Layout /\ Finished /\ Empty /\ BetweenLines /\ InALineThen /\ ~eof

-----------------------------------------------------------------------------
(* A character is read.                                                    *)

\* If it starts a line, each line is one further from the last.
LEMMA LinesShift ==
    ASSUME TypeOK, Counted, BetweenLines, Reading, UNCHANGED file
    PROVE  /\ Kept' = Found
           /\ \A j \in 1 .. Found : \E k \in Starts' : Rank(Starts', k) = j
           /\ Fresh => /\ FromLast(1)' = pos + 1
                       /\ \A j \in 1 .. Found - 1 : FromLast(j + 1)' = FromLast(j)
           /\ ~Fresh => \A j \in 1 .. Found : FromLast(j)' = FromLast(j)
  <1>1. /\ pos \in Nat /\ nlines \in Nat \ {0} /\ nfound \in 0 .. nlines
        /\ pos' = pos + 1 /\ newlines' = newlines /\ nlines' = nlines
    BY TailAssumption DEF TypeOK, Reading, file
  <1>2. Starts \in SUBSET Nat /\ IsFiniteSet(Starts) /\ Cardinality(Starts) \in Nat
    BY StartsFinite, FS_CardinalityType
  <1>3. \A j : FromLast(j)' = Nth(Starts', j)
    BY <1>1 DEF FromLast, Nth, Rank, Starts
  <1>4. CASE Fresh
    <2>1. Starts' = Starts \cup {pos + 1}
      BY <1>1, <1>4 DEF Starts, BetweenLines
    <2>2. \A s \in Starts : s < pos + 1
      BY <1>1 DEF Starts
    <2>3. /\ Rank(Starts', pos + 1) = 1
          /\ \A k \in Starts : Rank(Starts', k) = Rank(Starts, k) + 1
          /\ Cardinality(Starts') = Cardinality(Starts) + 1
      <3>1. pos + 1 \in Nat
        BY <1>1
      <3>2. /\ Rank(Starts \cup {pos + 1}, pos + 1) = 1
            /\ \A k \in Starts : Rank(Starts \cup {pos + 1}, k) = Rank(Starts, k) + 1
            /\ Cardinality(Starts \cup {pos + 1}) = Cardinality(Starts) + 1
        BY <1>2, <2>2, <3>1, RankGrows
      <3> QED BY <2>1, <3>2, Zenon
    <2>4. Starts' \in SUBSET Nat /\ IsFiniteSet(Starts')
      BY <1>1, <1>2, <2>1, FS_AddElement
    <2>5. Kept' = Found
      BY <1>1, <1>2, <1>4, <2>3 DEF Kept, Found, Counted
    <2>6. Found - 1 <= nfound /\ Found \in Nat
      BY <1>1 DEF Found
    <2>7. FromLast(1)' = pos + 1
      BY <1>3, <2>1, <2>3, <2>4, NthIs
    <2>8. ASSUME NEW j \in 1 .. Found - 1
          PROVE  /\ FromLast(j + 1)' = FromLast(j)
                 /\ \E k \in Starts' : Rank(Starts', k) = j + 1
      <3>1. PICK k \in Starts : Rank(Starts, k) = j
        BY <1>1, <2>6 DEF Counted
      <3>2. k \in Starts' /\ Rank(Starts', k) = j + 1
        BY <2>1, <2>3, <3>1
      <3>3. Nth(Starts, j) = k
        BY <1>2, <3>1, NthIs
      <3>4. Nth(Starts', j + 1) = k
        BY <2>4, <3>2, NthIs
      <3> QED BY <1>3, <3>2, <3>3, <3>4, FromLastIsNth
    <2>9. ASSUME NEW j \in 1 .. Found PROVE \E k \in Starts' : Rank(Starts', k) = j
      <3>1. CASE j = 1 BY <2>1, <2>3, <3>1
      <3>2. CASE j # 1
        <4>1. j - 1 \in 1 .. Found - 1 /\ (j - 1) + 1 = j
          BY <2>6, <3>2
        <4> QED BY <2>8, <4>1
      <3> QED BY <3>1, <3>2
    <2> QED BY <1>4, <2>5, <2>7, <2>8, <2>9
  <1>5. CASE ~Fresh
    <2>1. Starts' = Starts
      <3>1. pos # 0 /\ pos \notin newlines
        BY <1>5 DEF BetweenLines
      <3> QED BY <1>1, <3>1 DEF Starts
    <2>2. Found = nfound
      BY <1>5 DEF Found
    <2>3. Kept' = Found
      BY <1>1, <2>1, <2>2 DEF Kept, Counted
    <2>4. \A j : FromLast(j)' = FromLast(j)
      BY <1>3, <2>1, FromLastIsNth
    <2> QED BY <1>5, <2>1, <2>2, <2>3, <2>4 DEF Counted
  <1> QED BY <1>4, <1>5

\* The start of a line, when the place of the character has been made, and how
\* far behind that place it is.
Target(j) == IF j = 1 /\ Part = 0 THEN Start ELSE Turned[nlines - j][1]
Ahead(j) == (pos - FromLast(j)' + 1) + (j - 1)

LEMMA RangeFacts ==
    ASSUME TypeOK
    PROVE  /\ nlines \in Nat \ {0} /\ maxbuff \in Nat /\ maxbuff >= 2 /\ pos \in Nat
           /\ nfound \in 0 .. nlines /\ Found \in 1 .. nlines /\ Found - 1 <= nfound
           /\ buffp \in 0 .. maxbuff - 1 /\ linestart \in 0 .. maxbuff - 1
           /\ wrap \in {0, 1} /\ (~Fresh => Found = nfound)
  <1>1. maxbuff \in Nat \ {0, 1} /\ nlines \in Nat \ {0}
    BY TailAssumption DEF TypeOK
  <1> QED BY <1>1 DEF TypeOK, Found, Slots

LEMMA FirstFacts ==
    ASSUME TypeOK, Counted
    PROVE  /\ \A j \in 1 .. nfound : FromLast(j) \in 1 .. pos
           /\ \A i, j \in 1 .. nfound : i < j => FromLast(j) < FromLast(i)
  <1>1. nfound \in Nat
    BY RangeFacts
  <1>2. Starts \in SUBSET Nat /\ IsFiniteSet(Starts)
    BY StartsFinite
  <1>3. /\ \A j \in 1 .. nfound : Nth(Starts, j) \in Starts
        /\ \A i, j \in 1 .. nfound : i < j => Nth(Starts, j) < Nth(Starts, i)
    BY <1>1, <1>2, NthFacts DEF Counted
  <1>4. Starts \subseteq 1 .. pos
    BY DEF Starts
  <1> QED BY <1>3, <1>4, FromLastIsNth

LEMMA NextFirstFacts ==
    ASSUME TypeOK, Counted, BetweenLines, Reading, UNCHANGED file
    PROVE  /\ \A j \in 1 .. Found : FromLast(j)' \in 1 .. pos + 1
           /\ \A j \in 2 .. Found : FromLast(j)' <= pos
           /\ \A i, j \in 1 .. Found : i < j => FromLast(j)' < FromLast(i)'
           /\ ~Fresh => \A j \in 1 .. Found : FromLast(j)' = FromLast(j)
           /\ Fresh => FromLast(1)' = pos + 1
           /\ Fresh => \A j \in 2 .. Found : FromLast(j)' = FromLast(j - 1) /\ j - 1 \in 1 .. nfound
  <1>1. /\ pos \in Nat /\ Found \in Nat /\ nfound \in Nat /\ Found - 1 <= nfound
        /\ ~Fresh => Found = nfound
    BY RangeFacts
  <1>2. CASE Fresh
    <2>1. \A j \in 2 .. Found : j - 1 \in 1 .. Found - 1 /\ (j - 1) + 1 = j /\ j - 1 \in 1 .. nfound
      BY <1>1
    <2>2. \A j \in 2 .. Found : FromLast(j)' = FromLast(j - 1)
      <3>1. ASSUME NEW j \in 2 .. Found PROVE FromLast(j)' = FromLast(j - 1)
        <4>1. FromLast((j - 1) + 1)' = FromLast(j - 1)
          BY <1>2, <2>1, LinesShift
        <4> QED BY <2>1, <4>1
      <3> QED BY <3>1
    <2>3. FromLast(1)' = pos + 1
      BY <1>2, LinesShift
    <2>4. \A j \in 2 .. Found : FromLast(j)' \in 1 .. pos
      BY <2>1, <2>2, FirstFacts
    <2>5. ASSUME NEW i \in 1 .. Found, NEW j \in 1 .. Found, i < j
          PROVE  FromLast(j)' < FromLast(i)'
      <3>1. j \in 2 .. Found
        BY <1>1, <2>5
      <3>2. CASE i = 1
        BY <1>1, <2>3, <2>4, <3>1, <3>2
      <3>3. CASE i # 1
        <4>1. i \in 2 .. Found /\ i - 1 < j - 1
          BY <1>1, <2>5, <3>3
        <4>2. FromLast(j - 1) < FromLast(i - 1)
          BY <2>1, <3>1, <4>1, FirstFacts
        <4> QED BY <2>2, <3>1, <4>1, <4>2
      <3> QED BY <3>2, <3>3
    <2>6. \A j \in 1 .. Found : FromLast(j)' \in 1 .. pos + 1
      <3>1. \A j \in 1 .. Found : j = 1 \/ j \in 2 .. Found
        BY <1>1
      <3> QED BY <1>1, <2>3, <2>4, <3>1
    <2> QED BY <1>1, <1>2, <2>1, <2>2, <2>3, <2>4, <2>5, <2>6
  <1>3. CASE ~Fresh
    <2>1. \A j \in 1 .. Found : FromLast(j)' = FromLast(j)
      BY <1>3, LinesShift
    <2>2. \A j \in 2 .. Found : j \in 1 .. Found
      BY <1>1
    <2> QED BY <1>1, <1>3, <2>1, <2>2, FirstFacts
  <1> QED BY <1>2, <1>3

\* Lines in the buffer do not fill the last slot but in the lap before.
LEMMA FullFacts ==
    ASSUME TypeOK, Ring, Full
    PROVE  ~Fresh /\ wrap = 0
  <1>1. maxbuff \in Nat /\ buffp = maxbuff - 1
    BY RangeFacts DEF Full
  <1>2. ~Fresh
    BY <1>1 DEF Ring, BetweenLines
  <1>3. nlines - 1 \in Entries /\ Latest \in Entries
    BY RangeFacts DEF Entries, Latest
  <1>4. lines[Latest] \in Pointers \X Pointers
    BY <1>3 DEF TypeOK
  <1>5. lines[Latest][1] <= maxbuff - 1
    BY <1>1, <1>4 DEF Pointers, Slots, Null
  <1> QED BY <1>1, <1>2, <1>4, <1>5 DEF Ring, InALineThen, InOneLap, InTwoLaps, Pointers, Slots, Null

LEMMA Prepared ==
    ASSUME TypeOK, Counted, Ring, Reading, UNCHANGED file
    PROVE  /\ \E skip \in {0, 1} : \A j \in 1 .. Found : At(Target(j), Ahead(j), Slot, Slot, skip)
           /\ Full => \A j \in 1 .. Found : Target(j) = maxbuff - 1 - Ahead(j) /\ Target(j) >= 0
           /\ \A j \in 2 .. Found : Ahead(j) >= pos - FromLast(j)' + 2
           /\ \A j \in 1 .. Found : Ahead(j) \in Nat /\ (Ahead(j) = 0 => j = 1 /\ Fresh)
           /\ \A i, j \in 1 .. Found : i < j => Ahead(i) < Ahead(j)
  <1>1. /\ nlines \in Nat \ {0} /\ maxbuff \in Nat /\ maxbuff >= 2 /\ pos \in Nat
        /\ nfound \in 0 .. nlines /\ Found \in 1 .. nlines /\ Found - 1 <= nfound
        /\ buffp \in 0 .. maxbuff - 1 /\ linestart \in 0 .. maxbuff - 1
        /\ wrap \in {0, 1} /\ (~Fresh => Found = nfound)
    BY RangeFacts
  <1>2. BetweenLines
    BY DEF Ring
  <1>3. /\ \A j \in 1 .. Found : FromLast(j)' \in 1 .. pos + 1
        /\ \A j \in 2 .. Found : FromLast(j)' <= pos
        /\ \A i, j \in 1 .. Found : i < j => FromLast(j)' < FromLast(i)'
        /\ ~Fresh => \A j \in 1 .. Found : FromLast(j)' = FromLast(j)
        /\ Fresh => FromLast(1)' = pos + 1
        /\ Fresh => \A j \in 2 .. Found : FromLast(j)' = FromLast(j - 1) /\ j - 1 \in 1 .. nfound
    BY <1>2, NextFirstFacts
  <1>4. PICK skip \in {0, 1} : \A j \in 1 .. nfound : At(Pointer(j), Behind(j), buffp, Low, skip)
    BY DEF Ring, Layout
  <1>5. \A j \in 2 .. Found : Ahead(j) >= pos - FromLast(j)' + 2
    <2>1. \A j \in 2 .. Found : j \in 1 .. Found /\ j \in Int
      BY <1>1
    <2> QED BY <1>1, <1>3, <2>1 DEF Ahead
  <1>6. \A j \in 1 .. Found : FromLast(j)' = pos + 1 => j = 1 /\ Fresh
    <2>1. \A j \in 1 .. Found : j = 1 \/ j \in 2 .. Found
      BY <1>1
    <2>2. ~Fresh => FromLast(1) <= pos
      BY <1>1, FirstFacts
    <2> QED BY <1>1, <1>3, <2>1, <2>2
  <1>7. \A j \in 1 .. Found : Ahead(j) \in Nat /\ (Ahead(j) = 0 => j = 1 /\ Fresh)
    BY <1>1, <1>3, <1>6 DEF Ahead
  <1>8. \A i, j \in 1 .. Found : i < j => Ahead(i) < Ahead(j)
    BY <1>1, <1>3 DEF Ahead
  <1>9. CASE Fresh
    <2>1. ~Full /\ Slot = buffp /\ Start = buffp /\ Part = 0 /\ Turned = Shifted(lines) /\ Low = Slot
      BY <1>1, <1>2, <1>9 DEF BetweenLines, Full, Slot, Start, Part, Turned, Begun, Fresh, Low
    <2>2. Target(1) = Slot /\ Ahead(1) = 0
      BY <1>1, <1>3, <1>9, <2>1 DEF Target, Ahead
    <2>3. ASSUME NEW j \in 2 .. Found PROVE At(Target(j), Ahead(j), Slot, Slot, skip)
      <3>1. j \in 1 .. Found /\ j # 1 /\ j - 1 \in 1 .. nfound /\ FromLast(j)' = FromLast(j - 1)
        BY <1>1, <1>3, <1>9
      <3>2. nlines - j \in Entries /\ nlines - j < Latest /\ nlines - j + 1 = nlines - (j - 1)
        BY <1>1, <3>1 DEF Entries, Latest
      <3>3. Target(j) = Pointer(j - 1)
        BY <1>9, <2>1, <3>1, <3>2 DEF Target, Pointer, Shifted
      <3>4. FromLast(j - 1) \in Int
        BY <1>3, <3>1
      <3>5. Ahead(j) = Behind(j - 1)
        BY <1>1, <1>9, <3>1, <3>4 DEF Ahead, Behind
      <3> QED BY <1>4, <2>1, <3>1, <3>3, <3>5
    <2>4. At(Target(1), Ahead(1), Slot, Slot, skip)
      BY <1>1, <2>1, <2>2 DEF At
    <2>5. \A j \in 1 .. Found : At(Target(j), Ahead(j), Slot, Slot, skip)
      <3>1. \A j \in 1 .. Found : j = 1 \/ j \in 2 .. Found
        BY <1>1
      <3> QED BY <2>3, <2>4, <3>1
    <2> QED BY <1>5, <1>7, <1>8, <2>1, <2>5
  <1>10. CASE ~Fresh /\ ~Full
    <2>1. Slot = buffp /\ Start = linestart /\ Part = wrap /\ Turned = lines /\ Low = buffp + 1
      BY <1>10 DEF Slot, Start, Part, Turned, Begun, Low
    <2>2. ASSUME NEW j \in 1 .. Found PROVE At(Target(j), Ahead(j), Slot, Slot, skip)
      <3>1. Target(j) = Pointer(j)
        BY <1>10, <2>1 DEF Target, Pointer
      <3>2. Ahead(j) = Behind(j) /\ Behind(j) \in Nat
        BY <1>1, <1>3, <1>7, <1>10 DEF Ahead, Behind
      <3>3. At(Pointer(j), Behind(j), buffp, buffp + 1, skip)
        BY <1>1, <1>4, <1>10, <2>1
      <3> QED BY <1>1, <2>1, <3>1, <3>2, <3>3 DEF At
    <2> QED BY <1>5, <1>7, <1>8, <1>10, <2>2
  <1>11. CASE Full
    <2>1. ~Fresh /\ wrap = 0 /\ buffp = maxbuff - 1
      BY <1>11, FullFacts DEF Full
    <2>2. /\ Slot = 0 /\ Start = 0 /\ Part = 1 /\ Low = buffp + 1
          /\ Turned = [lines EXCEPT ![Latest][1] = linestart]
      BY <1>11, <2>1 DEF Slot, Start, Part, Turned, Begun, Low
    <2>3. ASSUME NEW j \in 1 .. Found
          PROVE  Target(j) = maxbuff - 1 - Ahead(j) /\ Target(j) >= 0 /\ Target(j) <= maxbuff - 2
      <3>1. Ahead(j) = Behind(j) /\ Behind(j) \in Nat /\ Behind(j) # 0
        BY <1>1, <1>3, <1>7, <2>1 DEF Ahead, Behind
      <3>2. nlines - j \in Entries /\ (nlines - j = Latest <=> j = 1)
        BY <1>1 DEF Entries, Latest
      <3>3. lines \in [Entries -> Pointers \X Pointers]
        BY DEF TypeOK
      <3>4. Target(j) = Pointer(j)
        <4>1. CASE j = 1
          BY <2>1, <2>2, <3>2, <3>3, <4>1 DEF Target, Pointer
        <4>2. CASE j # 1
          BY <2>1, <2>2, <3>2, <3>3, <4>2 DEF Target, Pointer
        <4> QED BY <4>1, <4>2
      <3>5. At(Pointer(j), Behind(j), buffp, buffp + 1, skip)
        BY <1>1, <1>4, <2>1, <2>2
      <3> QED BY <1>1, <2>1, <3>1, <3>4, <3>5 DEF At
    <2>4. \A j \in 1 .. Found : At(Target(j), Ahead(j), Slot, Slot, 1)
      <3>1. ASSUME NEW j \in 1 .. Found PROVE At(Target(j), Ahead(j), Slot, Slot, 1)
        <4>1. Ahead(j) \in Nat /\ Ahead(j) # 0
          BY <1>7, <2>1
        <4> QED BY <1>1, <2>2, <2>3, <4>1 DEF At
      <3> QED BY <3>1
    <2> QED BY <1>5, <1>7, <1>8, <2>3, <2>4
  <1> QED BY <1>9, <1>10, <1>11

SpellsIn(array, a, first, last) ==
    /\ a # Null
    /\ a + (last - first) + 1 \in Slots
    /\ \A k \in first .. last : array[a + k - first] = k
    /\ array[a + (last - first) + 1] = 0

LEMMA SpellsInBuff == \A a, first, last : Spells(a, first, last) <=> SpellsIn(buff, a, first, last)
  BY DEF Spells, SpellsIn

LEMMA SpellsStay ==
    ASSUME NEW X, NEW Y, NEW a \in Int, NEW f \in Int, NEW l \in Int, f <= l,
           SpellsIn(X, a, f, l),
           \A x \in a .. a + (l - f) + 1 : Y[x] = X[x]
    PROVE  SpellsIn(Y, a, f, l)
  <1>1. \A k \in f .. l : a + k - f \in a .. a + (l - f) + 1
    OBVIOUS
  <1>2. a + (l - f) + 1 \in a .. a + (l - f) + 1
    OBVIOUS
  <1> QED BY <1>1, <1>2 DEF SpellsIn

LEMMA ClosedFacts ==
    ASSUME TypeOK
    PROVE  /\ \A x \in Slots : x < maxbuff - 1 \/ ~Full => Closed[x] = buff[x]
           /\ Full => Closed[maxbuff - 1] = 0
  BY RangeFacts DEF Closed, Full, TypeOK, Slots

\* The line that is being read, with the place of its next character.
PreparedLine(k) ==
    /\ \A c \in k .. pos : c \notin newlines
    /\ Turned[Latest][2] = Null
    /\ \/ /\ Part = 0 /\ Turned[Latest][1] = Null
          /\ Start + (pos - k + 1) = Slot
          /\ \A c \in k .. pos : Closed[Start + c - k] = c
       \/ /\ Part = 1 /\ Start = 0
          /\ \E m \in k .. pos :
                 /\ SpellsIn(Closed, Turned[Latest][1], k, m) /\ pos - m = Slot
                 /\ \A c \in m + 1 .. pos : Closed[c - m - 1] = c

LEMMA PreparedLineHolds ==
    ASSUME TypeOK, Counted, Ring, Reading, UNCHANGED file
    PROVE  PreparedLine(FromLast(1)')
  <1> DEFINE k == FromLast(1)'
  <1> SUFFICES PreparedLine(k)
    OBVIOUS
  <1>1. /\ nlines \in Nat \ {0} /\ maxbuff \in Nat /\ maxbuff >= 2 /\ pos \in Nat
        /\ nfound \in 0 .. nlines /\ Found \in 1 .. nlines
        /\ buffp \in 0 .. maxbuff - 1 /\ linestart \in 0 .. maxbuff - 1
        /\ wrap \in {0, 1} /\ (~Fresh => Found = nfound)
    BY RangeFacts
  <1>2. BetweenLines /\ InALineThen
    BY DEF Ring
  <1>3. /\ k \in 1 .. pos + 1
        /\ ~Fresh => k = FromLast(1) /\ k \in 1 .. pos
        /\ Fresh => k = pos + 1
    BY <1>1, <1>2, NextFirstFacts, FirstFacts
  <1>4. Latest \in Entries /\ lines \in [Entries -> Pointers \X Pointers]
    BY <1>1 DEF Entries, Latest, TypeOK
  <1>5. CASE Fresh
    <2>1. ~Full /\ Slot = buffp /\ Start = buffp /\ Part = 0 /\ Turned = Shifted(lines)
      BY <1>1, <1>2, <1>5 DEF BetweenLines, Full, Slot, Start, Part, Turned, Begun, Fresh
    <2>2. Turned[Latest] = NoLine
      BY <1>1, <1>4, <2>1 DEF Shifted, Latest
    <2>3. k .. pos = {}
      BY <1>1, <1>3, <1>5
    <2>4. Start + (pos - k + 1) = Slot
      BY <1>1, <1>3, <1>5, <2>1
    <2> HIDE DEF k
    <2> QED BY <2>1, <2>2, <2>3, <2>4 DEF PreparedLine, NoLine
  <1>6. CASE ~Fresh /\ ~Full
    <2>1. Slot = buffp /\ Start = linestart /\ Part = wrap /\ Turned = lines /\ Closed = buff
      BY <1>6 DEF Slot, Start, Part, Turned, Begun, Closed
    <2>2. \A m \in k .. pos - 1 : m \in k .. pos
      BY <1>1, <1>3
    <2>3. \A c \in k .. pos : c \notin newlines
      BY <1>2, <1>3, <1>6 DEF InALineThen
    <2>4. lines[Latest][2] = Null /\ (InOneLap(k) \/ InTwoLaps(k))
      BY <1>2, <1>3, <1>6 DEF InALineThen
    <2> HIDE DEF k
    <2>5. CASE InOneLap(k)
      BY <2>1, <2>3, <2>4, <2>5 DEF InOneLap, PreparedLine
    <2>6. CASE InTwoLaps(k)
      BY <2>1, <2>2, <2>3, <2>4, <2>6, SpellsInBuff DEF InTwoLaps, PreparedLine
    <2> QED BY <2>4, <2>5, <2>6
  <1>7. CASE Full
    <2>1. ~Fresh /\ wrap = 0 /\ buffp = maxbuff - 1
      BY <1>7, FullFacts DEF Full
    <2>2. /\ Slot = 0 /\ Start = 0 /\ Part = 1
          /\ Turned = [lines EXCEPT ![Latest][1] = linestart]
      BY <1>7, <2>1 DEF Slot, Start, Part, Turned, Begun
    <2>3. InOneLap(k) /\ lines[Latest][2] = Null /\ \A c \in k .. pos : c \notin newlines
      BY <1>2, <1>3, <2>1 DEF InALineThen, InTwoLaps
    <2> HIDE DEF k
    <2>4. Turned[Latest][1] = linestart /\ Turned[Latest][2] = Null
      BY <1>4, <2>2, <2>3
    <2>5. linestart + (pos - k) + 1 = maxbuff - 1
      BY <1>1, <1>3, <2>1, <2>3 DEF InOneLap
    <2>6. SpellsIn(Closed, linestart, k, pos)
      <3>1. linestart # Null /\ maxbuff - 1 \in Slots /\ Closed[maxbuff - 1] = 0
        BY <1>1, <1>7, ClosedFacts DEF Null, Slots
      <3>2. ASSUME NEW c \in k .. pos PROVE Closed[linestart + c - k] = c
        <4>1. linestart + c - k \in Slots /\ linestart + c - k < maxbuff - 1
          BY <1>1, <1>3, <2>5 DEF Slots
        <4> QED BY <2>3, <4>1, ClosedFacts DEF InOneLap
      <3> QED BY <2>5, <3>1, <3>2 DEF SpellsIn
    <2>7. pos \in k .. pos /\ pos - pos = Slot /\ pos + 1 .. pos = {}
      BY <1>1, <1>3, <2>1, <2>2
    <2> QED BY <2>2, <2>3, <2>4, <2>6, <2>7 DEF PreparedLine
  <1> QED BY <1>5, <1>6, <1>7

LEMMA SlotFacts ==
    ASSUME TypeOK
    PROVE  Slot \in 0 .. maxbuff - 2
  BY RangeFacts DEF Slot, Full

-----------------------------------------------------------------------------
(* testForRoom.                                                            *)

RoomNow == Room(Turned, nlines - Found, Slot)

\* With room for the character and a '\0', there is, before all lines of the lap
\* before. Without, the lines take the whole buffer but two slots.
LEMMA RoomFacts ==
    ASSUME TypeOK, Counted, Ring, Reading, UNCHANGED file
    PROVE  /\ RoomNow => \A j \in 1 .. Found : Ahead(j) <= Slot \/ Target(j) >= Slot + 2
           /\ ~RoomNow => \E n \in 1 .. Found : n = Found /\ Ahead(n) >= maxbuff - 2
  <1>1. /\ nlines \in Nat \ {0} /\ maxbuff \in Nat /\ maxbuff >= 2 /\ pos \in Nat
        /\ Found \in 1 .. nlines
    BY RangeFacts
  <1>2. Slot \in 0 .. maxbuff - 2
    BY SlotFacts
  <1>3. PICK skip \in {0, 1} : \A j \in 1 .. Found : At(Target(j), Ahead(j), Slot, Slot, skip)
    BY Prepared
  <1>4. /\ \A j \in 1 .. Found : Ahead(j) \in Nat /\ (Ahead(j) = 0 => j = 1 /\ Fresh)
        /\ \A i, j \in 1 .. Found : i < j => Ahead(i) < Ahead(j)
    BY Prepared
  <1>5. PreparedLine(FromLast(1)') /\ FromLast(1)' \in 1 .. pos + 1
    BY <1>1, PreparedLineHolds, NextFirstFacts DEF Ring
  <1>6. Part = 0 => Ahead(1) <= Slot
    BY <1>1, <1>2, <1>5, PreparedType DEF PreparedLine, Ahead, Slots
  <1>7. CASE Found = 1 /\ Part = 0
    <2>1. nlines - Found = Latest
      BY <1>7 DEF Latest
    <2>2. Turned[Latest][1] = Null
      BY <1>5, <1>7 DEF PreparedLine
    <2>3. RoomNow
      BY <1>2, <2>1, <2>2 DEF RoomNow, Room, Null
    <2>4. \A j \in 1 .. Found : j = 1
      BY <1>7
    <2> QED BY <1>6, <1>7, <2>3, <2>4
  <1>8. CASE ~(Found = 1 /\ Part = 0)
    <2> DEFINE o == Turned[nlines - Found][1]
    <2>0. PICK n \in 1 .. Found : n = Found
      BY <1>1
    <2>1. o = Target(n)
      BY <1>8, <2>0 DEF Target
    <2>2. At(Target(n), Ahead(n), Slot, Slot, skip)
      BY <1>3
    <2>3. RoomNow <=> Slot # o /\ Slot + 1 # o
      BY DEF RoomNow, Room
    <2>4. Ahead(n) # 0
      <3>1. SUFFICES ASSUME Ahead(n) = 0 PROVE FALSE
        OBVIOUS
      <3>2. Found = 1 /\ Fresh
        BY <1>4, <2>0, <3>1
      <3>3. Part = 0
        BY <3>2, FullFacts DEF Part, Fresh
      <3> QED BY <1>8, <3>2, <3>3
    <2> HIDE DEF o
    <2>5. Ahead(n) \in Nat
      BY <1>4
    <2>6. ~RoomNow => Ahead(n) >= maxbuff - 2
      BY <1>1, <1>2, <2>1, <2>2, <2>3, <2>4, <2>5 DEF At
    <2>7. ASSUME RoomNow, NEW j \in 1 .. Found PROVE Ahead(j) <= Slot \/ Target(j) >= Slot + 2
      <3>1. Ahead(j) \in Nat /\ Ahead(j) <= Ahead(n)
        <4>1. CASE j = n BY <1>4, <2>5, <4>1
        <4>2. CASE j # n
          <5>1. j < n
            BY <1>1, <2>0, <4>2
          <5> QED BY <1>4, <2>5, <5>1
        <4> QED BY <4>1, <4>2
      <3>2. At(Target(j), Ahead(j), Slot, Slot, skip)
        BY <1>3
      <3>3. Slot # o /\ Slot + 1 # o
        BY <2>3, <2>7
      <3> QED BY <1>1, <1>2, <2>1, <2>2, <2>5, <3>1, <3>2, <3>3 DEF At
    <2> QED BY <2>0, <2>6, <2>7
  <1> QED BY <1>7, <1>8

\* A complete line that is kept is not where the character goes, nor its '\0'.
Undisturbed(line, k, e) ==
    \/ /\ line[2] = Null /\ SpellsIn(Closed, line[1], k, e)
       /\ RoomNow => \A x \in line[1] .. line[1] + (e - k) + 1 : x # Slot /\ x # Slot + 1
    \/ /\ line[2] = 0 /\ line[1] <= maxbuff - 2
       /\ RoomNow => Slot + 2 <= line[1]
       /\ \E m \in k .. e - 1 :
              /\ SpellsIn(Closed, line[1], k, m) /\ SpellsIn(Closed, 0, m + 1, e)
              /\ e - m < Slot

KeptAt(line, k) ==
    \E e \in newlines : /\ e \in k .. pos
                        /\ \A m \in k .. e - 1 : m \notin newlines
                        /\ Undisturbed(line, k, e)

\* Which line that was before.
LEMMA WasComplete ==
    ASSUME TypeOK, Counted, Ring, Reading, UNCHANGED file, NEW j \in 2 .. Found
    PROVE  /\ nlines - j \in Entries /\ nlines - j # Latest
           /\ Turned[nlines - j] \in Pointers \X Pointers
           /\ Target(j) = Turned[nlines - j][1]
           /\ Complete(Turned[nlines - j], FromLast(j)', buffp)
  <1>1. /\ nlines \in Nat \ {0} /\ nfound \in 0 .. nlines /\ Found \in 1 .. nlines
        /\ ~Fresh => Found = nfound
    BY RangeFacts
  <1>2. j \in 1 .. Found /\ j # 1
    BY <1>1
  <1>3. nlines - j \in Entries /\ nlines - j < Latest /\ nlines - j + 1 = nlines - (j - 1)
    BY <1>1, <1>2 DEF Entries, Latest
  <1>4. Turned \in [Entries -> Pointers \X Pointers] /\ Latest \in Entries
    BY <1>1, PreparedType DEF Entries, Latest
  <1>5. Turned[nlines - j] = Begun[nlines - j]
    BY <1>1, <1>3, <1>4, PreparedType DEF Turned, Latest, Entries
  <1>6. Complete(Turned[nlines - j], FromLast(j)', buffp)
    <2>1. CASE Fresh
      <3>1. FromLast(j)' = FromLast(j - 1) /\ j - 1 \in 1 .. nfound
        BY <2>1, NextFirstFacts DEF Ring
      <3>2. Begun[nlines - j] = lines[nlines - (j - 1)]
        BY <1>3, <2>1 DEF Begun, Shifted
      <3>3. Complete(lines[nlines - (j - 1)], FromLast(j - 1), buffp)
        BY <2>1, <3>1 DEF Ring, Finished
      <3> QED BY <1>5, <3>1, <3>2, <3>3
    <2>2. CASE ~Fresh
      <3>1. FromLast(j)' = FromLast(j) /\ j \in 1 .. nfound
        BY <1>1, <1>2, <2>2, NextFirstFacts DEF Ring
      <3>2. Begun[nlines - j] = lines[nlines - j]
        BY <2>2 DEF Begun
      <3>3. Complete(lines[nlines - j], FromLast(j), buffp)
        BY <1>2, <2>2, <3>1 DEF Ring, Finished
      <3>4. Turned[nlines - j] = lines[nlines - j]
        BY <1>5, <3>2
      <3>5. FromLast(j)' = FromLast(j)
        BY <3>1
      <3> QED BY <3>3, <3>4, <3>5
    <2> QED BY <2>1, <2>2
  <1>7. nlines - j # Latest
    BY <1>1, <1>2 DEF Latest
  <1>8. Target(j) = Turned[nlines - j][1]
    BY <1>2 DEF Target
  <1>9. Turned[nlines - j] \in Pointers \X Pointers
    BY <1>3, <1>4
  <1> QED BY <1>3, <1>6, <1>7, <1>8, <1>9, Zenon

LEMMA KeptLine ==
    ASSUME TypeOK, Counted, Ring, Reading, UNCHANGED file, NEW j \in 2 .. Found
    PROVE  KeptAt(Turned[nlines - j], FromLast(j)')
  <1> DEFINE k == FromLast(j)'
             line == Turned[nlines - j]
  <1> SUFFICES KeptAt(line, k)
    OBVIOUS
  <1>1. /\ maxbuff \in Nat /\ maxbuff >= 2 /\ pos \in Nat /\ Found \in Nat
        /\ buffp \in 0 .. maxbuff - 1
    BY RangeFacts
  <1>2. line \in Pointers \X Pointers /\ Target(j) = line[1] /\ Complete(line, k, buffp)
    BY WasComplete
  <1>3. PICK e \in newlines : /\ e \in k .. pos /\ \A m \in k .. e - 1 : m \notin newlines
                             /\ Spread(line, k, e, buffp)
    BY <1>2 DEF Complete
  <1>4. j \in 1 .. Found
    BY <1>1
  <1>5. k \in 1 .. pos
    <2>1. k \in 1 .. pos + 1 /\ k <= pos
      BY <1>4, NextFirstFacts DEF Ring
    <2> QED BY <1>1, <2>1
  <1>6. /\ Ahead(j) \in Nat /\ Ahead(j) >= pos - k + 2
        /\ Full => line[1] = maxbuff - 1 - Ahead(j)
        /\ RoomNow => Ahead(j) <= Slot \/ line[1] >= Slot + 2
    BY <1>2, <1>4, Prepared, RoomFacts
  <1>7. PICK skip \in {0, 1} : At(line[1], Ahead(j), Slot, Slot, skip)
    <2>1. \E skip \in {0, 1} : At(Target(j), Ahead(j), Slot, Slot, skip)
      BY <1>4, Prepared
    <2> QED BY <1>2, <2>1
  <1>8. Slot \in 0 .. maxbuff - 2
    BY SlotFacts
  <1>9. line[1] = Null \/ line[1] \in Slots
    BY <1>2 DEF Pointers
  <1> HIDE DEF k, line
  <1>10. CASE line[2] = Null /\ Spells(line[1], k, e)
    <2>1. SpellsIn(buff, line[1], k, e) /\ line[1] \in Slots
      BY <1>9, <1>10, SpellsInBuff DEF SpellsIn
    <2>2. e \in Int /\ k <= e /\ line[1] \in Nat
      BY <1>1, <1>3, <1>5, <2>1 DEF Slots
    <2>3. Full => line[1] + (e - k) + 1 < maxbuff - 1
      BY <1>1, <1>3, <1>5, <1>6, <2>2
    <2>4. \A x \in line[1] .. line[1] + (e - k) + 1 : Closed[x] = buff[x]
      <3>1. line[1] + (e - k) + 1 \in Slots
        BY <2>1 DEF SpellsIn
      <3>2. ASSUME NEW x \in line[1] .. line[1] + (e - k) + 1 PROVE Closed[x] = buff[x]
        <4>1. x \in Slots /\ (Full => x < maxbuff - 1)
          BY <1>1, <1>5, <2>2, <2>3, <3>1 DEF Slots
        <4> QED BY <4>1, ClosedFacts
      <3> QED BY <3>2
    <2>5. SpellsIn(Closed, line[1], k, e)
      BY <1>5, <2>1, <2>2, <2>4, SpellsStay
    <2>6. Ahead(j) <= Slot => line[1] + (e - k) + 1 < Slot
      BY <1>1, <1>3, <1>5, <1>6, <1>7, <1>8, <2>2 DEF At
    <2>7. RoomNow => \A x \in line[1] .. line[1] + (e - k) + 1 : x # Slot /\ x # Slot + 1
      BY <1>5, <1>6, <1>8, <2>2, <2>6
    <2> QED BY <1>3, <1>10, <2>5, <2>7 DEF KeptAt, Undisturbed
  <1>11. CASE /\ line[2] = 0 /\ buffp <= line[1]
              /\ \E m \in k .. e - 1 :
                     Spells(line[1], k, m) /\ Spells(0, m + 1, e) /\ e - m < buffp
    <2>1. PICK m \in k .. e - 1 : Spells(line[1], k, m) /\ Spells(0, m + 1, e) /\ e - m < buffp
      BY <1>11
    <2>2. SpellsIn(buff, line[1], k, m) /\ SpellsIn(buff, 0, m + 1, e) /\ line[1] \in Slots
      BY <1>9, <2>1, SpellsInBuff DEF SpellsIn
    <2>3. e \in Int /\ m \in Int /\ k <= m /\ m + 1 <= e /\ line[1] \in Nat
      BY <1>1, <1>3, <1>5, <2>1, <2>2 DEF Slots
    <2>4. line[1] + (m - k) + 1 \in Slots
      BY <2>2 DEF SpellsIn
    <2>5. line[1] <= maxbuff - 2
      BY <1>1, <1>5, <2>3, <2>4 DEF Slots
    <2>6. ~Full
      BY <1>1, <1>11, <2>3, <2>5 DEF Full
    <2>7. Closed = buff /\ Slot = buffp
      BY <2>6 DEF Closed, Slot
    <2>8. RoomNow => Slot + 2 <= line[1]
      <3>1. ~(Ahead(j) <= Slot)
        BY <1>1, <1>3, <1>5, <1>6, <1>7, <1>8, <1>11, <2>3, <2>7 DEF At
      <3> QED BY <1>6, <2>3, <3>1
    <2> QED BY <1>3, <1>11, <2>1, <2>2, <2>5, <2>7, <2>8 DEF KeptAt, Undisturbed
  <1> QED BY <1>3, <1>10, <1>11 DEF Spread

\* ... and it is complete when the character is there.
LEMMA KeptComplete ==
    ASSUME TypeOK, NEW L \in Pointers \X Pointers, NEW k \in 1 .. pos, KeptAt(L, k), RoomNow,
           Reading, UNCHANGED file,
           \A x \in Slots : x # Slot /\ x # Slot + 1 => buff'[x] = Closed[x],
           NEW b \in Nat,
           \A p \in Slots : Slot + 2 <= p /\ p <= maxbuff - 2 => Slot < b /\ b <= p
    PROVE  Complete(L, k, b)'
  <1>1. /\ maxbuff \in Nat /\ maxbuff >= 2 /\ pos \in Nat /\ pos' = pos + 1
        /\ newlines' = newlines /\ maxbuff' = maxbuff
    BY RangeFacts DEF Reading, file
  <1>2. PICK e \in newlines : /\ e \in k .. pos /\ \A m \in k .. e - 1 : m \notin newlines
                             /\ Undisturbed(L, k, e)
    BY DEF KeptAt
  <1>3. Slot \in 0 .. maxbuff - 2 /\ (L[1] = Null \/ L[1] \in Slots)
    BY SlotFacts DEF Pointers
  <1>4. \A a, first, last : Spells(a, first, last)' <=> SpellsIn(buff', a, first, last)
    BY <1>1 DEF Spells, SpellsIn, Slots
  <1>5. e \in k .. pos' /\ e \in newlines' /\ \A m \in k .. e - 1 : m \notin newlines'
    BY <1>1, <1>2
  <1>6. CASE /\ L[2] = Null /\ SpellsIn(Closed, L[1], k, e)
             /\ \A x \in L[1] .. L[1] + (e - k) + 1 : x # Slot /\ x # Slot + 1
    <2>1. L[1] \in Slots /\ L[1] + (e - k) + 1 \in Slots
      BY <1>3, <1>6 DEF SpellsIn
    <2>2. \A x \in L[1] .. L[1] + (e - k) + 1 : buff'[x] = Closed[x]
      <3>1. \A x \in L[1] .. L[1] + (e - k) + 1 : x \in Slots
        BY <1>1, <1>2, <2>1 DEF Slots
      <3> QED BY <1>6, <3>1
    <2>3. SpellsIn(buff', L[1], k, e)
      <3>1. L[1] \in Int /\ e \in Int /\ k \in Int /\ k <= e
        BY <1>1, <1>2, <2>1 DEF Slots
      <3> QED BY <1>6, <2>2, <3>1, SpellsStay
    <2> QED BY <1>4, <1>5, <1>6, <2>3 DEF Complete, Spread
  <1>7. CASE /\ L[2] = 0 /\ L[1] <= maxbuff - 2 /\ Slot + 2 <= L[1]
             /\ \E m \in k .. e - 1 :
                    /\ SpellsIn(Closed, L[1], k, m) /\ SpellsIn(Closed, 0, m + 1, e)
                    /\ e - m < Slot
    <2>1. PICK m \in k .. e - 1 : /\ SpellsIn(Closed, L[1], k, m) /\ SpellsIn(Closed, 0, m + 1, e)
                                 /\ e - m < Slot
      BY <1>7
    <2>2. L[1] \in Slots /\ L[1] + (m - k) + 1 \in Slots
      BY <1>3, <2>1 DEF SpellsIn
    <2>3. L[1] \in Int /\ e \in Int /\ k \in Int /\ m \in Int /\ k <= m /\ m + 1 <= e
      BY <1>1, <1>2, <2>1, <2>2 DEF Slots
    <2>4. SpellsIn(buff', L[1], k, m)
      <3>1. \A x \in L[1] .. L[1] + (m - k) + 1 : x \in Slots /\ x # Slot /\ x # Slot + 1
        BY <1>1, <1>3, <1>7, <2>2, <2>3 DEF Slots
      <3>2. \A x \in L[1] .. L[1] + (m - k) + 1 : buff'[x] = Closed[x]
        BY <3>1
      <3> QED BY <2>1, <2>3, <3>2, SpellsStay
    <2>5. SpellsIn(buff', 0, m + 1, e)
      <3>1. \A x \in 0 .. 0 + (e - (m + 1)) + 1 : x \in Slots /\ x # Slot /\ x # Slot + 1
        BY <1>1, <1>3, <2>1, <2>3 DEF Slots
      <3>2. \A x \in 0 .. 0 + (e - (m + 1)) + 1 : buff'[x] = Closed[x]
        BY <3>1
      <3>3. m + 1 \in Int
        BY <2>3
      <3> QED BY <2>1, <2>3, <3>2, <3>3, SpellsStay
    <2>6. b <= L[1] /\ e - m < b
      BY <1>3, <1>7, <2>1, <2>2, <2>3
    <2> QED BY <1>4, <1>5, <1>7, <2>1, <2>4, <2>5, <2>6 DEF Complete, Spread
  <1> QED BY <1>2, <1>6, <1>7 DEF Undisturbed

LEMMA EmptyPrepared ==
    ASSUME TypeOK, Ring
    PROVE  \A i \in 0 .. Latest - Found : Turned[i] = NoLine
  <1>1. /\ nlines \in Nat \ {0} /\ nfound \in 0 .. nlines /\ Found \in 1 .. nlines
        /\ Latest = nlines - 1
    BY RangeFacts DEF Latest
  <1>2. ASSUME NEW i \in 0 .. Latest - Found PROVE Turned[i] = NoLine
    <2>1. i \in Entries /\ i < Latest /\ i # Latest
      BY <1>1 DEF Entries
    <2>2. Turned[i] = Begun[i]
      BY <2>1, PreparedType DEF Turned
    <2>3. CASE Fresh
      <3>1. Begun[i] = lines[i + 1]
        BY <2>1, <2>3 DEF Begun, Shifted
      <3>2. i + 1 \in 0 .. Latest - nfound
        BY <1>1, <2>3 DEF Found
      <3> QED BY <2>2, <3>1, <3>2 DEF Ring, Empty
    <2>4. CASE ~Fresh
      <3>1. i \in 0 .. Latest - nfound /\ Begun[i] = lines[i]
        BY <1>1, <2>4 DEF Found, Begun
      <3> QED BY <2>2, <3>1 DEF Ring, Empty
    <2> QED BY <2>3, <2>4
  <1> QED BY <1>2

\* What a character leads to is counted as Found says.
LEMMA CountedNext ==
    ASSUME TypeOK, Counted, Ring, Reading, UNCHANGED file, nfound' = Found
    PROVE  Counted'
  <1>1. Kept' = Found /\ \A j \in 1 .. Found : \E k \in Starts' : Rank(Starts', k) = j
    BY LinesShift DEF Ring
  <1> QED BY <1>1 DEF Counted, Rank

LEMMA StoreKeepsLine ==
    ASSUME TypeOK, Counted, Ring, Store
    PROVE  InALineThen'
  <1>1. /\ Reading /\ UNCHANGED file /\ RoomNow /\ pos' = pos + 1 /\ pos' \notin newlines
        /\ maxbuff' = maxbuff /\ nlines' = nlines /\ newlines' = newlines
        /\ buff' = [Closed EXCEPT ![Slot] = pos'] /\ lines' = Turned
        /\ buffp' = Slot + 1 /\ linestart' = Start /\ wrap' = Part /\ nfound' = Found
    BY DEF Store, Reading, RoomNow, file
  <1>2. /\ maxbuff \in Nat /\ maxbuff >= 2 /\ pos \in Nat /\ Found \in Nat \ {0}
        /\ Slot \in 0 .. maxbuff - 2 /\ Start \in Nat
    BY RangeFacts, SlotFacts, PreparedType DEF Slots
  <1>3. PICK k : k = FromLast(1)'
    OBVIOUS
  <1>4. PreparedLine(k) /\ k \in 1 .. pos + 1
    BY <1>1, <1>2, <1>3, PreparedLineHolds, NextFirstFacts DEF Ring
  <1>5. Closed \in [Slots -> Chars] /\ Slot \in Slots /\ Latest' = Latest
    BY <1>1, PreparedType DEF Latest
  <1>6. buff'[Slot] = pos + 1 /\ \A x \in Slots : x # Slot => buff'[x] = Closed[x]
    BY <1>1, <1>5
  <1>7. \A c \in k .. pos' : c \notin newlines'
    BY <1>1, <1>2, <1>4 DEF PreparedLine
  <1>8. CASE /\ Part = 0 /\ Turned[Latest][1] = Null
             /\ Start + (pos - k + 1) = Slot
             /\ \A c \in k .. pos : Closed[Start + c - k] = c
    <2>1. linestart' + (pos' - k + 1) = buffp'
      BY <1>1, <1>2, <1>4, <1>8
    <2>2. ASSUME NEW c \in k .. pos + 1 PROVE buff'[Start + c - k] = c
      <3>1. CASE c = pos + 1
        <4>1. Start + c - k = Slot
          BY <1>2, <1>4, <1>8, <3>1
        <4> QED BY <1>6, <3>1, <4>1
      <3>2. CASE c # pos + 1
        <4>1. c \in k .. pos
          BY <1>2, <1>4, <3>2
        <4>2. Start + c - k \in Slots /\ Start + c - k # Slot
          BY <1>2, <1>4, <1>8, <4>1 DEF Slots
        <4> QED BY <1>6, <1>8, <4>1, <4>2
      <3> QED BY <3>1, <3>2
    <2>3. InOneLap(FromLast(1))'
      BY <1>1, <1>3, <1>5, <1>8, <2>1, <2>2 DEF InOneLap
    <2> QED BY <1>1, <1>3, <1>4, <1>5, <1>7, <2>3 DEF InALineThen, PreparedLine
  <1>9. CASE /\ Part = 1 /\ Start = 0
             /\ \E m \in k .. pos :
                    /\ SpellsIn(Closed, Turned[Latest][1], k, m) /\ pos - m = Slot
                    /\ \A c \in m + 1 .. pos : Closed[c - m - 1] = c
    <2>1. PICK m \in k .. pos : /\ SpellsIn(Closed, Turned[Latest][1], k, m) /\ pos - m = Slot
                               /\ \A c \in m + 1 .. pos : Closed[c - m - 1] = c
      BY <1>9
    <2>2. PICK p : p = Turned[Latest][1]
      OBVIOUS
    <2>3. p = Target(1) /\ Ahead(1) = pos - k + 1
      BY <1>2, <1>3, <1>4, <1>9, <2>2 DEF Target, Latest, Ahead
    <2>4. p \in Slots
      <3>1. Latest \in Entries /\ Turned[Latest] \in Pointers \X Pointers
        BY RangeFacts, PreparedType DEF Latest, Entries
      <3> QED BY <2>1, <2>2, <3>1 DEF SpellsIn, Pointers
    <2>5. p >= Slot + 2
      <3>1. 1 \in 1 .. Found /\ ~(Ahead(1) <= Slot)
        BY <1>2, <1>4, <2>1, <2>3
      <3> QED BY <1>1, <2>3, <3>1, RoomFacts
    <2>6. SpellsIn(buff', p, k, m)
      <3>1. SpellsIn(Closed, p, k, m) /\ p + (m - k) + 1 \in Slots
        BY <2>1, <2>2 DEF SpellsIn
      <3>2. p \in Int /\ k \in Int /\ m \in Int /\ k <= m
        BY <1>2, <1>4, <2>1, <2>4 DEF Slots
      <3>3. \A x \in p .. p + (m - k) + 1 : x \in Slots /\ x # Slot
        BY <1>2, <2>4, <2>5, <3>1, <3>2 DEF Slots
      <3>4. \A x \in p .. p + (m - k) + 1 : buff'[x] = Closed[x]
        BY <1>6, <3>3
      <3> QED BY <3>1, <3>2, <3>4, SpellsStay
    <2>7. Spells(p, k, m)'
      BY <1>1, <2>6 DEF Spells, SpellsIn, Slots
    <2>8. pos' - m = buffp' /\ m \in k .. pos' - 1
      BY <1>1, <1>2, <1>4, <2>1
    <2>9. ASSUME NEW c \in m + 1 .. pos + 1 PROVE buff'[c - m - 1] = c
      <3>1. CASE c = pos + 1
        <4>1. c - m - 1 = Slot
          BY <1>2, <1>4, <2>1, <3>1
        <4> QED BY <1>6, <3>1, <4>1
      <3>2. CASE c # pos + 1
        <4>1. c \in m + 1 .. pos
          BY <1>2, <1>4, <2>1, <3>2
        <4>2. c - m - 1 \in Slots /\ c - m - 1 # Slot
          BY <1>2, <1>4, <2>1, <4>1 DEF Slots
        <4> QED BY <1>6, <2>1, <4>1, <4>2
      <3> QED BY <3>1, <3>2
    <2>10. buffp' < p /\ lines'[Latest'][1] = p
      BY <1>1, <1>2, <1>5, <2>2, <2>4, <2>5 DEF Slots
    <2>11. \A c \in m + 1 .. pos' : buff'[c - m - 1] = c
      BY <1>1, <2>9
    <2>12. \E n \in k .. pos' - 1 :
              /\ Spells(p, k, n)' /\ pos' - n = buffp'
              /\ \A c \in n + 1 .. pos' : buff'[c - n - 1] = c
      BY <2>7, <2>8, <2>11
    <2>13. InTwoLaps(FromLast(1))'
      BY <1>1, <1>3, <1>9, <2>10, <2>12 DEF InTwoLaps
    <2> QED BY <1>1, <1>3, <1>4, <1>5, <1>7, <2>13 DEF InALineThen, PreparedLine
  <1> QED BY <1>4, <1>8, <1>9 DEF PreparedLine

LEMMA StoreKeeps == ASSUME TypeOK, Counted, Ring, Store PROVE Counted' /\ Ring'
  <1>1. /\ Reading /\ UNCHANGED file /\ RoomNow /\ pos' = pos + 1 /\ pos' \notin newlines
        /\ maxbuff' = maxbuff /\ nlines' = nlines /\ newlines' = newlines
        /\ buff' = [Closed EXCEPT ![Slot] = pos'] /\ lines' = Turned
        /\ buffp' = Slot + 1 /\ linestart' = Start /\ wrap' = Part /\ nfound' = Found
        /\ eof' = eof
    BY DEF Store, Reading, RoomNow, file
  <1>2. /\ maxbuff \in Nat /\ maxbuff >= 2 /\ pos \in Nat /\ Found \in Nat \ {0}
        /\ Slot \in 0 .. maxbuff - 2 /\ Start \in Nat
    BY RangeFacts, SlotFacts, PreparedType DEF Slots
  <1>3. Counted'
    BY <1>1, CountedNext
  <1>4. ~Fresh'
    <2>1. FromLast(1)' \in 1 .. pos + 1 /\ PreparedLine(FromLast(1)')
      BY <1>1, <1>2, PreparedLineHolds, NextFirstFacts DEF Ring
    <2>2. Start <= Slot
      BY <1>2, <2>1 DEF PreparedLine
    <2> QED BY <1>1, <1>2, <2>2 DEF Fresh
  <1>5. BetweenLines'
    BY <1>1, <1>2, <1>4 DEF BetweenLines
  <1>6. Layout'
    <2>1. PICK skip \in {0, 1} : \A j \in 1 .. Found : At(Target(j), Ahead(j), Slot, Slot, skip)
      BY <1>1, Prepared
    <2>2. ASSUME NEW j \in 1 .. Found
          PROVE  At(Pointer(j), Behind(j), buffp, Low, skip)'
      <3>1. Pointer(j)' = Target(j)
        BY <1>1, <1>4 DEF Pointer, Target
      <3>2. Ahead(j) \in Nat /\ FromLast(j)' \in 1 .. pos + 1
        BY <1>1, Prepared, NextFirstFacts DEF Ring
      <3>3. Behind(j)' = Ahead(j) + 1 /\ Low' = Slot + 2
        BY <1>1, <1>2, <1>4, <3>2 DEF Behind, Ahead, Low
      <3>4. Ahead(j) <= Slot \/ Target(j) >= Slot + 2
        BY <1>1, RoomFacts
      <3>5. At(Target(j), Ahead(j), Slot, Slot, skip)
        BY <2>1
      <3> QED BY <1>1, <1>2, <3>1, <3>2, <3>3, <3>4, <3>5 DEF At
    <2> QED BY <1>1, <2>2 DEF Layout
  <1>7. Finished'
    <2>1. ASSUME NEW j \in 2 .. Found
          PROVE  Complete(lines[nlines - j], FromLast(j), buffp)'
      <3>1. PICK k : k = FromLast(j)'
        OBVIOUS
      <3>2. PICK L : L = Turned[nlines - j]
        OBVIOUS
      <3>3. PICK b : b = Slot + 1
        OBVIOUS
      <3>4. k \in 1 .. pos
        <4>1. j \in 1 .. Found
          BY <1>2
        <4>2. k \in 1 .. pos + 1 /\ k <= pos
          BY <1>1, <3>1, <4>1, NextFirstFacts DEF Ring
        <4> QED BY <1>2, <4>2
      <3>5. L \in Pointers \X Pointers /\ KeptAt(L, k)
        BY <1>1, <3>1, <3>2, WasComplete, KeptLine
      <3>6. \A x \in Slots : x # Slot /\ x # Slot + 1 => buff'[x] = Closed[x]
        BY <1>1, PreparedType
      <3>7. b \in Nat /\ Slot < b /\ \A p \in Slots : Slot + 2 <= p => b <= p
        BY <1>2, <3>3 DEF Slots
      <3>8. Complete(L, k, b)'
        BY <1>1, <3>4, <3>5, <3>6, <3>7, KeptComplete
      <3> QED BY <1>1, <3>1, <3>2, <3>3, <3>8
    <2>2. \A j \in 1 .. Found : j = 1 \/ j \in 2 .. Found
      BY <1>2
    <2> QED BY <1>1, <1>4, <2>1, <2>2 DEF Finished
  <1>8. Empty'
    BY <1>1, EmptyPrepared DEF Empty, Latest
  <1> QED BY <1>1, <1>3, <1>5, <1>6, <1>7, <1>8, StoreKeepsLine DEF Ring

\* The line that a newline ends.
LEMMA LineEnded ==
    ASSUME TypeOK, Counted, Ring, StoreNewline
    PROVE  Complete(lines[Latest], FromLast(1), buffp)'
  <1>0. PICK e : e = pos'
    OBVIOUS
  <1>1. /\ Reading /\ UNCHANGED file /\ RoomNow /\ pos' = pos + 1 /\ pos' \in newlines
        /\ maxbuff' = maxbuff /\ nlines' = nlines /\ newlines' = newlines
        /\ buff' = [Closed EXCEPT ![Slot] = pos', ![Slot + 1] = 0]
        /\ lines' = [Turned EXCEPT ![Latest][Part + 1] = Start]
        /\ buffp' = NextStart(Slot + 2) /\ nfound' = Found
    BY DEF StoreNewline, Reading, RoomNow, file
  <1>2. /\ maxbuff \in Nat /\ maxbuff >= 2 /\ pos \in Nat /\ Found \in Nat \ {0}
        /\ Slot \in 0 .. maxbuff - 2 /\ Start \in Slots
    BY RangeFacts, SlotFacts, PreparedType DEF Slots
  <1>3. PICK k : k = FromLast(1)'
    OBVIOUS
  <1>4. PreparedLine(k) /\ k \in 1 .. pos + 1
    BY <1>1, <1>2, <1>3, PreparedLineHolds, NextFirstFacts DEF Ring
  <1>5. /\ Closed \in [Slots -> Chars] /\ Slot \in Slots /\ Slot + 1 \in Slots /\ Latest' = Latest
        /\ Latest \in Entries /\ Turned \in [Entries -> Pointers \X Pointers]
    BY <1>1, RangeFacts, PreparedType DEF Latest, Entries
  <1>6. /\ buff'[Slot] = pos + 1 /\ buff'[Slot + 1] = 0
        /\ \A x \in Slots : x # Slot /\ x # Slot + 1 => buff'[x] = Closed[x]
    BY <1>1, <1>2, <1>5
  <1>7. /\ e = pos + 1 /\ e \in newlines' /\ e \in k .. pos' /\ e \in Int
        /\ \A m \in k .. e - 1 : m \notin newlines'
    <2>1. e - 1 = pos
      BY <1>0, <1>1, <1>2
    <2> QED BY <1>0, <1>1, <1>2, <1>4, <2>1 DEF PreparedLine
  <1>8. PICK L : L = lines'[Latest]
    OBVIOUS
  <1>9. CASE /\ Part = 0 /\ Turned[Latest][1] = Null
             /\ Start + (pos - k + 1) = Slot
             /\ \A c \in k .. pos : Closed[Start + c - k] = c
    <2>1. L[1] = Start /\ L[2] = Null
      BY <1>1, <1>4, <1>5, <1>8, <1>9 DEF PreparedLine
    <2>2. ASSUME NEW c \in k .. pos + 1 PROVE buff'[Start + c - k] = c
      <3>1. CASE c = pos + 1
        <4>1. Start + c - k = Slot
          BY <1>2, <1>4, <1>9, <3>1 DEF Slots
        <4> QED BY <1>6, <3>1, <4>1
      <3>2. CASE c # pos + 1
        <4>1. c \in k .. pos
          BY <1>2, <1>4, <3>2
        <4>2. Start + c - k \in Slots /\ Start + c - k # Slot /\ Start + c - k # Slot + 1
          BY <1>2, <1>4, <1>9, <4>1 DEF Slots
        <4> QED BY <1>6, <1>9, <4>1, <4>2
      <3> QED BY <3>1, <3>2
    <2>3. Start # Null /\ Start + (e - k) + 1 = Slot + 1
      BY <1>1, <1>2, <1>4, <1>7, <1>9 DEF Slots, Null
    <2>4. SpellsIn(buff', Start, k, e)
      BY <1>1, <1>7, <1>5, <1>6, <2>2, <2>3 DEF SpellsIn
    <2>5. Spells(L[1], k, e)'
      BY <1>1, <2>1, <2>4 DEF Spells, SpellsIn, Slots
    <2>6. Complete(L, k, buffp)'
      BY <1>7, <2>1, <2>5 DEF Complete, Spread
    <2> QED BY <1>3, <1>5, <1>8, <2>6
  <1>10. CASE /\ Part = 1 /\ Start = 0
              /\ \E m \in k .. pos :
                     /\ SpellsIn(Closed, Turned[Latest][1], k, m) /\ pos - m = Slot
                     /\ \A c \in m + 1 .. pos : Closed[c - m - 1] = c
    <2>1. PICK m \in k .. pos : /\ SpellsIn(Closed, Turned[Latest][1], k, m) /\ pos - m = Slot
                               /\ \A c \in m + 1 .. pos : Closed[c - m - 1] = c
      BY <1>10
    <2>2. PICK p : p = Turned[Latest][1]
      OBVIOUS
    <2>3. L[1] = p /\ L[2] = 0
      BY <1>1, <1>5, <1>8, <1>10, <2>2
    <2>4. p = Target(1) /\ Ahead(1) = pos - k + 1
      BY <1>2, <1>3, <1>4, <1>10, <2>2 DEF Target, Latest, Ahead
    <2>5. p \in Slots
      BY <1>5, <2>1, <2>2 DEF SpellsIn, Pointers
    <2>6. p >= Slot + 2
      <3>1. 1 \in 1 .. Found /\ ~(Ahead(1) <= Slot)
        BY <1>2, <1>4, <2>1, <2>4
      <3> QED BY <1>1, <2>4, <3>1, RoomFacts
    <2>7. SpellsIn(Closed, p, k, m) /\ p + (m - k) + 1 \in Slots
      BY <2>1, <2>2 DEF SpellsIn
    <2>8. p \in Int /\ k \in Int /\ m \in Int /\ k <= m
      BY <1>2, <1>4, <2>1, <2>5 DEF Slots
    <2>9. Spells(p, k, m)'
      <3>1. \A x \in p .. p + (m - k) + 1 : x \in Slots /\ x # Slot /\ x # Slot + 1
        BY <1>2, <2>5, <2>6, <2>7, <2>8 DEF Slots
      <3>2. \A x \in p .. p + (m - k) + 1 : buff'[x] = Closed[x]
        BY <1>6, <3>1
      <3>3. SpellsIn(buff', p, k, m)
        BY <2>7, <2>8, <3>2, SpellsStay
      <3> QED BY <1>1, <3>3 DEF Spells, SpellsIn, Slots
    <2>10. ASSUME NEW c \in m + 1 .. pos + 1 PROVE buff'[0 + c - (m + 1)] = c
      <3>1. CASE c = pos + 1
        <4>1. 0 + c - (m + 1) = Slot
          BY <1>2, <1>4, <2>1, <3>1
        <4> QED BY <1>6, <3>1, <4>1
      <3>2. CASE c # pos + 1
        <4>1. c \in m + 1 .. pos
          BY <1>2, <1>4, <2>1, <3>2
        <4>2. 0 + c - (m + 1) \in Slots /\ 0 + c - (m + 1) < Slot /\ 0 + c - (m + 1) = c - m - 1
          BY <1>2, <1>4, <2>1, <4>1 DEF Slots
        <4>3. 0 + c - (m + 1) # Slot /\ 0 + c - (m + 1) # Slot + 1
          BY <1>2, <4>2 DEF Slots
        <4> QED BY <1>6, <2>1, <4>1, <4>2, <4>3
      <3> QED BY <3>1, <3>2
    <2>11. Spells(0, m + 1, e)'
      <3>1. 0 # Null /\ 0 + (e - (m + 1)) + 1 = Slot + 1
        BY <1>1, <1>2, <1>4, <1>7, <2>1 DEF Null
      <3>2. SpellsIn(buff', 0, m + 1, e)
        BY <1>1, <1>7, <1>5, <1>6, <2>10, <3>1 DEF SpellsIn
      <3> QED BY <1>1, <3>2 DEF Spells, SpellsIn, Slots
    <2>12. p <= maxbuff - 2
      BY <1>2, <2>7, <2>8 DEF Slots
    <2>13. buffp' = Slot + 2
      BY <1>1, <1>2, <2>6, <2>12, <2>8 DEF NextStart
    <2>14. buffp' <= L[1] /\ e - m < buffp' /\ m \in k .. e - 1
      BY <1>1, <1>2, <1>4, <1>7, <2>1, <2>3, <2>6, <2>8, <2>13
    <2>15. Complete(L, k, buffp)'
      <3>1. Spells(L[1], k, m)'
        BY <2>3, <2>9
      <3> QED BY <1>7, <2>3, <2>11, <2>14, <3>1 DEF Complete, Spread
    <2> QED BY <1>3, <1>5, <1>8, <2>15
  <1> QED BY <1>4, <1>9, <1>10 DEF PreparedLine

LEMMA StoreNewlineKeeps == ASSUME TypeOK, Counted, Ring, StoreNewline PROVE Counted' /\ Ring'
  <1>1. /\ Reading /\ UNCHANGED file /\ RoomNow /\ pos' = pos + 1 /\ pos' \in newlines
        /\ maxbuff' = maxbuff /\ nlines' = nlines /\ newlines' = newlines
        /\ buff' = [Closed EXCEPT ![Slot] = pos', ![Slot + 1] = 0]
        /\ lines' = [Turned EXCEPT ![Latest][Part + 1] = Start]
        /\ buffp' = NextStart(Slot + 2) /\ linestart' = NextStart(Slot + 2) /\ wrap' = 0
        /\ nfound' = Found /\ eof' = eof
    BY DEF StoreNewline, Reading, RoomNow, file
  <1>2. /\ maxbuff \in Nat /\ maxbuff >= 2 /\ pos \in Nat /\ Found \in Nat \ {0}
        /\ Slot \in 0 .. maxbuff - 2 /\ Found <= nlines /\ nlines \in Nat
    BY RangeFacts, SlotFacts
  <1>3. Counted'
    BY <1>1, CountedNext
  <1>4. Fresh'
    BY <1>1 DEF Fresh
  <1>5. /\ Latest \in Entries /\ Turned \in [Entries -> Pointers \X Pointers]
        /\ Closed \in [Slots -> Chars] /\ Slot + 1 \in Slots /\ Part \in {0, 1}
    BY RangeFacts, PreparedType DEF Latest, Entries
  <1>6. BetweenLines'
    <2>1. buff'[Slot + 1] = 0
      BY <1>1, <1>5
    <2>2. NextStart(Slot + 2) # 0 => NextStart(Slot + 2) = Slot + 2
      BY DEF NextStart
    <2>3. NextStart(Slot + 2) < maxbuff - 1
      BY <1>2 DEF NextStart
    <2>4. buffp' # 0 => buff'[buffp' - 1] = 0
      <3>1. (Slot + 2) - 1 = Slot + 1
        BY <1>2
      <3> QED BY <1>1, <2>1, <2>2, <3>1
    <2> QED BY <1>1, <1>4, <2>3, <2>4 DEF BetweenLines
  <1>7. Layout'
    <2>1. PICK skip \in {0, 1} : \A j \in 1 .. Found : At(Target(j), Ahead(j), Slot, Slot, skip)
      BY <1>1, Prepared
    <2>2. ASSUME NEW j \in 1 .. Found
          PROVE  /\ Pointer(j)' = Target(j) /\ Behind(j)' = Ahead(j) + 2 /\ Low' = buffp'
                 /\ Ahead(j) \in Nat
      <3>1. nlines - j \in Entries /\ (nlines - j = Latest <=> j = 1)
        BY <1>2 DEF Entries, Latest
      <3>2. Pointer(j)' = lines'[nlines - j][1]
        BY <1>1, <1>4 DEF Pointer
      <3>3. Pointer(j)' = Target(j)
        <4>1. CASE j # 1
          BY <1>1, <1>5, <3>1, <3>2, <4>1 DEF Target
        <4>2. CASE j = 1 /\ Part = 0
          BY <1>1, <1>5, <3>1, <3>2, <4>2 DEF Target
        <4>3. CASE j = 1 /\ Part = 1
          BY <1>1, <1>5, <3>1, <3>2, <4>3 DEF Target
        <4> QED BY <1>5, <4>1, <4>2, <4>3
      <3>4. Ahead(j) \in Nat /\ FromLast(j)' \in 1 .. pos + 1
        BY <1>1, Prepared, NextFirstFacts DEF Ring
      <3>5. Behind(j)' = Ahead(j) + 2
        BY <1>1, <1>2, <1>4, <3>4 DEF Behind, Ahead
      <3>6. Low' = buffp'
        BY <1>4 DEF Low
      <3> QED BY <3>3, <3>4, <3>5, <3>6
    <2>3. ASSUME NEW j \in 1 .. Found PROVE Ahead(j) <= Slot \/ Target(j) >= Slot + 2
      BY <1>1, RoomFacts
    <2>4. CASE Slot + 2 < maxbuff - 1
      <3>1. buffp' = Slot + 2
        BY <1>1, <1>2, <2>4 DEF NextStart
      <3>2. ASSUME NEW j \in 1 .. Found
            PROVE  At(Pointer(j), Behind(j), buffp, Low, skip)'
        <4>1. At(Target(j), Ahead(j), Slot, Slot, skip)
          BY <2>1
        <4> QED BY <1>1, <1>2, <2>2, <2>3, <3>1, <4>1 DEF At
      <3> QED BY <1>1, <3>2 DEF Layout
    <2>5. CASE Slot + 2 >= maxbuff - 1
      <3>1. buffp' = 0
        BY <1>1, <1>2, <2>5 DEF NextStart
      <3>2. PICK early \in {0, 1} : early = maxbuff - (Slot + 2)
        BY <1>2, <2>5
      <3>3. ASSUME NEW j \in 1 .. Found
            PROVE  At(Pointer(j), Behind(j), buffp, Low, early)'
        <4>1. At(Target(j), Ahead(j), Slot, Slot, skip)
          BY <2>1
        <4>2. Target(j) = Slot - Ahead(j) /\ Ahead(j) <= Slot
          BY <1>2, <2>2, <2>3, <2>5, <4>1 DEF At
        <4> QED BY <1>1, <1>2, <2>2, <3>1, <3>2, <4>2 DEF At
      <3> QED BY <1>1, <3>3 DEF Layout
    <2> QED BY <1>2, <2>4, <2>5
  <1>8. Finished'
    <2>1. ASSUME NEW j \in 2 .. Found
          PROVE  Complete(lines[nlines - j], FromLast(j), buffp)'
      <3>1. PICK k : k = FromLast(j)'
        OBVIOUS
      <3>2. PICK L : L = Turned[nlines - j]
        OBVIOUS
      <3>3. PICK b : b = NextStart(Slot + 2)
        OBVIOUS
      <3>4. k \in 1 .. pos
        <4>1. j \in 1 .. Found
          BY <1>2
        <4>2. k \in 1 .. pos + 1 /\ k <= pos
          BY <1>1, <3>1, <4>1, NextFirstFacts DEF Ring
        <4> QED BY <1>2, <4>2
      <3>5. L \in Pointers \X Pointers /\ KeptAt(L, k)
        BY <1>1, <3>1, <3>2, WasComplete, KeptLine
      <3>6. \A x \in Slots : x # Slot /\ x # Slot + 1 => buff'[x] = Closed[x]
        BY <1>1, PreparedType
      <3>7. b \in Nat /\ \A p \in Slots : Slot + 2 <= p /\ p <= maxbuff - 2 => Slot < b /\ b <= p
        BY <1>2, <3>3 DEF Slots, NextStart
      <3>8. Complete(L, k, b)'
        BY <1>1, <3>4, <3>5, <3>6, <3>7, KeptComplete
      <3>9. lines'[nlines - j] = L
        <4>1. nlines - j # Latest
          BY <1>1, WasComplete
        <4> QED BY <1>1, <1>5, <3>2, <4>1, WasComplete
      <3> QED BY <1>1, <3>1, <3>3, <3>8, <3>9
    <2>2. Complete(lines[nlines - 1], FromLast(1), buffp)'
      <3>1. nlines' - 1 = Latest'
        BY DEF Latest
      <3> QED BY <3>1, LineEnded
    <2>3. \A j \in 1 .. Found : j = 1 \/ j \in 2 .. Found
      BY <1>2
    <2> QED BY <1>1, <2>1, <2>2, <2>3 DEF Finished
  <1>9. Empty'
    <2>1. \A i \in 0 .. Latest - Found : i \in Entries /\ i # Latest
      BY <1>2 DEF Entries, Latest
    <2>2. \A i \in 0 .. Latest - Found : lines'[i] = Turned[i]
      BY <1>1, <1>5, <2>1
    <2>3. Latest' = Latest
      BY <1>1 DEF Latest
    <2> QED BY <1>1, <2>2, <2>3, EmptyPrepared DEF Empty
  <1>10. InALineThen'
    BY <1>4 DEF InALineThen
  <1> QED BY <1>1, <1>3, <1>6, <1>7, <1>8, <1>9, <1>10 DEF Ring

-----------------------------------------------------------------------------
(* What is in the buffer when the loop is left.                            *)

LEMMA EndIsUnique ==
    ASSUME NEW S, NEW p \in Nat, NEW k \in Nat, NEW e \in k .. p,
           e = p \/ e \in S, \A m \in k .. e - 1 : m \notin S
    PROVE  e = CHOOSE x \in k .. p : (x = p \/ x \in S) /\ \A m \in k .. x - 1 : m \notin S
  <1> DEFINE P(x) == x \in k .. p /\ (x = p \/ x \in S) /\ \A m \in k .. x - 1 : m \notin S
  <1>1. P(e) OBVIOUS
  <1>2. ASSUME NEW x, P(x) PROVE x = e
    <2>1. x \in Int /\ e \in Int /\ x <= p /\ e <= p
      BY <1>2
    <2>2. ~(x < e)
      <3>1. SUFFICES ASSUME x < e PROVE FALSE
        OBVIOUS
      <3>2. x \in k .. e - 1
        BY <1>2, <3>1
      <3>3. x \notin S /\ x # p
        BY <2>1, <3>1, <3>2
      <3> QED BY <1>2, <3>3
    <2>3. ~(e < x)
      <3>1. SUFFICES ASSUME e < x PROVE FALSE
        OBVIOUS
      <3>2. e \in k .. x - 1
        BY <1>2, <3>1
      <3>3. e \notin S /\ e # p
        BY <1>2, <2>1, <3>1, <3>2
      <3> QED BY <3>3
    <2> QED BY <2>1, <2>2, <2>3
  <1>3. e = CHOOSE x : P(x)
    BY <1>1, <1>2
  <1> QED BY <1>3

LEMMA LineEndIs ==
    ASSUME pos \in Nat, NEW k \in Nat, NEW e \in k .. pos,
           e = pos \/ e \in newlines, \A m \in k .. e - 1 : m \notin newlines
    PROVE  LineEnd(k) = e
  BY EndIsUnique DEF LineEnd

LEMMA CompleteHolds ==
    ASSUME TypeOK, NEW L, NEW k \in Nat, NEW b, Complete(L, k, b)
    PROVE  Holds(L, k, LineEnd(k))
  <1>1. PICK e \in newlines : /\ e \in k .. pos /\ \A m \in k .. e - 1 : m \notin newlines
                             /\ Spread(L, k, e, b)
    BY DEF Complete
  <1>2. pos \in Nat
    BY DEF TypeOK
  <1>3. LineEnd(k) = e
    BY <1>1, <1>2, LineEndIs
  <1>4. Holds(L, k, e)
    <2>1. 0 # Null
      BY DEF Null
    <2> QED BY <1>1, <2>1 DEF Spread, Holds
  <1> QED BY <1>3, <1>4

LEMMA HoldsWhileReading ==
    ASSUME TypeOK, Counted, Ring, pc = "reading"
    PROVE  HoldsLastLines
  <1>1. Kept = nfound /\ nfound \in Nat
    BY RangeFacts DEF Counted
  <1>2. ASSUME NEW j \in 1 .. nfound
        PROVE  (j = 1 /\ InALine) \/ Holds(lines[nlines - j], FromLast(j), LineEnd(FromLast(j)))
    <2>1. CASE j = 1 /\ ~Fresh
      BY <2>1 DEF Ring, BetweenLines, InALine
    <2>2. CASE Complete(lines[nlines - j], FromLast(j), buffp)
      <3>1. FromLast(j) \in Nat
        BY FirstFacts
      <3> QED BY <2>2, <3>1, CompleteHolds
    <2> QED BY <2>1, <2>2 DEF Ring, Finished
  <1> QED BY <1>1, <1>2 DEF HoldsLastLines, Ring, Empty

LEMMA GiveUpEnds ==
    ASSUME TypeOK, Counted, Ring, GiveUp
    PROVE  Counted' /\ HoldsLastLines' /\ GivesUpOnlyIfFull'
  <1>1. /\ Reading /\ UNCHANGED file /\ ~RoomNow /\ pos' = pos + 1
        /\ maxbuff' = maxbuff /\ nlines' = nlines /\ newlines' = newlines
        /\ buff' = Closed /\ lines' = Turned /\ nfound' = Found
        /\ pc' = "read" /\ ~eof'
    BY DEF GiveUp, Reading, RoomNow, file, Ring
  <1>2. /\ maxbuff \in Nat /\ maxbuff >= 2 /\ pos \in Nat /\ Found \in Nat \ {0}
    BY RangeFacts
  <1>3. Counted' /\ Kept' = Found
    BY <1>1, CountedNext, LinesShift DEF Ring
  <1>4. HoldsLastLines'
    <2>1. InALine'
      BY <1>1 DEF InALine, GaveUp
    <2>2. ASSUME NEW j \in 2 .. Found
          PROVE  Holds(lines[nlines - j], FromLast(j), LineEnd(FromLast(j)))'
      <3>1. PICK k : k = FromLast(j)'
        OBVIOUS
      <3>2. PICK L : L = Turned[nlines - j]
        OBVIOUS
      <3>3. PICK e \in newlines : /\ e \in k .. pos /\ \A m \in k .. e - 1 : m \notin newlines
                                 /\ Undisturbed(L, k, e)
        BY <1>1, <3>1, <3>2, KeptLine DEF KeptAt
      <3>4. k \in Nat
        <4>1. j \in 1 .. Found
          BY <1>2
        <4> QED BY <1>1, <3>1, <4>1, NextFirstFacts DEF Ring
      <3>5. LineEnd(k)' = e
        <4>1. e \in k .. pos' /\ pos' \in Nat
          BY <1>1, <1>2, <3>3, <3>4
        <4> QED BY <1>1, <3>3, <3>4, <4>1, EndIsUnique DEF LineEnd
      <3>6. \A a, first, last : Spells(a, first, last)' <=> SpellsIn(Closed, a, first, last)
        BY <1>1 DEF Spells, SpellsIn, Slots
      <3>7. Holds(L, k, e)'
        <4>1. 0 # Null
          BY DEF Null
        <4>2. CASE L[2] = Null /\ SpellsIn(Closed, L[1], k, e)
          BY <3>6, <4>2 DEF Holds
        <4>3. CASE /\ L[2] = 0
                   /\ \E m \in k .. e - 1 :
                         SpellsIn(Closed, L[1], k, m) /\ SpellsIn(Closed, 0, m + 1, e)
          <5>1. PICK m \in k .. e - 1 :
                       SpellsIn(Closed, L[1], k, m) /\ SpellsIn(Closed, 0, m + 1, e)
            BY <4>3
          <5>2. Spells(L[1], k, m)' /\ Spells(L[2], m + 1, e)'
            BY <3>6, <4>3, <5>1
          <5> QED BY <4>1, <4>3, <5>1, <5>2 DEF Holds
        <4> QED BY <3>3, <4>2, <4>3 DEF Undisturbed
      <3> QED BY <1>1, <3>1, <3>2, <3>5, <3>7
    <2>3. \A j \in 1 .. Found : j = 1 \/ j \in 2 .. Found
      BY <1>2
    <2>4. \A i \in 0 .. Latest' - Found : lines'[i] = NoLine
      BY <1>1, EmptyPrepared DEF Latest
    <2> QED BY <1>1, <1>3, <2>1, <2>2, <2>3, <2>4 DEF HoldsLastLines
  <1>5. GivesUpOnlyIfFull'
    <2>1. PICK n \in 1 .. Found : n = Found /\ Ahead(n) >= maxbuff - 2
      BY <1>1, RoomFacts
    <2>2. FromLast(n)' \in 1 .. pos + 1
      BY <1>1, NextFirstFacts DEF Ring
    <2>3. Needed' = ((pos + 1) - FromLast(n)' + 1) + n
      <3>1. Kept' = n
        BY <1>3, <2>1
      <3>2. Needed' = (pos' - Nth(Starts', Kept') + 1) + Kept'
        BY DEF Needed, FromLast, Nth, Rank
      <3>3. FromLast(n)' = Nth(Starts', n)
        BY DEF FromLast, Nth, Rank
      <3>4. pos' = pos + 1
        BY <1>1
      <3> QED BY <3>1, <3>2, <3>3, <3>4
    <2>4. Needed' = Ahead(n) + 2
      BY <1>2, <2>2, <2>3 DEF Ahead
    <2> QED BY <1>1, <1>2, <2>1, <2>2, <2>4 DEF GivesUpOnlyIfFull, Ahead
  <1> QED BY <1>3, <1>4, <1>5

\* Complete lines are behind buffp, or at least two slots before it.
LEMMA BehindBuffp ==
    ASSUME TypeOK, Counted, Ring, ~Fresh, NEW j \in 2 .. nfound
    PROVE  LET line == lines[nlines - j] IN
           \E e \in newlines :
              /\ e \in FromLast(j) .. pos /\ \A m \in FromLast(j) .. e - 1 : m \notin newlines
              /\ \/ /\ line[2] = Null /\ SpellsIn(buff, line[1], FromLast(j), e)
                    /\ line[1] + (e - FromLast(j)) + 1 < buffp \/ buffp < line[1]
                 \/ /\ line[2] = 0 /\ buffp < line[1]
                    /\ \E m \in FromLast(j) .. e - 1 :
                           /\ SpellsIn(buff, line[1], FromLast(j), m)
                           /\ SpellsIn(buff, 0, m + 1, e) /\ e - m < buffp
  <1> DEFINE line == lines[nlines - j]
             k == FromLast(j)
  <1>1. /\ maxbuff \in Nat /\ maxbuff >= 2 /\ pos \in Nat /\ nfound \in Nat
        /\ buffp \in 0 .. maxbuff - 1 /\ nlines \in Nat /\ nfound <= nlines
    BY RangeFacts
  <1>2. j \in 1 .. nfound /\ j # 1
    BY <1>1
  <1>3. line \in Pointers \X Pointers
    <2>1. nlines - j \in Entries
      BY <1>1, <1>2 DEF Entries
    <2> QED BY <2>1 DEF TypeOK
  <1>4. PICK e \in newlines : /\ e \in k .. pos /\ \A m \in k .. e - 1 : m \notin newlines
                             /\ Spread(line, k, e, buffp)
    BY <1>2 DEF Ring, Finished, Complete
  <1>5. k \in 1 .. pos
    BY <1>2, FirstFacts
  <1>6. PICK skip \in {0, 1} : At(line[1], pos - k + j, buffp, buffp + 1, skip)
    <2>1. PICK skip \in {0, 1} : At(Pointer(j), Behind(j), buffp, Low, skip)
      BY <1>2 DEF Ring, Layout
    <2>2. Pointer(j) = line[1] /\ Low = buffp + 1 /\ Behind(j) = pos - k + j
      BY <1>1, <1>2, <1>5 DEF Pointer, Low, Behind
    <2> QED BY <2>1, <2>2
  <1>7. line[1] = Null \/ line[1] \in Slots
    BY <1>3 DEF Pointers
  <1> HIDE DEF line, k
  <1>8. CASE line[2] = Null /\ Spells(line[1], k, e)
    <2>1. SpellsIn(buff, line[1], k, e)
      BY <1>8, SpellsInBuff
    <2>2. line[1] + (e - k) + 1 < buffp \/ buffp < line[1]
      BY <1>1, <1>2, <1>4, <1>5, <1>6, <1>7, <2>1 DEF At, SpellsIn, Slots, Null
    <2> QED BY <1>4, <1>8, <2>1, <2>2 DEF line, k
  <1>9. CASE /\ line[2] = 0 /\ buffp <= line[1]
             /\ \E m \in k .. e - 1 :
                    Spells(line[1], k, m) /\ Spells(0, m + 1, e) /\ e - m < buffp
    <2>1. PICK m \in k .. e - 1 : /\ SpellsIn(buff, line[1], k, m) /\ SpellsIn(buff, 0, m + 1, e)
                                 /\ e - m < buffp
      BY <1>9, SpellsInBuff
    <2>2. buffp < line[1]
      BY <1>1, <1>2, <1>4, <1>5, <1>6, <1>7, <1>9 DEF At, Slots, Null
    <2> QED BY <1>4, <1>9, <2>1, <2>2 DEF line, k
  <1> QED BY <1>4, <1>8, <1>9 DEF Spread

LEMMA SameLines ==
    ASSUME pos' = pos, newlines' = newlines, nlines' = nlines
    PROVE  /\ Starts' = Starts /\ Kept' = Kept
           /\ \A j : FromLast(j)' = FromLast(j)
           /\ \A k : LineEnd(k)' = LineEnd(k)
  <1>1. Starts' = Starts
    BY DEF Starts
  <1>2. Kept' = Kept
    BY <1>1 DEF Kept
  <1>3. \A j : FromLast(j)' = FromLast(j)
    BY <1>1 DEF FromLast
  <1>4. \A k : LineEnd(k)' = LineEnd(k)
    BY DEF LineEnd
  <1> QED BY <1>1, <1>2, <1>3, <1>4

\* The line in progress, once the '\0' is behind it.
LEMMA LastLineHolds ==
    ASSUME TypeOK, Counted, Ring, ~Fresh, NEW Y, NEW L, NEW k, k = FromLast(1),
           \A x \in Slots : x # buffp => Y[x] = buff[x], Y[buffp] = 0,
           L = [lines[Latest] EXCEPT ![wrap + 1] = linestart]
    PROVE  \/ L[2] = Null /\ SpellsIn(Y, L[1], k, pos)
           \/ /\ L[2] = 0
              /\ \E m \in k .. pos - 1 : SpellsIn(Y, L[1], k, m) /\ SpellsIn(Y, 0, m + 1, pos)
  <1>1. /\ maxbuff \in Nat /\ maxbuff >= 2 /\ pos \in Nat /\ nfound \in Nat /\ nfound >= 1
        /\ buffp \in Slots /\ linestart \in Slots
    BY RangeFacts DEF TypeOK
  <1>2. k \in 1 .. pos
    BY <1>1, FirstFacts
  <1>3. /\ Latest \in Entries /\ lines[Latest] \in Pointers \X Pointers
        /\ lines[Latest][2] = Null /\ (InOneLap(k) \/ InTwoLaps(k))
    BY RangeFacts DEF Latest, Entries, TypeOK, Ring, InALineThen
  <1>4. CASE InOneLap(k)
    <2>1. L[1] = linestart /\ L[2] = Null
      BY <1>3, <1>4 DEF InOneLap
    <2>2. linestart + (pos - k) + 1 = buffp
      BY <1>1, <1>2, <1>4 DEF InOneLap, Slots
    <2>3. ASSUME NEW c \in k .. pos PROVE Y[linestart + c - k] = c
      <3>1. linestart + c - k \in Slots /\ linestart + c - k # buffp
        BY <1>1, <1>2, <2>2 DEF Slots
      <3> QED BY <1>4, <3>1 DEF InOneLap
    <2>4. linestart # Null
      BY <1>1 DEF Slots, Null
    <2> QED BY <1>1, <2>1, <2>2, <2>3, <2>4 DEF SpellsIn
  <1>5. CASE InTwoLaps(k)
    <2>1. PICK m \in k .. pos - 1 :
                 /\ SpellsIn(buff, lines[Latest][1], k, m) /\ pos - m = buffp
                 /\ \A c \in m + 1 .. pos : buff[c - m - 1] = c
      BY <1>5, SpellsInBuff DEF InTwoLaps
    <2>2. PICK p : p = lines[Latest][1]
      OBVIOUS
    <2>3. L[1] = p /\ L[2] = 0 /\ buffp < p
      BY <1>3, <1>5, <2>2 DEF InTwoLaps
    <2>4. p \in Slots /\ p + (m - k) + 1 \in Slots /\ SpellsIn(buff, p, k, m)
      BY <1>3, <2>1, <2>2 DEF SpellsIn, Pointers
    <2>5. p \in Int /\ k \in Int /\ m \in Int /\ k <= m
      BY <1>1, <1>2, <2>1, <2>4 DEF Slots
    <2>6. SpellsIn(Y, p, k, m)
      <3>1. \A x \in p .. p + (m - k) + 1 : x \in Slots /\ x # buffp
        BY <1>1, <2>3, <2>4, <2>5 DEF Slots
      <3>2. \A x \in p .. p + (m - k) + 1 : Y[x] = buff[x]
        BY <3>1
      <3> QED BY <2>4, <2>5, <3>2, SpellsStay
    <2>7. ASSUME NEW c \in m + 1 .. pos PROVE Y[0 + c - (m + 1)] = c
      <3>1. /\ 0 + c - (m + 1) \in Slots /\ 0 + c - (m + 1) # buffp
            /\ 0 + c - (m + 1) = c - m - 1
        BY <1>1, <1>2, <2>1 DEF Slots
      <3> QED BY <2>1, <3>1
    <2>8. SpellsIn(Y, 0, m + 1, pos)
      <3>1. 0 # Null /\ 0 + (pos - (m + 1)) + 1 = buffp
        BY <1>1, <1>2, <2>1 DEF Null, Slots
      <3> QED BY <1>1, <2>7, <3>1 DEF SpellsIn
    <2> QED BY <2>1, <2>3, <2>6, <2>8
  <1> QED BY <1>3, <1>4, <1>5

LEMMA EndOfFileEnds ==
    ASSUME TypeOK, Counted, Ring, EndOfFile
    PROVE  Counted' /\ HoldsLastLines' /\ GivesUpOnlyIfFull'
  <1>1. /\ maxbuff' = maxbuff /\ nlines' = nlines /\ newlines' = newlines /\ pos' = pos
        /\ nfound' = nfound /\ eof' = TRUE /\ pc = "reading" /\ pc' = "read"
    BY DEF EndOfFile, file
  <1>2. /\ maxbuff \in Nat /\ maxbuff >= 2 /\ pos \in Nat /\ nfound \in Nat
        /\ buffp \in Slots /\ nlines \in Nat \ {0} /\ nfound <= nlines
    BY RangeFacts DEF TypeOK
  <1>3. /\ Starts' = Starts /\ Kept' = Kept /\ Kept = nfound
        /\ \A j : FromLast(j)' = FromLast(j)
        /\ \A k : LineEnd(k)' = LineEnd(k)
    BY <1>1, SameLines DEF Counted
  <1>4. Counted'
    BY <1>1, <1>3 DEF Counted, Rank
  <1>5. ~GaveUp' /\ GivesUpOnlyIfFull'
    BY <1>1 DEF GaveUp, GivesUpOnlyIfFull
  <1>6. ~InALine'
    BY <1>1, <1>5 DEF InALine
  <1>7. Latest' = Latest
    BY <1>1 DEF Latest
  <1>8. CASE Fresh
    <2>1. UNCHANGED <<buff, lines>>
      BY <1>8 DEF EndOfFile, Ring, BetweenLines
    <2>2. ASSUME NEW j \in 1 .. nfound
          PROVE  Holds(lines[nlines - j], FromLast(j), LineEnd(FromLast(j)))'
      <3>1. FromLast(j) \in Nat /\ Complete(lines[nlines - j], FromLast(j), buffp)
        BY <1>8, FirstFacts DEF Ring, Finished
      <3>2. Holds(lines[nlines - j], FromLast(j), LineEnd(FromLast(j)))
        BY <3>1, CompleteHolds
      <3>3. PICK k : k = FromLast(j)
        OBVIOUS
      <3>4. Holds(lines[nlines - j], k, LineEnd(k))'
        BY <1>1, <1>3, <2>1, <3>2, <3>3 DEF Holds, Spells, Slots
      <3> QED BY <1>3, <3>3, <3>4
    <2>3. \A i \in 0 .. Latest' - Kept' : lines'[i] = NoLine
      BY <1>3, <1>7, <2>1 DEF Ring, Empty
    <2> QED BY <1>3, <1>4, <1>5, <2>2, <2>3 DEF HoldsLastLines
  <1>9. CASE ~Fresh
    <2>1. nfound >= 1 /\ Latest \in Entries
      BY <1>2, <1>9 DEF TypeOK, Latest, Entries
    <2>2. buffp # 0 /\ buff[buffp - 1] # 0
      <3>1. FromLast(1) \in 1 .. pos
        BY <1>2, <2>1, FirstFacts
      <3>2. CASE InOneLap(FromLast(1))
        <4>0. linestart \in Nat /\ buffp \in Nat
          BY RangeFacts
        <4>1. linestart + pos - FromLast(1) = buffp - 1 /\ buffp # 0
          BY <1>2, <3>1, <3>2, <4>0 DEF InOneLap
        <4>2. pos \in FromLast(1) .. pos /\ pos # 0
          BY <1>2, <3>1
        <4> QED BY <3>2, <4>1, <4>2 DEF InOneLap
      <3>3. CASE InTwoLaps(FromLast(1))
        <4>1. PICK m \in FromLast(1) .. pos - 1 :
                     /\ pos - m = buffp
                     /\ \A c \in m + 1 .. pos : buff[c - m - 1] = c
          BY <3>3 DEF InTwoLaps
        <4>2. pos \in m + 1 .. pos /\ pos # 0 /\ pos - m - 1 = buffp - 1 /\ buffp # 0
          BY <1>2, <3>1, <4>1
        <4> QED BY <4>1, <4>2
      <3> QED BY <1>9, <3>2, <3>3 DEF Ring, InALineThen
    <2>3. /\ buff' = [buff EXCEPT ![buffp] = 0]
          /\ lines' = [lines EXCEPT ![Latest] = [lines[Latest] EXCEPT ![wrap + 1] = linestart]]
      BY <2>2 DEF EndOfFile
    <2>4. buff'[buffp] = 0 /\ \A x \in Slots : x # buffp => buff'[x] = buff[x]
      BY <1>2, <2>3 DEF TypeOK
    <2>5. \A a, first, last : Spells(a, first, last)' <=> SpellsIn(buff', a, first, last)
      BY <1>1 DEF Spells, SpellsIn, Slots
    <2>6. ASSUME NEW j \in 1 .. nfound, j = 1
          PROVE  Holds(lines[nlines - j], FromLast(j), LineEnd(FromLast(j)))'
      <3>1. PICK k : k = FromLast(j)
        OBVIOUS
      <3>2. PICK L : L = [lines[Latest] EXCEPT ![wrap + 1] = linestart]
        OBVIOUS
      <3>3. \/ L[2] = Null /\ SpellsIn(buff', L[1], k, pos)
            \/ /\ L[2] = 0
               /\ \E m \in k .. pos - 1 :
                     SpellsIn(buff', L[1], k, m) /\ SpellsIn(buff', 0, m + 1, pos)
        <4>1. k = FromLast(1)
          BY <2>6, <3>1
        <4> QED BY <1>9, <2>4, <3>2, <4>1, LastLineHolds
      <3>4. k \in 1 .. pos
        BY <1>2, <3>1, FirstFacts
      <3>5. LineEnd(k) = pos
        <4>1. \A m \in k .. pos - 1 : m \notin newlines
          BY <1>2, <1>9, <2>6, <3>1, <3>4 DEF Ring, InALineThen
        <4>2. k \in Nat /\ pos \in k .. pos
          BY <1>2, <3>4
        <4> QED BY <1>2, <4>1, <4>2, LineEndIs
      <3>6. PICK e : e = pos
        OBVIOUS
      <3>7. Holds(L, k, e)'
        <4>1. CASE L[2] = Null /\ SpellsIn(buff', L[1], k, pos)
          BY <2>5, <3>6, <4>1 DEF Holds
        <4>2. CASE /\ L[2] = 0
                   /\ \E m \in k .. pos - 1 :
                         SpellsIn(buff', L[1], k, m) /\ SpellsIn(buff', 0, m + 1, pos)
          <5>1. PICK m \in k .. e - 1 :
                       SpellsIn(buff', L[1], k, m) /\ SpellsIn(buff', 0, m + 1, e)
            BY <3>6, <4>2
          <5>2. Spells(L[1], k, m)' /\ Spells(L[2], m + 1, e)'
            BY <2>5, <4>2, <5>1
          <5>3. 0 # Null
            BY DEF Null
          <5> QED BY <4>2, <5>1, <5>2, <5>3 DEF Holds
        <4> QED BY <3>3, <4>1, <4>2
      <3>8. LineEnd(k)' = e
        BY <1>3, <3>5, <3>6
      <3>9. lines'[nlines' - j] = L
        BY <1>1, <2>1, <2>3, <2>6, <3>2 DEF Latest, TypeOK
      <3> QED BY <1>3, <3>1, <3>7, <3>8, <3>9
    <2>7. ASSUME NEW j \in 2 .. nfound
          PROVE  Holds(lines[nlines - j], FromLast(j), LineEnd(FromLast(j)))'
      <3>1. PICK k : k = FromLast(j)
        OBVIOUS
      <3>2. PICK L : L = lines[nlines - j]
        OBVIOUS
      <3>3. PICK e \in newlines :
              /\ e \in k .. pos /\ \A m \in k .. e - 1 : m \notin newlines
              /\ \/ /\ L[2] = Null /\ SpellsIn(buff, L[1], k, e)
                    /\ L[1] + (e - k) + 1 < buffp \/ buffp < L[1]
                 \/ /\ L[2] = 0 /\ buffp < L[1]
                    /\ \E m \in k .. e - 1 :
                           /\ SpellsIn(buff, L[1], k, m)
                           /\ SpellsIn(buff, 0, m + 1, e) /\ e - m < buffp
        BY <1>9, <3>1, <3>2, BehindBuffp
      <3>4. k \in 1 .. pos /\ j \in 1 .. nfound
        BY <1>2, <3>1, FirstFacts
      <3>5. LineEnd(k)' = e
        BY <1>2, <1>3, <3>3, <3>4, LineEndIs
      <3>6. nlines - j \in Entries /\ nlines - j # Latest /\ L \in Pointers \X Pointers
        <4>1. nlines - j \in Entries /\ nlines - j # Latest
          BY <1>2 DEF Entries, Latest
        <4> QED BY <3>2, <4>1 DEF TypeOK
      <3>7. lines'[nlines' - j] = L
        BY <1>1, <2>3, <3>2, <3>6 DEF TypeOK
      <3>8. L[1] = Null \/ L[1] \in Slots
        BY <3>6 DEF Pointers
      <3>9. CASE /\ L[2] = Null /\ SpellsIn(buff, L[1], k, e)
                 /\ L[1] + (e - k) + 1 < buffp \/ buffp < L[1]
        <4>1. L[1] \in Slots /\ L[1] + (e - k) + 1 \in Slots
          BY <3>8, <3>9 DEF SpellsIn
        <4>2. L[1] \in Int /\ k \in Int /\ e \in Int /\ k <= e
          BY <1>2, <3>3, <3>4, <4>1 DEF Slots
        <4>3. \A x \in L[1] .. L[1] + (e - k) + 1 : x \in Slots /\ x # buffp
          BY <1>2, <3>9, <4>1, <4>2 DEF Slots
        <4>4. \A x \in L[1] .. L[1] + (e - k) + 1 : buff'[x] = buff[x]
          BY <2>4, <4>3
        <4>5. SpellsIn(buff', L[1], k, e)
          BY <3>9, <4>2, <4>4, SpellsStay
        <4>6. Holds(L, k, e)'
          BY <2>5, <3>9, <4>5 DEF Holds
        <4> QED BY <1>3, <3>1, <3>5, <3>7, <4>6
      <3>10. CASE /\ L[2] = 0 /\ buffp < L[1]
                  /\ \E m \in k .. e - 1 :
                         /\ SpellsIn(buff, L[1], k, m)
                         /\ SpellsIn(buff, 0, m + 1, e) /\ e - m < buffp
        <4>1. PICK m \in k .. e - 1 : /\ SpellsIn(buff, L[1], k, m)
                                     /\ SpellsIn(buff, 0, m + 1, e) /\ e - m < buffp
          BY <3>10
        <4>2. L[1] \in Slots /\ L[1] + (m - k) + 1 \in Slots
          BY <3>8, <4>1 DEF SpellsIn
        <4>3. /\ L[1] \in Int /\ k \in Int /\ e \in Int /\ m \in Int /\ m + 1 \in Int
              /\ k <= m /\ m + 1 <= e
          BY <1>2, <3>3, <3>4, <4>1, <4>2 DEF Slots
        <4>4. SpellsIn(buff', L[1], k, m)
          <5>1. \A x \in L[1] .. L[1] + (m - k) + 1 : x \in Slots /\ x # buffp
            BY <1>2, <3>10, <4>2, <4>3 DEF Slots
          <5>2. \A x \in L[1] .. L[1] + (m - k) + 1 : buff'[x] = buff[x]
            BY <2>4, <5>1
          <5> QED BY <4>1, <4>3, <5>2, SpellsStay
        <4>5. SpellsIn(buff', 0, m + 1, e)
          <5>1. \A x \in 0 .. 0 + (e - (m + 1)) + 1 : x \in Slots /\ x # buffp
            BY <1>2, <4>1, <4>3 DEF Slots
          <5>2. \A x \in 0 .. 0 + (e - (m + 1)) + 1 : buff'[x] = buff[x]
            BY <2>4, <5>1
          <5> QED BY <4>1, <4>3, <5>2, SpellsStay
        <4>6. Spells(L[1], k, m)' /\ Spells(L[2], m + 1, e)'
          BY <2>5, <3>10, <4>4, <4>5
        <4>7. 0 # Null
          BY DEF Null
        <4>8. Holds(L, k, e)'
          BY <3>10, <4>1, <4>6, <4>7 DEF Holds
        <4> QED BY <1>3, <3>1, <3>5, <3>7, <4>8
      <3> QED BY <3>3, <3>9, <3>10
    <2>8. \A j \in 1 .. nfound : j = 1 \/ j \in 2 .. nfound
      BY <1>2
    <2>9. \A i \in 0 .. Latest' - Kept' : lines'[i] = NoLine
      <3>1. \A i \in 0 .. Latest - nfound : i \in Entries /\ i # Latest
        BY <1>2, <2>1 DEF Entries, Latest
      <3>2. \A i \in 0 .. Latest - nfound : lines'[i] = lines[i]
        BY <2>1, <2>3, <3>1 DEF TypeOK
      <3>3. \A i \in 0 .. Latest - nfound : lines'[i] = NoLine
        BY <3>2 DEF Ring, Empty
      <3> QED BY <1>3, <1>7, <3>3
    <2>10. ASSUME NEW j \in 1 .. nfound
           PROVE  Holds(lines[nlines - j], FromLast(j), LineEnd(FromLast(j)))'
      BY <2>6, <2>7, <2>8
    <2> QED BY <1>3, <1>4, <1>5, <2>9, <2>10 DEF HoldsLastLines
  <1> QED BY <1>4, <1>5, <1>8, <1>9

-----------------------------------------------------------------------------

\* While fileTail reads, and after.
IInv ==
    /\ TypeOK /\ Counted
    /\ pc = "reading" => Ring
    /\ pc # "reading" => HoldsLastLines /\ GivesUpOnlyIfFull

LEMMA InitHolds == ASSUME Init PROVE IInv
  <1>1. TypeOK /\ pc = "reading"
    BY InitType DEF Init
  <1>2. /\ nlines \in Nat \ {0} /\ maxbuff \in Nat /\ maxbuff >= 2
        /\ pos = 0 /\ buffp = 0 /\ linestart = 0 /\ wrap = 0 /\ nfound = 0 /\ ~eof
        /\ lines = [i \in Entries |-> NoLine]
    BY <1>1, RangeFacts DEF Init
  <1>3. Starts = {}
    BY <1>2 DEF Starts
  <1>4. Counted
    <2>1. Kept = 0
      BY <1>2, <1>3, FS_EmptySet DEF Kept
    <2> QED BY <1>2, <2>1 DEF Counted
  <1>5. Fresh
    BY <1>2 DEF Fresh
  <1>6. Layout
    <2>1. 0 \in {0, 1} /\ 1 .. nfound = {}
      BY <1>2
    <2> QED BY <2>1 DEF Layout
  <1>7. Finished
    BY <1>2 DEF Finished
  <1>8. Empty
    BY <1>2 DEF Empty, Entries, Latest
  <1>9. BetweenLines /\ InALineThen
    BY <1>2, <1>5 DEF BetweenLines, InALineThen
  <1> QED BY <1>1, <1>2, <1>4, <1>6, <1>7, <1>8, <1>9 DEF IInv, Ring

\* What is kept is no longer touched.
LEMMA LeftAlone ==
    ASSUME HoldsLastLines, GivesUpOnlyIfFull, Counted, UNCHANGED <<file, eof, cursor>>,
           pc # "reading", pc' # "reading"
    PROVE  HoldsLastLines' /\ GivesUpOnlyIfFull' /\ Counted'
  <1>1. /\ pos' = pos /\ newlines' = newlines /\ nlines' = nlines /\ maxbuff' = maxbuff
        /\ buff' = buff /\ lines' = lines /\ nfound' = nfound /\ eof' = eof
    BY DEF file, cursor
  <1>2. /\ Starts' = Starts /\ Kept' = Kept
        /\ \A j : FromLast(j)' = FromLast(j)
        /\ \A k : LineEnd(k)' = LineEnd(k)
    BY <1>1, SameLines
  <1>3. GaveUp' = GaveUp /\ InALine' = InALine
    BY <1>1 DEF GaveUp, InALine
  <1>4. Latest' = Latest
    BY <1>1 DEF Latest
  <1>5. Counted'
    BY <1>1, <1>2 DEF Counted, Rank
  <1>6. Needed' = Needed
    BY <1>1, <1>2 DEF Needed, FromLast
  <1>7. GivesUpOnlyIfFull'
    BY <1>1, <1>3, <1>6 DEF GivesUpOnlyIfFull
  <1>8. ASSUME NEW j \in 1 .. Kept
        PROVE  \/ j = 1 /\ InALine'
               \/ Holds(lines[nlines - j], FromLast(j), LineEnd(FromLast(j)))'
    <2>1. CASE j = 1 /\ InALine
      BY <1>3, <2>1
    <2>2. CASE Holds(lines[nlines - j], FromLast(j), LineEnd(FromLast(j)))
      <3>1. PICK k : k = FromLast(j)
        OBVIOUS
      <3>2. Holds(lines[nlines - j], k, LineEnd(k))'
        BY <1>1, <1>2, <2>2, <3>1 DEF Holds, Spells, Slots
      <3> QED BY <1>2, <3>1, <3>2
    <2> QED BY <2>1, <2>2 DEF HoldsLastLines
  <1>9. \A i \in 0 .. Latest' - Kept' : lines'[i] = NoLine
    BY <1>1, <1>2, <1>4 DEF HoldsLastLines
  <1> QED BY <1>2, <1>5, <1>7, <1>8, <1>9 DEF HoldsLastLines

LEMMA RingStays == ASSUME IInv, UNCHANGED vars PROVE IInv'
  <1>1. TypeOK'
    BY NextType DEF IInv
  <1>2. CASE pc # "reading"
    BY <1>1, <1>2, LeftAlone DEF IInv, vars
  <1>3. CASE pc = "reading"
    <2>1. /\ pos' = pos /\ newlines' = newlines /\ nlines' = nlines /\ maxbuff' = maxbuff
          /\ buff' = buff /\ buffp' = buffp /\ linestart' = linestart /\ wrap' = wrap
          /\ nfound' = nfound /\ lines' = lines /\ eof' = eof /\ pc' = pc
      BY DEF vars, file, cursor
    <2>2. /\ Starts' = Starts /\ Kept' = Kept /\ \A j : FromLast(j)' = FromLast(j)
      BY <2>1, SameLines
    <2>3. Fresh' = Fresh /\ Latest' = Latest /\ Low' = Low /\ Slots' = Slots
      BY <2>1 DEF Fresh, Latest, Low, Slots
    <2>4. \A a, first, last : Spells(a, first, last)' <=> Spells(a, first, last)
      BY <2>1, <2>3 DEF Spells
    <2>5. Counted'
      BY <1>3, <2>1, <2>2 DEF IInv, Counted, Rank
    <2>6. Layout'
      BY <1>3, <2>1, <2>2, <2>3 DEF IInv, Ring, Layout, At, Pointer, Behind
    <2>7. Finished'
      <3>1. \A L, k, b : Complete(L, k, b)' <=> Complete(L, k, b)
        BY <2>1, <2>4 DEF Complete, Spread
      <3>2. ASSUME NEW j \in 1 .. nfound, ~(j = 1 /\ ~Fresh)
            PROVE  Complete(lines[nlines - j], FromLast(j), buffp)'
        <4>1. Complete(lines[nlines - j], FromLast(j), buffp)
          BY <1>3, <3>2 DEF IInv, Ring, Finished
        <4>2. PICK L, k, b : L = lines[nlines - j] /\ k = FromLast(j) /\ b = buffp
          OBVIOUS
        <4>3. Complete(L, k, b)'
          BY <3>1, <4>1, <4>2
        <4> QED BY <2>1, <2>2, <4>2, <4>3
      <3> QED BY <2>1, <2>3, <3>2 DEF Finished
    <2>8. Empty' /\ BetweenLines'
      BY <1>3, <2>1, <2>3 DEF IInv, Ring, Empty, BetweenLines
    <2>9. InALineThen'
      BY <1>3, <2>1, <2>2, <2>3, <2>4 DEF IInv, Ring, InALineThen, InOneLap, InTwoLaps
    <2> QED BY <1>1, <1>3, <2>1, <2>5, <2>6, <2>7, <2>8, <2>9 DEF IInv, Ring
  <1> QED BY <1>2, <1>3

LEMMA NextHolds == ASSUME IInv, [Next]_vars PROVE IInv'
  <1>1. TypeOK /\ Counted /\ TypeOK'
    BY NextType DEF IInv
  <1>2. CASE GiveUp
    BY <1>1, <1>2, GiveUpEnds DEF IInv, GiveUp, Reading
  <1>3. CASE Store
    BY <1>1, <1>3, StoreKeeps DEF IInv, Store, Reading
  <1>4. CASE StoreNewline
    BY <1>1, <1>4, StoreNewlineKeeps DEF IInv, StoreNewline, Reading
  <1>5. CASE EndOfFile
    BY <1>1, <1>5, EndOfFileEnds DEF IInv, EndOfFile
  <1>6. CASE CopyLine
    BY <1>1, <1>6, LeftAlone DEF IInv, CopyLine
  <1>7. CASE UNCHANGED vars
    BY <1>7, RingStays
  <1> QED BY <1>2, <1>3, <1>4, <1>5, <1>6, <1>7 DEF Next

LEMMA Inductive == Spec => []IInv
  BY InitHolds, NextHolds, PTL DEF Spec

\* At any moment the entries of lines are the last lines of what was read of the
\* file, each intact in the buffer, whatever the file, the number of lines and
\* the size of the buffer (fileTailer.cxx:25-60, 119-141).
THEOREM HoldsLastLinesAlways == Spec => []HoldsLastLines
  <1>1. IInv => HoldsLastLines
    BY HoldsWhileReading DEF IInv
  <1> QED BY <1>1, Inductive, PTL

\* fileTail is left before the end of the file only if the lines asked for do not
\* fit into the buffer but for one character of it (fileTailer.cxx:40, 134-141).
THEOREM GivesUpOnlyIfFullAlways == Spec => []GivesUpOnlyIfFull
  <1>1. IInv => GivesUpOnlyIfFull
    BY DEF IInv, GivesUpOnlyIfFull, GaveUp
  <1> QED BY <1>1, Inductive, PTL

-----------------------------------------------------------------------------
(* What is printed.                                                        *)

\* The characters from a on, up to b.
Lines(a, b) == [i \in 1 .. b - a |-> a + i - 1]

\* Where the first j lines, counted from the last, begin: the end of the file for
\* none.
Upto(j) == IF j = 0 THEN pos + 1 ELSE FromLast(j)

\* What was kept was in the buffer, all of it at once, so that buf, which is as
\* large, is not full before the last line.
Fits == pos = length /\ \A j \in 1 .. Kept : pos - FromLast(j) + 1 <= maxbuff

\* The lines gone through are printed, one after the other.
Printing ==
    (\A i \in Entries : lines[i][2] = Null) =>
        IF copied <= nlines - Kept THEN out = Unset
        ELSE out = Lines(FromLast(Kept), Upto(nlines - copied))

PrintInv ==
    /\ IInv
    /\ pc = "reading" => out = Unset
    /\ pc # "reading" /\ eof => Fits /\ Printing
    /\ pc = "printed" => copied = nlines

LEMMA LinesJoin ==
    ASSUME NEW a \in Nat, NEW b \in Nat, NEW c \in Nat, a <= b, b <= c
    PROVE  /\ Lines(a, b) \in Seq(Nat) /\ Len(Lines(a, b)) = b - a
           /\ Lines(a, b) \o Lines(b, c) = Lines(a, c)
           /\ Lines(a, b) # Unset
  <1>1. ASSUME NEW x \in Nat, NEW y \in Nat, x <= y
        PROVE  /\ Lines(x, y) \in Seq(Nat) /\ Len(Lines(x, y)) = y - x
               /\ \A i \in 1 .. y - x : Lines(x, y)[i] = x + i - 1
    <2>1. y - x \in Nat /\ \A i \in 1 .. y - x : x + i - 1 \in Nat
      BY <1>1
    <2> QED BY <2>1 DEF Lines
  <1>2. Lines(a, b) \o Lines(b, c) = Lines(a, c)
    <2>1. PICK p, q : p = Lines(a, b) /\ q = Lines(b, c)
      OBVIOUS
    <2>2. /\ p \in Seq(Nat) /\ Len(p) = b - a /\ \A i \in 1 .. b - a : p[i] = a + i - 1
          /\ q \in Seq(Nat) /\ Len(q) = c - b /\ \A i \in 1 .. c - b : q[i] = b + i - 1
      BY <1>1, <2>1
    <2>3. /\ p \o q \in Seq(Nat) /\ Len(p \o q) = Len(p) + Len(q)
          /\ \A i \in 1 .. Len(p) + Len(q) :
                 (p \o q)[i] = IF i <= Len(p) THEN p[i] ELSE q[i - Len(p)]
      BY <2>2, ConcatProperties
    <2>4. Len(p) + Len(q) = c - a
      BY <2>2
    <2>5. \A i \in 1 .. c - a : (p \o q)[i] = a + i - 1
      BY <2>2, <2>3, <2>4
    <2>6. PICK r : r = Lines(a, c)
      OBVIOUS
    <2>7. r \in Seq(Nat) /\ Len(r) = c - a /\ \A i \in 1 .. c - a : r[i] = a + i - 1
      <3>1. a <= c
        OBVIOUS
      <3> QED BY <1>1, <2>6, <3>1
    <2>8. p \o q = r
      <3>1. PICK t : t = p \o q
        OBVIOUS
      <3>2. t \in Seq(Nat) /\ Len(t) = Len(r) /\ \A i \in 1 .. Len(t) : t[i] = r[i]
        BY <2>3, <2>4, <2>5, <2>7, <3>1
      <3>3. t = r
        BY <2>7, <3>2, SeqEqual
      <3> QED BY <3>1, <3>3
    <2> QED BY <2>1, <2>6, <2>8
  <1>3. Lines(a, b) # Unset
    <2> SUFFICES ASSUME Lines(a, b) = << -1 >> PROVE FALSE
      BY DEF Unset
    <2>1. Len(Lines(a, b)) = 1 /\ Lines(a, b)[1] = -1
      OBVIOUS
    <2>2. Len(Lines(a, b)) = b - a /\ \A i \in 1 .. b - a : Lines(a, b)[i] = a + i - 1
      BY <1>1
    <2>3. Lines(a, b)[1] = a
      BY <2>1, <2>2
    <2> QED BY <2>1, <2>3
  <1> QED BY <1>1, <1>2, <1>3

\* The string at a is what it spells.
LEMMA TextIs ==
    ASSUME TypeOK, NEW a \in Slots, NEW k \in Nat \ {0}, NEW e \in Nat, k <= e, Spells(a, k, e)
    PROVE  Text(a) = Lines(k, e + 1)
  <1>1. PICK n : n = a + (e - k) + 1
    OBVIOUS
  <1>2. /\ maxbuff \in Nat /\ a \in Nat /\ n \in Nat /\ n \in a .. maxbuff - 1 /\ buff[n] = 0
        /\ n - a = e + 1 - k
    <2>1. maxbuff \in Nat
      BY RangeFacts
    <2> QED BY <1>1, <2>1 DEF Spells, Slots
  <1>3. ASSUME NEW j \in a .. n - 1 PROVE buff[j] = k + (j - a) /\ buff[j] # 0
    <2>1. k + (j - a) \in k .. e /\ a + (k + (j - a)) - k = j
      BY <1>1, <1>2
    <2>2. buff[a + (k + (j - a)) - k] = k + (j - a)
      BY <2>1 DEF Spells
    <2> QED BY <2>1, <2>2
  <1> DEFINE P(x) == x \in a .. maxbuff - 1 /\ buff[x] = 0 /\ \A j \in a .. x - 1 : buff[j] # 0
  <1>4. P(n)
    BY <1>2, <1>3
  <1>5. ASSUME NEW x, P(x) PROVE x = n
    <2>1. x \in Int /\ a <= x
      BY <1>2, <1>5
    <2>2. ~(x < n)
      <3>1. SUFFICES ASSUME x < n PROVE FALSE
        OBVIOUS
      <3>2. x \in a .. n - 1
        BY <1>2, <2>1, <3>1
      <3> QED BY <1>3, <1>5, <3>2
    <2>3. ~(n < x)
      <3>1. SUFFICES ASSUME n < x PROVE FALSE
        OBVIOUS
      <3>2. n \in a .. x - 1
        BY <1>2, <2>1, <3>1
      <3> QED BY <1>2, <1>5, <3>2
    <2> QED BY <1>2, <2>1, <2>2, <2>3
  <1>6. (CHOOSE x : P(x)) = n
    BY <1>4, <1>5
  <1>7. Text(a) = [i \in 1 .. n - a |-> buff[a + i - 1]]
    <2>1. (CHOOSE x \in a .. maxbuff - 1 : buff[x] = 0 /\ \A j \in a .. x - 1 : buff[j] # 0) = n
      BY <1>6
    <2> QED BY <2>1 DEF Text
  <1>8. \A i \in 1 .. n - a : buff[a + i - 1] = k + i - 1
    <2> SUFFICES ASSUME NEW i \in 1 .. n - a PROVE buff[a + i - 1] = k + i - 1
      OBVIOUS
    <2>1. a + i - 1 \in a .. n - 1 /\ k + ((a + i - 1) - a) = k + i - 1
      BY <1>2
    <2> QED BY <1>3, <2>1
  <1>9. [i \in 1 .. n - a |-> buff[a + i - 1]] = [i \in 1 .. n - a |-> k + i - 1]
    BY <1>8
  <1>10. n - a = (e + 1) - k
    BY <1>2
  <1> QED BY <1>7, <1>9, <1>10 DEF Lines

LEMMA RankStrict ==
    ASSUME NEW S \in SUBSET Nat, IsFiniteSet(S), NEW k \in S, NEW l \in S, k < l
    PROVE  Rank(S, l) < Rank(S, k) /\ Rank(S, l) \in Nat \ {0} /\ Rank(S, k) \in Nat
  <1> DEFINE A == {s \in S : s >= k}
             B == {s \in S : s >= l}
  <1>1. k \in Nat /\ l \in Nat /\ \A s \in S : s \in Nat
    OBVIOUS
  <1>2. A \in SUBSET S /\ B \in SUBSET A /\ k \in A /\ k \notin B /\ l \in B
    <2>1. \A s \in S : s >= l => s >= k
      BY <1>1
    <2>2. k >= k /\ ~(k >= l) /\ l >= l
      BY <1>1
    <2> QED BY <2>1, <2>2
  <1>3. IsFiniteSet(A) /\ IsFiniteSet(B)
    BY <1>2, FS_Subset
  <1>4. Cardinality(A) \in Nat /\ Cardinality(B) \in Nat
    BY <1>3, FS_CardinalityType
  <1>5. Cardinality(B) <= Cardinality(A) /\ (Cardinality(B) = Cardinality(A) => B = A)
    BY <1>2, <1>3, FS_Subset
  <1>6. Cardinality(B) # Cardinality(A)
    BY <1>2, <1>5
  <1>7. Cardinality(B) # 0
    BY <1>2, <1>3, FS_EmptySet
  <1> QED BY <1>4, <1>5, <1>6, <1>7 DEF Rank

\* A line ends where the next one begins, or at the end of what was read.
LEMMA LineEndsAt ==
    ASSUME TypeOK, Counted, NEW j \in 1 .. nfound
    PROVE  /\ LineEnd(FromLast(j)) + 1 = Upto(j - 1)
           /\ FromLast(j) \in 1 .. pos /\ LineEnd(FromLast(j)) \in FromLast(j) .. pos
  <1>1. /\ nfound \in Nat /\ pos \in Nat /\ Starts \in SUBSET Nat /\ IsFiniteSet(Starts)
    BY RangeFacts, StartsFinite
  <1>2. PICK k : k = FromLast(j)
    OBVIOUS
  <1>3. /\ \A i \in 1 .. nfound : FromLast(i) \in Starts /\ Rank(Starts, FromLast(i)) = i
        /\ \A i, l \in 1 .. nfound : i < l => FromLast(l) < FromLast(i)
    BY <1>1, NthFacts, FromLastIsNth DEF Counted
  <1>4. k \in Starts /\ Rank(Starts, k) = j /\ k \in 1 .. pos
    BY <1>2, <1>3, FirstFacts
  <1>5. ASSUME NEW m \in newlines, m \in k .. pos - 1
        PROVE  m + 1 \in Starts /\ k < m + 1 /\ Rank(Starts, m + 1) < j
                 /\ Rank(Starts, m + 1) \in Nat \ {0}
    <2>1. m + 1 \in 1 .. pos /\ m + 1 - 1 = m /\ k < m + 1
      BY <1>1, <1>4, <1>5
    <2>2. m + 1 \in Starts
      BY <1>5, <2>1 DEF Starts
    <2> QED BY <1>1, <1>4, <2>1, <2>2, RankStrict
  <1>6. CASE j = 1
    <2>1. \A m \in k .. pos - 1 : m \notin newlines
      BY <1>5, <1>6
    <2>2. pos \in k .. pos /\ k \in Nat
      BY <1>1, <1>4
    <2>3. LineEnd(k) = pos
      BY <1>1, <2>1, <2>2, LineEndIs
    <2> QED BY <1>2, <1>4, <1>6, <2>2, <2>3 DEF Upto
  <1>7. CASE j # 1
    <2>1. j - 1 \in 1 .. nfound /\ j - 1 < j /\ j - 1 # 0
      BY <1>1, <1>7
    <2>2. PICK l : l = FromLast(j - 1)
      OBVIOUS
    <2>3. l \in Starts /\ Rank(Starts, l) = j - 1 /\ k < l /\ l \in 1 .. pos
      BY <1>2, <1>3, <2>1, <2>2, FirstFacts
    <2>4. l - 1 \in k .. pos /\ l - 1 \in newlines /\ k \in Nat
      BY <1>1, <1>4, <2>3 DEF Starts
    <2>5. ASSUME NEW m \in k .. l - 1 - 1 PROVE m \notin newlines
      <3> SUFFICES ASSUME m \in newlines PROVE FALSE
        OBVIOUS
      <3>1. m \in k .. pos - 1 /\ m + 1 < l
        BY <1>1, <1>4, <2>3
      <3>2. m + 1 \in Starts /\ Rank(Starts, m + 1) < j /\ Rank(Starts, m + 1) \in Nat
        BY <1>5, <3>1
      <3>3. Rank(Starts, l) < Rank(Starts, m + 1)
        BY <1>1, <2>3, <3>1, <3>2, RankStrict
      <3> QED BY <1>1, <2>3, <3>2, <3>3
    <2>6. LineEnd(k) = l - 1
      BY <1>1, <2>4, <2>5, LineEndIs
    <2> QED BY <1>1, <1>2, <1>4, <2>1, <2>2, <2>3, <2>4, <2>6 DEF Upto
  <1> QED BY <1>6, <1>7

LEMMA NoneIsEmpty == ASSUME NEW a \in Nat PROVE Lines(a, a) = << >>
  <1>1. 1 .. a - a = {}
    OBVIOUS
  <1> QED BY <1>1 DEF Lines

\* A line that is in one string is appended to those printed before.
LEMMA LineCopied ==
    ASSUME TypeOK, Counted, HoldsLastLines, Fits, pc = "read", eof,
           NEW j \in 1 .. nfound, NEW i \in Entries, i = nlines - j, lines[i][2] = Null
    PROVE  /\ lines[i] # NoLine
           /\ Copied(Lines(FromLast(nfound), FromLast(j)), lines[i])
                = Lines(FromLast(nfound), Upto(j - 1))
           /\ Lines(FromLast(nfound), FromLast(j)) # Unset
           /\ Lines(FromLast(nfound), Upto(j - 1)) # Unset
  <1>1. /\ nlines \in Nat \ {0} /\ maxbuff \in Nat /\ maxbuff >= 2 /\ pos \in Nat
        /\ nfound \in Nat /\ nfound <= nlines /\ Kept = nfound
    BY RangeFacts DEF Counted
  <1>2. PICK L, k, f, e, u : /\ L = lines[i] /\ k = FromLast(j) /\ f = FromLast(nfound)
                            /\ e = LineEnd(FromLast(j)) /\ u = Upto(j - 1)
    OBVIOUS
  <1>3. e + 1 = u /\ k \in 1 .. pos /\ e \in k .. pos
    BY <1>2, LineEndsAt
  <1>4. f \in 1 .. pos /\ f <= k /\ pos - f + 1 <= maxbuff
    <2>1. nfound \in 1 .. nfound
      BY <1>1
    <2>2. f \in 1 .. pos /\ (j < nfound => f < k)
      BY <1>2, <2>1, FirstFacts
    <2>3. j = nfound => f = k
      BY <1>2
    <2>4. pos - f + 1 <= maxbuff
      BY <1>1, <1>2, <2>1 DEF Fits
    <2> QED BY <1>1, <1>3, <2>2, <2>3, <2>4
  <1>5. L[1] \in Slots /\ L[2] = Null /\ Spells(L[1], k, e)
    <2>1. ~(j = 1 /\ InALine)
      BY DEF InALine, GaveUp
    <2>2. Holds(L, k, e)
      BY <1>1, <1>2, <2>1 DEF HoldsLastLines
    <2>3. Spells(L[1], k, e) /\ L[1] # Null
      BY <1>2, <2>2 DEF Holds, Spells
    <2>4. L \in Pointers \X Pointers
      BY <1>2 DEF TypeOK
    <2> QED BY <1>2, <2>3, <2>4 DEF Pointers
  <1>6. L[1] # Null /\ L # NoLine
    <2>1. L[1] # Null
      BY <1>5 DEF Spells
    <2> QED BY <2>1 DEF NoLine
  <1>7. Text(L[1]) = Lines(k, u)
    <2>1. k \in Nat \ {0} /\ e \in Nat /\ k <= e
      BY <1>1, <1>3
    <2> QED BY <1>3, <1>5, <2>1, TextIs
  <1>8. f \in Nat /\ k \in Nat /\ u \in Nat /\ f <= k /\ k <= u /\ f <= u
    BY <1>1, <1>3, <1>4
  <1>9. /\ Lines(f, k) # Unset /\ Len(Lines(f, k)) = k - f
        /\ Lines(f, k) \o Lines(k, u) = Lines(f, u)
    BY <1>8, LinesJoin
  <1>10. Lines(f, u) # Unset
    <2>1. u <= u
      BY <1>8
    <2>2. Lines(f, u) \o Lines(u, u) = Lines(f, u) /\ Lines(f, u) # Unset
      BY <1>8, <2>1, LinesJoin
    <2> QED BY <2>2
  <1>11. Len(Lines(f, k)) < maxbuff
    BY <1>1, <1>3, <1>4, <1>9
  <1>12. Copied(Lines(f, k), L) = Lines(f, u)
    BY <1>5, <1>6, <1>7, <1>9, <1>11 DEF Copied
  <1> QED BY <1>2, <1>6, <1>9, <1>10, <1>12

LEMMA CopyLinePrints ==
    ASSUME TypeOK, Counted, HoldsLastLines, Fits, Printing, eof, CopyLine
    PROVE  Fits' /\ Printing' /\ (pc' = "printed" => copied' = nlines')
  <1>1. /\ pos' = pos /\ newlines' = newlines /\ nlines' = nlines /\ maxbuff' = maxbuff
        /\ length' = length /\ lines' = lines /\ copied' = copied + 1 /\ pc = "read"
    BY DEF CopyLine, file, cursor
  <1>2. Starts' = Starts /\ Kept' = Kept /\ \A j : FromLast(j)' = FromLast(j)
    BY <1>1, SameLines
  <1>3. Fits'
    BY <1>1, <1>2 DEF Fits
  <1>4. /\ nlines \in Nat \ {0} /\ nfound \in Nat /\ nfound <= nlines /\ Kept = nfound
        /\ copied \in Nat /\ copied < nlines /\ copied \in Entries
    BY <1>1, RangeFacts DEF Counted, TypeOK, Entries
  <1>5. pc' = "printed" => copied' = nlines'
    BY <1>1, <1>4 DEF CopyLine, Latest
  <1>6. ASSUME \A i \in Entries : lines[i][2] = Null
        PROVE  IF copied + 1 <= nlines - nfound THEN out' = Unset
               ELSE out' = Lines(FromLast(nfound), Upto(nlines - (copied + 1)))
    <2>1. /\ copied <= nlines - nfound => out = Unset
          /\ copied > nlines - nfound => out = Lines(FromLast(nfound), Upto(nlines - copied))
      BY <1>4, <1>6 DEF Printing
    <2>2. CASE copied < nlines - nfound
      <3>1. copied \in 0 .. Latest - Kept
        BY <1>4, <2>2 DEF Latest
      <3>2. lines[copied] = NoLine
        BY <3>1 DEF HoldsLastLines
      <3>3. out' = Unset
        BY <1>4, <2>1, <2>2, <3>2 DEF CopyLine
      <3> QED BY <1>4, <2>2, <3>3
    <2>3. CASE copied >= nlines - nfound
      <3>1. PICK j : j = nlines - copied
        OBVIOUS
      <3>2. j \in 1 .. nfound /\ copied = nlines - j /\ nlines - (copied + 1) = j - 1
        BY <1>4, <2>3, <3>1
      <3>3. /\ lines[copied] # NoLine
            /\ Copied(Lines(FromLast(nfound), FromLast(j)), lines[copied])
                 = Lines(FromLast(nfound), Upto(j - 1))
            /\ Lines(FromLast(nfound), FromLast(j)) # Unset
        BY <1>1, <1>4, <1>6, <3>2, LineCopied
      <3>4. (IF out = Unset THEN << >> ELSE out) = Lines(FromLast(nfound), FromLast(j))
        <4>1. CASE copied = nlines - nfound
          <5>1. j = nfound /\ out = Unset
            BY <1>4, <2>1, <3>1, <4>1
          <5>2. FromLast(nfound) \in Nat
            BY <1>4, <3>2, <5>1, FirstFacts
          <5> QED BY <5>1, <5>2, NoneIsEmpty
        <4>2. CASE copied > nlines - nfound
          <5>1. Upto(j) = FromLast(j)
            BY <3>2 DEF Upto
          <5> QED BY <2>1, <3>1, <3>3, <4>2, <5>1
        <4> QED BY <1>4, <2>3, <4>1, <4>2
      <3>5. out' = Lines(FromLast(nfound), Upto(j - 1))
        BY <3>3, <3>4 DEF CopyLine
      <3> QED BY <1>4, <2>3, <3>2, <3>5
    <2> QED BY <1>4, <2>2, <2>3
  <1>7. Printing'
    <2> SUFFICES ASSUME \A i \in Entries' : lines'[i][2] = Null
                 PROVE  IF copied' <= nlines' - Kept' THEN out' = Unset
                        ELSE out' = Lines(FromLast(Kept)', Upto(nlines - copied)')
      BY DEF Printing
    <2>1. \A i \in Entries : lines[i][2] = Null
      BY <1>1 DEF Entries
    <2>2. FromLast(Kept)' = FromLast(nfound)
      BY <1>2, <1>4
    <2>3. Upto(nlines - copied)' = Upto(nlines - (copied + 1))
      BY <1>1, <1>2 DEF Upto
    <2> QED BY <1>1, <1>2, <1>4, <1>6, <2>1, <2>2, <2>3
  <1> QED BY <1>3, <1>5, <1>7

\* What was kept was all in the buffer when the end was reached.
LEMMA EndOfFileFits ==
    ASSUME TypeOK, Counted, Ring, EndOfFile, out = Unset
    PROVE  Fits' /\ Printing'
  <1>1. /\ maxbuff' = maxbuff /\ nlines' = nlines /\ newlines' = newlines /\ pos' = pos
        /\ length' = length /\ pos = length /\ copied' = copied /\ out' = out
        /\ pc = "reading"
    BY DEF EndOfFile, file, output
  <1>2. /\ maxbuff \in Nat /\ maxbuff >= 2 /\ pos \in Nat /\ nfound \in Nat
        /\ buffp \in 0 .. maxbuff - 1 /\ nlines \in Nat \ {0} /\ nfound <= nlines
    BY RangeFacts
  <1>3. Kept' = Kept /\ Kept = nfound /\ \A j : FromLast(j)' = FromLast(j)
    BY <1>1, SameLines DEF Counted
  <1>4. ASSUME NEW j \in 1 .. nfound PROVE pos - FromLast(j) + 1 <= maxbuff
    <2>1. PICK d : d = Behind(j)
      OBVIOUS
    <2>2. PICK skip \in {0, 1} : At(Pointer(j), d, buffp, Low, skip)
      BY <2>1 DEF Ring, Layout
    <2>3. FromLast(j) \in 1 .. pos
      BY FirstFacts
    <2>4. d \in Nat /\ pos - FromLast(j) + 1 <= d
      BY <1>2, <2>1, <2>3 DEF Behind
    <2>5. Low \in Nat /\ Low >= buffp
      BY <1>2 DEF Low
    <2>6. d <= maxbuff
      BY <1>2, <2>2, <2>4, <2>5 DEF At
    <2> QED BY <1>2, <2>3, <2>4, <2>6
  <1>5. Fits'
    BY <1>1, <1>3, <1>4 DEF Fits
  <1>6. copied = 0
    BY <1>1 DEF TypeOK
  <1>7. Printing'
    BY <1>1, <1>2, <1>3, <1>6 DEF Printing
  <1> QED BY <1>5, <1>7

LEMMA PrintingKept ==
    ASSUME PrintInv, UNCHANGED vars
    PROVE  /\ pc' = "reading" => out' = Unset
           /\ pc' # "reading" /\ eof' => Fits' /\ Printing'
           /\ pc' = "printed" => copied' = nlines'
  <1>1. /\ pos' = pos /\ newlines' = newlines /\ nlines' = nlines /\ maxbuff' = maxbuff
        /\ length' = length /\ lines' = lines /\ copied' = copied /\ out' = out
        /\ pc' = pc /\ eof' = eof
    BY DEF vars, file, cursor, output
  <1>2. Kept' = Kept /\ \A j : FromLast(j)' = FromLast(j)
    BY <1>1, SameLines
  <1>3. Fits' <=> Fits
    BY <1>1, <1>2 DEF Fits
  <1>4. FromLast(Kept)' = FromLast(Kept) /\ Upto(nlines - copied)' = Upto(nlines - copied)
    BY <1>1, <1>2 DEF Upto
  <1>5. Printing' <=> Printing
    BY <1>1, <1>2, <1>4 DEF Printing, Entries
  <1> QED BY <1>1, <1>3, <1>5 DEF PrintInv

LEMMA PrintNext == ASSUME PrintInv, [Next]_vars PROVE PrintInv'
  <1>1. IInv /\ IInv' /\ TypeOK /\ Counted
    BY NextHolds DEF PrintInv, IInv
  <1>2. CASE GiveUp
    <2>1. pc = "reading" /\ out' = out /\ pc' = "read" /\ eof' = eof
      BY <1>2 DEF GiveUp, Reading, output
    <2>2. ~eof
      BY <1>1, <2>1 DEF IInv, Ring
    <2> QED BY <1>1, <2>1, <2>2 DEF PrintInv
  <1>3. CASE Store \/ StoreNewline
    <2>1. pc = "reading" /\ out' = out /\ pc' = pc
      BY <1>3 DEF Store, StoreNewline, Reading, output
    <2> QED BY <1>1, <2>1 DEF PrintInv
  <1>4. CASE EndOfFile
    <2>1. pc = "reading" /\ pc' = "read"
      BY <1>4 DEF EndOfFile
    <2>2. Ring /\ out = Unset
      BY <1>1, <2>1 DEF IInv, PrintInv
    <2> QED BY <1>1, <1>4, <2>1, <2>2, EndOfFileFits DEF PrintInv
  <1>5. CASE CopyLine
    <2>1. pc = "read" /\ pc' # "reading" /\ eof' = eof
      BY <1>5 DEF CopyLine
    <2>2. HoldsLastLines
      BY <1>1, <2>1 DEF IInv
    <2>3. pc' = "printed" => copied' = nlines'
      <3>1. nlines \in Nat
        BY <1>1, RangeFacts
      <3> QED BY <1>5, <3>1 DEF CopyLine, Latest, file
    <2>4. eof => Fits' /\ Printing'
      BY <1>1, <1>5, <2>1, <2>2, CopyLinePrints DEF PrintInv
    <2> QED BY <1>1, <2>1, <2>3, <2>4 DEF PrintInv
  <1>6. CASE UNCHANGED vars
    BY <1>1, <1>6, PrintingKept DEF PrintInv
  <1> QED BY <1>2, <1>3, <1>4, <1>5, <1>6 DEF Next

\* What tail returns are the characters of the last lines of the file, one after
\* the other and nothing else, if there was room for them and none was wrapped
\* (fileTailer.cxx:145-161).
THEOREM PrintsLastLinesAlways == Spec => []PrintsLastLines
  <1>1. Init => PrintInv
    BY InitHolds DEF Init, PrintInv
  <1>2. PrintInv => PrintsLastLines
    <2> SUFFICES ASSUME PrintInv, Whole, \A i \in Entries : lines[i][2] = Null
                 PROVE  out = [i \in 1 .. length - FromLast(Kept) + 1 |-> FromLast(Kept) + i - 1]
      BY DEF PrintsLastLines
    <2>1. TypeOK /\ Counted /\ pc = "printed" /\ eof /\ Fits /\ Printing /\ copied = nlines
      BY DEF PrintInv, IInv, Whole, GaveUp
    <2>2. nlines \in Nat \ {0} /\ pos \in Nat /\ pos = length /\ pos > 0
      BY <2>1, RangeFacts DEF Fits, Whole
    <2>3. Kept \in 1 .. nlines /\ nfound = Kept
      <3>1. 1 \in Starts
        BY <2>2 DEF Starts
      <3>2. IsFiniteSet(Starts)
        BY <2>1, StartsFinite
      <3>3. Cardinality(Starts) \in Nat /\ Cardinality(Starts) # 0
        BY <3>1, <3>2, FS_CardinalityType, FS_EmptySet
      <3> QED BY <2>1, <2>2, <3>3 DEF Kept, Counted
    <2>4. FromLast(Kept) \in 1 .. pos
      BY <2>1, <2>3, FirstFacts
    <2>5. out = Lines(FromLast(Kept), pos + 1)
      <3>1. ~(copied <= nlines - Kept) /\ nlines - copied = 0
        BY <2>1, <2>2, <2>3
      <3> QED BY <2>1, <3>1 DEF Printing, Upto
    <2>6. (pos + 1) - FromLast(Kept) = length - FromLast(Kept) + 1
      BY <2>2, <2>4
    <2> QED BY <2>5, <2>6 DEF Lines
  <1> QED BY <1>1, <1>2, PrintNext, PTL DEF Spec
==============================================================================
