------------------------------ MODULE FileTailer ------------------------------
(***************************************************************************)
(* fileTailer::tail, which JOBLOG of the job control calls for the last    *)
(* lines of the log of a process: one pass over the file, a circular       *)
(* buffer of the characters and an array of pointers to the lines in it.   *)
(* A step is one character of the file.                                    *)
(*                                                                         *)
(* A character is its position in the file, and 0 is the '\0' that ends a  *)
(* string.  A pointer is an offset in the buffer.  That sprintf takes each *)
(* string for a format is left out.                                        *)
(***************************************************************************)
EXTENDS Integers, Sequences, FiniteSets

CONSTANTS
    MaxLength,  \* bound: the characters of a file
    Requests,   \* the numbers of lines asked for
    Sizes       \* the sizes of the buffer

\* A request for no line at all is not considered: shift and testForRoom would
\* use entries the array of pointers does not have.
ASSUME TailAssumption ==
    MaxLength \in Nat /\ Requests \subseteq Nat \ {0} /\ Sizes \subseteq Nat \ {0, 1}

VARIABLES
    length,     \* of the file
    newlines,   \* the positions of its newlines
    nlines,     \* the number of lines asked for
    maxbuff,    \* the size of the buffer
    pc,
    eof,        \* c == EOF, what ended the loop
    pos,        \* the characters read
    buff,       \* buff, which nobody initialises
    buffp,      \* buffp - buff
    linestart,  \* linestart - buff
    wrap,
    nfound,
    lines,      \* lines: a line is one string, or two if it was wrapped
    copied,     \* how many of them tail has gone through
    out         \* buf, which nobody initialises either

file == <<length, newlines, nlines, maxbuff>>
cursor == <<pos, buff, buffp, linestart, wrap, nfound, lines>>
output == <<copied, out>>
vars == <<file, pc, eof, cursor, output>>

Null == -1
NoLine == <<Null, Null>>
Unset == <<-1>>
Slots == 0 .. maxbuff - 1
Entries == 0 .. nlines - 1
Latest == nlines - 1
Chars == 0 .. MaxLength + 1
Junk == MaxLength + 1
Pointers == {Null} \cup Slots

\* The next character starts a line.
Fresh == buffp = linestart /\ wrap = 0

\* Every character and every pointer is inside of its array: buffp is where the
\* next character goes, or the end of a string in the last slot, and there is an
\* oldest line for testForRoom to look at.
TypeOK ==
    /\ length \in 0 .. MaxLength /\ newlines \subseteq 1 .. length
    /\ nlines \in Requests /\ maxbuff \in Sizes
    /\ pc \in {"reading", "read", "printed"} /\ eof \in BOOLEAN
    /\ pos \in 0 .. length
    /\ buff \in [Slots -> Chars]
    /\ buffp \in Slots /\ linestart \in Slots
    /\ wrap \in {0, 1}
    /\ nfound \in 0 .. nlines
    /\ lines \in [Entries -> Pointers \X Pointers]
    /\ copied \in 0 .. nlines
    /\ pc = "reading" => copied = 0
    /\ pc = "read" => copied \in Entries
    /\ Fresh \/ nfound > 0

\* JOBLOG asks for the last lines of some log.
Joblog ==
    /\ length \in 0 .. MaxLength /\ newlines \in SUBSET (1 .. length)
    /\ nlines \in Requests /\ maxbuff \in Sizes

Init ==
    /\ Joblog
    /\ pc = "reading" /\ eof = FALSE /\ pos = 0
    /\ buff = [k \in Slots |-> Junk]
    /\ buffp = 0 /\ linestart = 0 /\ wrap = 0 /\ nfound = 0
    /\ lines = [i \in Entries |-> NoLine]
    /\ copied = 0 /\ out = Unset

-----------------------------------------------------------------------------
(* fileTail.                                                               *)

\* Mutant of Shifted: the entry of the new line keeps what it had.
ShiftedKeepsLast(ls) == [i \in Entries |-> IF i < Latest THEN ls[i + 1] ELSE ls[i]]

\* shift: the oldest line is forgotten.
Shifted(ls) == [i \in Entries |-> IF i < Latest THEN ls[i + 1] ELSE NoLine]

\* A character that starts a line makes place for it.
Found == IF Fresh /\ nfound < nlines THEN nfound + 1 ELSE nfound
Begun == IF Fresh THEN Shifted(lines) ELSE lines

\* It does not fit behind the others: what there is of the line becomes its
\* first string, and the line goes on at the start of the buffer.
Full == buffp = maxbuff - 1
Turned == IF Full THEN [Begun EXCEPT ![Latest][1] = linestart] ELSE Begun
Closed == IF Full THEN [buff EXCEPT ![buffp] = 0] ELSE buff
Slot == IF Full THEN 0 ELSE buffp
Start == IF Full THEN 0 ELSE linestart
Part == IF Full THEN 1 ELSE wrap

\* Mutant of Room: only the slot of the character itself is looked at.
RoomForOne(ls, oldest, b) == b # ls[oldest][1]

\* testForRoom: neither the character nor a '\0' after it overwrites the oldest
\* line.
Room(ls, oldest, b) == b # ls[oldest][1] /\ b + 1 # ls[oldest][1]

Reading == pc = "reading" /\ pos < length /\ pos' = pos + 1

\* The loop is left: no room.
GiveUp ==
    /\ Reading
    /\ ~Room(Turned, nlines - Found, Slot)
    /\ pc' = "read"
    /\ lines' = Turned /\ nfound' = Found /\ buff' = Closed
    /\ buffp' = Slot /\ linestart' = Start /\ wrap' = Part
    /\ UNCHANGED <<file, eof, output>>

Store ==
    /\ Reading /\ pos' \notin newlines
    /\ Room(Turned, nlines - Found, Slot)
    /\ buff' = [Closed EXCEPT ![Slot] = pos']
    /\ buffp' = Slot + 1 /\ linestart' = Start /\ wrap' = Part
    /\ lines' = Turned /\ nfound' = Found
    /\ UNCHANGED <<file, pc, eof, output>>

\* Mutant of NextStart: the last slot is not kept for the end of a string.
NextStartLate(b) == IF b > maxbuff THEN 0 ELSE b

\* Where a line starts after one that ended before b.
NextStart(b) == IF b >= maxbuff - 1 THEN 0 ELSE b

\* A newline ends its line: a '\0', and a pointer to the line, or its second
\* string.
StoreNewline ==
    /\ Reading /\ pos' \in newlines
    /\ Room(Turned, nlines - Found, Slot)
    /\ buff' = [Closed EXCEPT ![Slot] = pos', ![Slot + 1] = 0]
    /\ buffp' = NextStart(Slot + 2) /\ linestart' = NextStart(Slot + 2) /\ wrap' = 0
    /\ lines' = [Turned EXCEPT ![Latest][Part + 1] = Start]
    /\ nfound' = Found
    /\ UNCHANGED <<file, pc, eof, output>>

\* Mutant of EndOfFile: the last line needs a newline.
EndOfFileForgets ==
    /\ pc = "reading" /\ pos = length
    /\ pc' = "read" /\ eof' = TRUE
    /\ UNCHANGED <<file, cursor, output>>

\* The end of the file; its last line may lack a newline.
EndOfFile ==
    /\ pc = "reading" /\ pos = length
    /\ pc' = "read" /\ eof' = TRUE
    /\ IF buffp # 0 /\ buff[buffp - 1] # 0
         THEN /\ buff' = [buff EXCEPT ![buffp] = 0]
              /\ lines' = [lines EXCEPT ![Latest][wrap + 1] = linestart]
         ELSE UNCHANGED <<buff, lines>>
    /\ UNCHANGED <<file, pos, buffp, linestart, wrap, nfound, output>>

-----------------------------------------------------------------------------
(* The rest of tail.                                                       *)

\* The string at a.
Text(a) ==
    LET end == CHOOSE k \in a .. maxbuff - 1 :
                   buff[k] = 0 /\ \A j \in a .. k - 1 : buff[j] # 0
    IN  [i \in 1 .. end - a |-> buff[a + i - 1]]

\* A line is appended to buf, as long as buf is not full.  The second string of
\* a wrapped line is announced by lines[i][1] and read at lines[i][0].
Copied(text, line) ==
    LET first == IF line[1] # Null /\ Len(text) < maxbuff THEN text \o Text(line[1]) ELSE text
    IN  IF line[2] # Null /\ Len(first) < maxbuff THEN first \o Text(line[1]) ELSE first

\* The loop goes through the entries of lines, the oldest first.
CopyLine ==
    /\ pc = "read"
    /\ out' = IF lines[copied] = NoLine THEN out
              ELSE Copied(IF out = Unset THEN << >> ELSE out, lines[copied])
    /\ copied' = copied + 1
    /\ pc' = IF copied = Latest THEN "printed" ELSE "read"
    /\ UNCHANGED <<file, eof, cursor>>

Next == GiveUp \/ Store \/ StoreNewline \/ EndOfFile \/ CopyLine

Spec == Init /\ [][Next]_vars

-----------------------------------------------------------------------------
(* The lines of what has been read, as anyone would define them.           *)

Starts == {k \in 1 .. pos : k = 1 \/ k - 1 \in newlines}

\* The j-th line from the last, and where a line ends.
FromLast(j) == CHOOSE k \in Starts : Cardinality({s \in Starts : s >= k}) = j
LineEnd(k) == CHOOSE e \in k .. pos :
                  /\ e = pos \/ e \in newlines
                  /\ \A m \in k .. e - 1 : m \notin newlines

Kept == IF Cardinality(Starts) < nlines THEN Cardinality(Starts) ELSE nlines

Spells(a, first, last) ==
    /\ a # Null
    /\ a + (last - first) + 1 \in Slots
    /\ \A k \in first .. last : buff[a + k - first] = k
    /\ buff[a + (last - first) + 1] = 0

Holds(line, first, last) ==
    \/ line[2] = Null /\ Spells(line[1], first, last)
    \/ /\ line[2] # Null
       /\ \E m \in first .. last - 1 :
              Spells(line[1], first, m) /\ Spells(line[2], m + 1, last)

\* The last line is not complete.
GaveUp == pc # "reading" /\ ~eof
InALine == GaveUp \/ (pc = "reading" /\ pos \notin newlines)

\* What the kept lines take of the buffer, each with its '\0'.
Needed == (pos - FromLast(Kept) + 1) + Kept

(* Properties.                                                             *)

\* At any moment, and after the buffer was found too small as well, the last
\* entries of the array are exactly the last lines of what has been read, each
\* intact in one string or in two, and the others are empty: no character ever
\* overwrites a line that is still wanted (fileTailer.cxx:25-60, 119-141).
HoldsLastLines ==
    /\ \A j \in 1 .. Kept :
         (j = 1 /\ InALine) \/ Holds(lines[nlines - j], FromLast(j), LineEnd(FromLast(j)))
    /\ \A i \in 0 .. Latest - Kept : lines[i] = NoLine

\* "not enough room in buffer" is said only if the lines asked for do not fit
\* into the buffer but for one character of it (fileTailer.cxx:40, 134-141).
GivesUpOnlyIfFull == GaveUp => Needed >= maxbuff

\* What is printed is the last lines of the file, if no line was wrapped and
\* there was room (fileTailer.cxx:145-161).
Whole == pc = "printed" /\ ~GaveUp /\ length > 0
PrintsLastLines ==
    Whole /\ (\A i \in Entries : lines[i][2] = Null)
        => out = [i \in 1 .. length - FromLast(Kept) + 1 |-> FromLast(Kept) + i - 1]

\* "findTail finds the last n lines from the input so that they can be printed"
\* (fileTailer.cxx:167-168), wrapped or not.
PrintsWrappedLines ==
    Whole => out = [i \in 1 .. length - FromLast(Kept) + 1 |-> FromLast(Kept) + i - 1]
==============================================================================
