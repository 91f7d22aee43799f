---------------------------- MODULE ReaderProofs ----------------------------
(***************************************************************************)
(* Proofs about AlertReader for any number of alerts, any of them relevant *)
(* or expired, any window and limit, any number of files, rotations and    *)
(* failing reads.                                                          *)
(***************************************************************************)
EXTENDS AlertReader, FiniteSetTheorems, TLAPS

\* While a read is under way the manager appends whole lines or renames the log.
Calm == Races \subseteq {"line", "rename"}

\* No read can find more alerts than it may return.
Roomy == Alerts <= Limit

Ends(f) == file[f].base + file[f].size

\* The log ends where its current file does.
LogInv ==
    /\ \A f \in Files : Ends(f) <= written
    /\ path # Missing => Ends(path) = written

\* The position of a handle is never before the offset it will be saved as.
HandleInv ==
    /\ reader.pc \in {"read", "save"} =>
           reader.start <= reader.offset /\ reader.offset <= reader.pos
    /\ reader.batch \subseteq Relevant

TypeInv == TypeOK /\ LogInv /\ HandleInv

\* What was returned and had its newline then is before this place.
Front(place) == \A a \in returned \ unended : 3 * a <= place

\* Nothing of a file that begins before this position is still to be returned.
Passed(base, pos) ==
    /\ \A a \in Relevant :
          base < 3 * a - 2 /\ 3 * a - 2 <= base + pos => Settled(a, base)
    /\ Front(base + pos)

\* A file that has been renamed for the last time.
Elsewhere(f) ==
    /\ rotations = MaxRotations /\ path # f
    /\ path = Missing => Ends(f) = written

CursorInv ==
    /\ Front(written)
    /\ cursor.offset > 0 =>
           \/ Elsewhere(cursor.identity)
           \/ cursor.head.size > 0 /\ Passed(cursor.head.base, cursor.offset)

\* The log is the file that was statted, or it was renamed meanwhile, and what
\* there is of a new file has never been read.
Undisturbed == path = reader.identity
Disturbed ==
    /\ Elsewhere(reader.identity)
    /\ path # Missing => Front(file[path].base)

Base == file[path].base
Size == file[path].size

Checking ==
    /\ cursor.identity = reader.identity
    /\ reader.start = cursor.offset /\ cursor.head.size > 0
    /\ reader.start > 0 => Passed(cursor.head.base, reader.start)
Opening ==
    reader.start > 0 =>
        /\ Undisturbed => Passed(Base, reader.start)
        /\ path # Missing => Front(Base + reader.start)
Reading ==
    LET base == file[reader.handle].base IN
    /\ reader.start > 0 => Front(base + reader.start)
    /\ \A a \in reader.batch : base + reader.start < 3 * a - 2
    /\ \A a \in reader.batch \ reader.open : 3 * a <= written
\* In an undisturbed read the handle is at the offset, or after it at the end of
\* a last line that has no newline.
Advancing ==
    /\ reader.handle = path
    /\ reader.pos <= Size
    /\ \/ reader.pos = reader.offset
       \/ reader.pos = Size /\ written < LineEnd(Base + reader.offset + 1)
    /\ \A a \in reader.batch \ reader.open : 3 * a <= Base + reader.offset
    /\ \A a \in Relevant :
          Base < 3 * a - 2 /\ 3 * a - 2 <= Base + reader.offset
          => Settled(a, Base) \/ a \in reader.batch
ReadInv ==
    reader.pc # "idle" =>
        /\ Undisturbed \/ Disturbed
        /\ Undisturbed => reader.start <= Size
        /\ reader.since <= horizon
        /\ reader.pc \in {"check", "open"} => reader.batch = {}
        /\ reader.pc = "check" => Checking
        /\ reader.pc = "open" => Opening
        /\ reader.pc \in {"read", "save"} => Reading
        /\ reader.pc \in {"read", "save"} /\ Undisturbed => Advancing
        /\ reader.pc = "save" /\ Undisturbed => Front(Base + reader.offset)

ReaderInv == CursorInv /\ ReadInv

-----------------------------------------------------------------------------
(* Lines, and what a read makes of them.                                   *)

LEMMA LineFacts ==
  ASSUME NEW p \in Nat \ {0}
  PROVE  /\ LineOf(p) \in Nat \ {0} /\ LineEnd(p) \in Nat
         /\ LineEnd(p) = 3 * LineOf(p)
         /\ 3 * LineOf(p) - 2 <= p /\ p <= 3 * LineOf(p)
BY DEF LineOf, LineEnd

\* A file has what it has, and a handle that is not at its end has a line.
LEMMA FileFacts ==
  ASSUME TypeInv, NEW f \in Files
  PROVE  /\ file[f] \in FileState
         /\ file[f].base \in Nat /\ file[f].size \in Nat
         /\ Ends(f) \in Nat /\ Ends(f) <= written /\ written <= Bytes
         /\ Bytes \in Nat /\ written \in Nat
  BY ReaderConstants DEF ReaderConstants, TypeInv, TypeOK, LogInv, FileState, Ends, Bytes

LEMMA RawLineFacts ==
  ASSUME TypeInv, NEW f \in Files, NEW pos \in Nat, pos < file[f].size
  PROVE  LET line == RawLine(f, pos)
         IN  /\ line.first = file[f].base + pos + 1 /\ line.first \in Nat \ {0}
             /\ line.last \in Nat /\ line.first <= line.last /\ line.last <= Ends(f)
             /\ line.last <= LineEnd(line.first)
             /\ line.terminated \in BOOLEAN
             /\ line.terminated => line.last = LineEnd(line.first)
             /\ ~line.terminated => line.last = Ends(f) /\ Ends(f) < LineEnd(line.first)
<1>. DEFINE first == file[f].base + pos + 1
            eof == file[f].base + file[f].size
<1>1. /\ first \in Nat \ {0} /\ eof \in Nat /\ first <= eof
  BY FileFacts
<1>2. LineEnd(first) \in Nat /\ first <= LineEnd(first)
  BY <1>1, LineFacts
<1>3. RawLine(f, pos) = [first |-> first, last |-> Least(LineEnd(first), eof),
                         terminated |-> LineEnd(first) <= eof]
  BY DEF RawLine
<1>4. Ends(f) = eof
  BY DEF Ends
<1>. HIDE DEF first, eof
<1>5. /\ Least(LineEnd(first), eof) \in Nat
      /\ first <= Least(LineEnd(first), eof) /\ Least(LineEnd(first), eof) <= eof
      /\ Least(LineEnd(first), eof) <= LineEnd(first)
      /\ LineEnd(first) <= eof => Least(LineEnd(first), eof) = LineEnd(first)
      /\ ~(LineEnd(first) <= eof) => Least(LineEnd(first), eof) = eof /\ eof < LineEnd(first)
  BY <1>1, <1>2 DEF Least
<1>. DEFINE line == RawLine(f, pos)
<1>6. /\ line.first = first /\ line.last = Least(LineEnd(first), eof)
      /\ line.terminated = (LineEnd(first) <= eof)
  BY <1>3
<1>7. first = file[f].base + pos + 1
  BY DEF first
<1>. HIDE DEF line
<1>8. /\ line.first = file[f].base + pos + 1 /\ line.first \in Nat \ {0}
      /\ line.last \in Nat /\ line.first <= line.last /\ line.last <= Ends(f)
      /\ line.last <= LineEnd(line.first)
  BY <1>1, <1>4, <1>5, <1>6, <1>7
<1>. DEFINE ended == LineEnd(first) <= eof
<1>9. /\ ended => line.last = LineEnd(line.first)
      /\ ~ended => line.last = Ends(f) /\ Ends(f) < LineEnd(line.first)
  BY <1>4, <1>5, <1>6
<1>10. ended \in BOOLEAN /\ line.terminated = ended
  BY <1>6
<1>. HIDE DEF ended
<1>11. /\ line.terminated \in BOOLEAN
       /\ line.terminated => line.last = LineEnd(line.first)
       /\ ~line.terminated => line.last = Ends(f) /\ Ends(f) < LineEnd(line.first)
  BY <1>9, <1>10
<1>. QED
  BY <1>8, <1>11 DEF line

\* The alert of a line, if any, is the one whose first piece begins it.
LEMMA KeptFacts ==
  ASSUME NEW line, line.first \in Nat \ {0}, NEW since,
         NEW a \in Kept(line, since)
  PROVE  /\ a \in Relevant /\ a = LineOf(line.first) /\ line.first = 3 * a - 2
         /\ LineEnd(line.first) = 3 * a
  BY LineFacts DEF Kept, Parses

LEMMA HeadFacts ==
  ASSUME TypeInv, NEW length \in Nat
  PROVE  LET head == HeadOfPath(length)
         IN  /\ head \in Fingerprint
             /\ head.size > 0 => path # Missing /\ head.base = file[path].base
             /\ path # Missing /\ length > 0 /\ file[path].size > 0 => head.size > 0
<1>1. CASE path = Missing \/ length = 0
  BY <1>1, ReaderConstants DEF ReaderConstants, HeadOfPath, Fingerprint, FileState, Bytes
<1>2. CASE path # Missing /\ length # 0
  <2>. DEFINE size == Least(length, file[path].size)
              base == IF size = 0 THEN 0 ELSE file[path].base
  <2>1. path \in Files
    BY <1>2 DEF TypeInv, TypeOK
  <2>2. file[path].size \in 0 .. Bytes /\ file[path].base \in 0 .. Bytes /\ 0 \in 0 .. Bytes
    BY <2>1, FileFacts DEF FileState
  <2>3. Bytes \in Nat
    BY <2>1, FileFacts
  <2>4. size \in 0 .. Bytes /\ (file[path].size > 0 => size > 0)
    BY <1>2, <2>2, <2>3 DEF Least
  <2>5. HeadOfPath(length) = [base |-> base, size |-> size]
    BY <1>2 DEF HeadOfPath
  <2>. HIDE DEF size
  <2>. QED
    BY <1>2, <2>2, <2>4, <2>5 DEF Fingerprint, FileState
<1>3. QED
  BY <1>1, <1>2

-----------------------------------------------------------------------------
(* Types, and where the log ends.                                          *)

\* What the manager may do to the files.
LEMMA ManagerFiles ==
  ASSUME ReaderConstants, TypeInv, Manager
  PROVE  /\ file' \in [Files -> FileState] /\ path' \in Files \cup {Missing}
         /\ written' \in 0 .. Bytes /\ written <= written'
         /\ horizon' \in Nat /\ horizon <= horizon'
         /\ rotations' \in 0 .. MaxRotations /\ rotations <= rotations'
         /\ LogInv'
<1>1. /\ \A f \in Files : /\ file[f] \in FileState /\ file[f].base \in Nat
                          /\ file[f].size \in Nat /\ file[f].base + file[f].size <= written
      /\ written \in 0 .. Bytes /\ Bytes \in Nat /\ horizon \in Nat
      /\ rotations \in 0 .. MaxRotations /\ MaxRotations \in Nat
      /\ path # Missing => file[path].base + file[path].size = written
  BY FileFacts DEF TypeInv, TypeOK, LogInv, ReaderConstants, Ends
<1>2. ASSUME NEW n \in Pieces, Append(n)
      PROVE  /\ file' \in [Files -> FileState] /\ written' \in 0 .. Bytes
             /\ written <= written' /\ LogInv'
  <2>1. n \in {1, 2, 3} /\ path \in Files /\ path # Missing
    BY <1>2 DEF Append, ReaderConstants, TypeInv, TypeOK
  <2>2. /\ written' = written + n /\ written' <= Bytes /\ path' = path
        /\ file' = [file EXCEPT ![path].size = @ + n]
    BY <1>2 DEF Append
  <2>3. file' = [file EXCEPT ![path] = [base |-> file[path].base, size |-> file[path].size + n]]
    <3>1. file[path] \in FileState
      BY <1>1, <2>1
    <3>2. [file[path] EXCEPT !.size = @ + n]
             = [base |-> file[path].base, size |-> file[path].size + n]
      BY <3>1 DEF FileState
    <3>3. QED
      BY <2>2, <3>2
  <2>4. /\ file[path].size + n \in 0 .. Bytes /\ file[path].base \in 0 .. Bytes
        /\ file[path].base + (file[path].size + n) = written'
    BY <1>1, <2>1, <2>2
  <2>5. file' \in [Files -> FileState]
    BY <2>3, <2>4 DEF FileState, TypeInv, TypeOK
  <2>6. /\ file'[path].base + file'[path].size = written'
        /\ \A f \in Files : f # path => file'[f] = file[f]
    BY <2>1, <2>3, <2>4 DEF TypeInv, TypeOK
  <2>7. written <= written' /\ written' \in 0 .. Bytes
    BY <1>1, <2>1, <2>2
  <2>8. \A f \in Files : file'[f].base + file'[f].size <= written'
    BY <1>1, <2>6, <2>7
  <2>. QED
    BY <2>2, <2>5, <2>6, <2>7, <2>8 DEF LogInv, Ends
<1>3. ASSUME NEW f \in Files, file' = [file EXCEPT ![f] = [base |-> written, size |-> 0]],
             path' = f, UNCHANGED written
      PROVE  file' \in [Files -> FileState] /\ LogInv'
  <2>1. [base |-> written, size |-> 0] \in FileState
    BY <1>1 DEF FileState
  <2>2. /\ file' \in [Files -> FileState] /\ file'[f] = [base |-> written, size |-> 0]
        /\ \A g \in Files : g # f => file'[g] = file[g]
    BY <1>3, <2>1 DEF TypeInv, TypeOK
  <2>3. file'[f].base + file'[f].size = written
    BY <1>1, <2>2
  <2>4. \A g \in Files : file'[g].base + file'[g].size <= written
    BY <1>1, <2>2, <2>3
  <2>. QED
    BY <1>3, <2>2, <2>3, <2>4 DEF LogInv, Ends
<1>4. path \in Files \cup {Missing}
  BY DEF TypeInv, TypeOK
<1>5. CASE \E n \in Pieces : Append(n)
  <2>1. PICK n \in Pieces : Append(n)
    BY <1>5
  <2>2. UNCHANGED <<path, horizon, rotations>>
    BY <2>1 DEF Append
  <2>3. QED
    BY <1>1, <1>2, <1>4, <2>1, <2>2
<1>6. CASE Rename
  <2>1. /\ path' = Missing /\ UNCHANGED <<file, written, horizon>>
        /\ rotations < MaxRotations /\ rotations' \in {rotations + 1, MaxRotations}
    BY <1>6 DEF Rename
  <2>2. file \in [Files -> FileState] /\ LogInv'
    BY <2>1 DEF TypeInv, TypeOK, LogInv, Ends
  <2>3. rotations' \in 0 .. MaxRotations /\ rotations <= rotations'
    BY <1>1, <2>1
  <2>4. QED
    BY <1>1, <2>1, <2>2, <2>3
<1>7. CASE \E f \in Files : Create(f)
  <2>1. PICK f \in Files : Create(f)
    BY <1>7
  <2>2. /\ file' = [file EXCEPT ![f] = [base |-> written, size |-> 0]]
        /\ path' = f /\ UNCHANGED <<written, horizon, rotations>>
    BY <2>1 DEF Create
  <2>3. file' \in [Files -> FileState] /\ LogInv'
    BY <1>3, <2>2
  <2>4. path' \in Files \cup {Missing} /\ written <= written' /\ horizon <= horizon'
        /\ rotations <= rotations'
    BY <1>1, <2>2
  <2>5. QED
    BY <1>1, <2>2, <2>3, <2>4
<1>8. CASE Truncate
  <2>1. /\ path \in Files /\ path' = path /\ UNCHANGED <<written, horizon>>
        /\ file' = [file EXCEPT ![path] = [base |-> written, size |-> 0]]
        /\ rotations < MaxRotations /\ rotations' = rotations + 1
    BY <1>4, <1>8 DEF Truncate
  <2>2. rotations' \in 0 .. MaxRotations /\ rotations <= rotations'
    BY <1>1, <2>1
  <2>3. file' \in [Files -> FileState] /\ LogInv'
    <3>1. PICK f \in Files : f = path
      BY <2>1
    <3>2. QED
      BY <1>3, <2>1, <3>1
  <2>4. QED
    BY <1>1, <1>4, <2>1, <2>2, <2>3
<1>9. CASE Age
  <2>1. horizon' = horizon + 1 /\ UNCHANGED <<file, path, written, rotations>>
    BY <1>9 DEF Age
  <2>2. file \in [Files -> FileState] /\ LogInv'
    BY <2>1 DEF TypeInv, TypeOK, LogInv, Ends
  <2>3. QED
    BY <1>1, <1>4, <2>1, <2>2
<1>10. QED
  BY <1>5, <1>6, <1>7, <1>8, <1>9 DEF Manager

\* One line further, the handle and the offset are still in order.
LEMMA LineRead ==
  ASSUME ReaderConstants, TypeInv, ReadLine
  PROVE  \E line :
           /\ line = RawLine(reader.handle, reader.pos)
           /\ reader'.pc = "read"
           /\ reader'.identity = reader.identity /\ reader'.since = reader.since
           /\ reader'.start = reader.start /\ reader'.handle = reader.handle
           /\ reader'.pos = line.last - file[reader.handle].base
           /\ reader'.pos \in Nat /\ reader.pos < reader'.pos
           /\ reader'.pos <= file[reader.handle].size
           /\ reader'.offset = IF line.terminated
                                 THEN reader.offset + (reader'.pos - reader.pos)
                                 ELSE reader.offset
           /\ reader'.batch = reader.batch \cup Kept(line, reader.since)
           /\ reader'.open = IF line.terminated
                               THEN reader.open \ Kept(line, reader.since)
                               ELSE reader.open \cup Kept(line, reader.since)
           /\ reader' \in Reader
<1>. DEFINE line == RawLine(reader.handle, reader.pos)
            kept == Kept(line, reader.since)
            base == file[reader.handle].base
            to == line.last - base
            length == line.last - line.first + 1
            offset == IF line.terminated THEN reader.offset + length ELSE reader.offset
            open == IF line.terminated THEN reader.open \ kept ELSE reader.open \cup kept
<1>1. /\ reader.pc = "read" /\ reader.pos < file[reader.handle].size
      /\ reader' = Consumed(line, offset)
  BY DEF ReadLine, Reads
<1>2. /\ reader \in Reader /\ reader.handle \in Files /\ reader.pos \in Nat
      /\ reader.offset \in Nat /\ reader.offset <= reader.pos
  BY <1>1 DEF TypeInv, TypeOK, HandleInv, Reader
<1>3. /\ line.first = base + reader.pos + 1 /\ line.first \in Nat \ {0}
      /\ line.last \in Nat /\ line.first <= line.last /\ line.last <= Ends(reader.handle)
  BY <1>1, <1>2, RawLineFacts
<1>4. /\ base \in Nat /\ file[reader.handle].size \in Nat
      /\ Ends(reader.handle) = base + file[reader.handle].size
      /\ base + file[reader.handle].size <= Bytes /\ Bytes \in Nat
  BY <1>2, FileFacts DEF Ends
<1>5. reader' = [reader EXCEPT !.pos = to, !.offset = offset,
                               !.batch = @ \cup kept, !.open = open]
  BY <1>1 DEF Consumed
<1>6. kept \subseteq AlertIds
  BY <1>3, KeptFacts DEF ReaderConstants
<1>. HIDE DEF line, kept
<1>7. /\ to \in 0 .. Bytes /\ reader.pos < to /\ to <= file[reader.handle].size
      /\ length = to - reader.pos /\ length \in Nat
  BY <1>2, <1>3, <1>4
<1>8. offset \in 0 .. Bytes /\ to \in Nat
      /\ offset = IF line.terminated THEN reader.offset + (to - reader.pos) ELSE reader.offset
  BY <1>2, <1>4, <1>7
<1>. HIDE DEF to, offset, length, open
<1>9. open \subseteq AlertIds
  BY <1>2, <1>6 DEF open, Reader
<1>10. reader' \in Reader
  BY <1>2, <1>5, <1>6, <1>7, <1>8, <1>9 DEF Reader
<1>11. /\ reader'.pc = "read"
       /\ reader'.identity = reader.identity /\ reader'.since = reader.since
       /\ reader'.start = reader.start /\ reader'.handle = reader.handle
       /\ reader'.pos = to /\ reader'.offset = offset
       /\ reader'.batch = reader.batch \cup kept /\ reader'.open = open
  BY <1>1, <1>2, <1>5 DEF Reader
<1>12. WITNESS line
<1>. QED
  BY <1>7, <1>8, <1>10, <1>11 DEF line, kept, open, to

LEMMA IdleIsReader ==
  ASSUME ReaderConstants
  PROVE  AnyFile \in Files /\ IdleReader \in Reader /\ NoCursor \in Cursor
<1>1. AnyFile \in Files
  BY DEF AnyFile, ReaderConstants
<1>2. 0 \in 0 .. Bytes
  BY DEF Bytes, ReaderConstants
<1>. QED
  BY <1>1, <1>2 DEF IdleReader, Reader, NoCursor, Cursor, Fingerprint, FileState

\* A read is idle, begins, opens, reads or ends with the reader of its type.
LEMMA ReadTypes ==
  ASSUME ReaderConstants, TypeInv, Read
  PROVE  reader' \in Reader /\ HandleInv' /\ cursor' \in Cursor
         /\ returned' \subseteq Relevant /\ unended' \subseteq returned'
<1>1. /\ reader \in Reader /\ cursor \in Cursor /\ reader.batch \subseteq Relevant
      /\ returned \subseteq Relevant /\ unended \subseteq returned
      /\ path \in Files \cup {Missing} /\ horizon \in Nat
  BY DEF TypeInv, TypeOK, HandleInv
<1>2. /\ IdleReader \in Reader /\ IdleReader.pc = "idle" /\ IdleReader.batch = {}
      /\ 0 \in 0 .. Bytes
  BY IdleIsReader DEF IdleReader, Bytes, ReaderConstants
<1>3. CASE Begin
  <2>1. PICK pc \in {"check", "open"}, start \in {cursor.offset, 0} :
          reader' = [[IdleReader EXCEPT !.identity = path, !.since = horizon,
                                        !.start = start] EXCEPT !.pc = pc]
    BY <1>3 DEF Begin, Reads
  <2>2. start \in 0 .. Bytes /\ path \in Files
    BY <1>1, <1>2, <1>3 DEF Cursor, Begin
  <2>3. reader' \in Reader /\ reader'.pc = pc /\ reader'.batch = {}
    BY <1>1, <1>2, <2>1, <2>2 DEF Reader
  <2>4. UNCHANGED <<cursor, returned, unended>>
    BY <1>3 DEF Begin
  <2>. QED
    BY <1>1, <2>3, <2>4 DEF HandleInv
<1>4. CASE CheckFingerprint
  <2>1. PICK start \in {reader.start, 0} :
          reader' = [reader EXCEPT !.pc = "open", !.start = start]
    BY <1>4 DEF CheckFingerprint, Reads, Opens
  <2>2. start \in 0 .. Bytes
    BY <1>1, <1>2 DEF Reader
  <2>3. reader' \in Reader /\ reader'.pc = "open" /\ reader'.batch = reader.batch
    BY <1>1, <2>1, <2>2 DEF Reader
  <2>4. UNCHANGED <<cursor, returned, unended>>
    BY <1>4 DEF CheckFingerprint
  <2>. QED
    BY <1>1, <2>3, <2>4 DEF HandleInv
<1>5. CASE Open
  <2>1. \/ reader' = IdleReader
        \/ /\ path # Missing
           /\ reader' = [reader EXCEPT !.pc = "read", !.handle = path,
                             !.pos = reader.start, !.offset = reader.start]
    BY <1>5 DEF Open, Reads
  <2>2. CASE reader' = IdleReader
    <3>1. UNCHANGED <<cursor, returned, unended>>
      BY <1>5 DEF Open
    <3>2. reader'.pc = "idle" /\ reader'.batch = {} /\ reader' \in Reader
      BY <1>2, <2>2
    <3>. QED
      BY <1>1, <3>1, <3>2 DEF HandleInv
  <2>3. CASE path # Missing /\ reader' # IdleReader
    <3>1. /\ reader' \in Reader /\ reader'.batch = reader.batch
          /\ reader'.start = reader.start /\ reader'.offset = reader.start
          /\ reader'.pos = reader.start /\ reader.start \in Nat
      <4>1. path \in Files /\ reader.start \in 0 .. Bytes /\ reader.start \in Nat
        BY <1>1, <2>3 DEF Reader
      <4>2. reader' = [reader EXCEPT !.pc = "read", !.handle = path,
                           !.pos = reader.start, !.offset = reader.start]
        BY <2>1, <2>3
      <4>3. QED
        BY <1>1, <4>1, <4>2 DEF Reader
    <3>2. UNCHANGED <<cursor, returned, unended>>
      BY <1>5 DEF Open
    <3>. QED
      BY <1>1, <3>1, <3>2 DEF HandleInv
  <2>. QED
    BY <2>1, <2>2, <2>3
<1>6. CASE ReadLine
  <2>1. PICK line :
          /\ line = RawLine(reader.handle, reader.pos)
          /\ reader'.start = reader.start
          /\ reader'.pos \in Nat /\ reader.pos < reader'.pos
          /\ reader'.offset = IF line.terminated
                                THEN reader.offset + (reader'.pos - reader.pos)
                                ELSE reader.offset
          /\ reader'.batch = reader.batch \cup Kept(line, reader.since)
          /\ reader' \in Reader
    BY <1>6, LineRead
  <2>2. /\ reader.start \in Nat /\ reader.offset \in Nat /\ reader.pos \in Nat
        /\ reader.start <= reader.offset /\ reader.offset <= reader.pos
    BY <1>1, <1>6 DEF Reader, ReadLine, TypeInv, HandleInv
  <2>3. reader'.start <= reader'.offset /\ reader'.offset <= reader'.pos
    BY <2>1, <2>2
  <2>4. Kept(line, reader.since) \subseteq Relevant
    BY DEF Kept
  <2>5. UNCHANGED <<cursor, returned, unended>>
    BY <1>6 DEF ReadLine
  <2>. QED
    BY <1>1, <2>1, <2>3, <2>4, <2>5 DEF HandleInv
<1>7. CASE EndOfFile
  <2>1. reader.pc = "read" /\ reader' = [reader EXCEPT !.pc = "save"]
        /\ UNCHANGED <<cursor, returned, unended>>
    BY <1>7 DEF EndOfFile, Reads
  <2>. QED
    BY <1>1, <2>1 DEF HandleInv, TypeInv, Reader
<1>8. CASE SaveAndReturn
  <2>1. /\ cursor' = [offset |-> reader.offset, identity |-> reader.identity,
                      head |-> HeadOfPath(Window)]
        /\ Return /\ reader' = IdleReader
    BY <1>8 DEF SaveAndReturn, Reads
  <2>2. HeadOfPath(Window) \in Fingerprint
    BY HeadFacts DEF ReaderConstants
  <2>3. Newest(reader.batch) \subseteq Relevant
    BY <1>1 DEF Newest
  <2>. QED
    BY <1>1, <1>2, <2>1, <2>2, <2>3 DEF Return, HandleInv, Reader, Cursor
<1>9. QED
  BY <1>3, <1>4, <1>5, <1>6, <1>7, <1>8 DEF Read

LEMMA TypeStep ==
  ASSUME ReaderConstants, TypeInv, [Next]_vars
  PROVE  TypeInv'
<1>1. CASE UNCHANGED vars
  BY <1>1 DEF vars, log, TypeInv, TypeOK, LogInv, HandleInv, Ends
<1>2. CASE Manager
  <2>1. UNCHANGED <<cursor, reader, failures, returned, unended>>
    BY <1>2 DEF Manager, Append, Rename, Create, Truncate, Age
  <2>2. QED
    BY <1>2, <2>1, ManagerFiles DEF TypeInv, TypeOK, HandleInv
<1>3. CASE Read
  <2>1. UNCHANGED <<log, failures>>
    BY <1>3 DEF Read, Begin, CheckFingerprint, Open, ReadLine, EndOfFile, SaveAndReturn
  <2>2. QED
    BY <1>3, <2>1, ReadTypes DEF TypeInv, TypeOK, LogInv, Ends, log
<1>4. CASE Fail
  <2>1. /\ failures < MaxFailures /\ failures' = failures + 1 /\ reader' = IdleReader
        /\ UNCHANGED <<log, cursor, returned, unended>>
    BY <1>4 DEF Fail, Reads
  <2>2. failures' \in 0 .. MaxFailures
    BY <2>1 DEF TypeInv, TypeOK, ReaderConstants
  <2>3. IdleReader \in Reader /\ IdleReader.pc = "idle" /\ IdleReader.batch = {}
    BY IdleIsReader DEF IdleReader
  <2>4. QED
    BY <2>1, <2>2, <2>3 DEF TypeInv, TypeOK, LogInv, HandleInv, Ends, log
<1>5. QED
  BY <1>1, <1>2, <1>3, <1>4 DEF Next

LEMMA TypeInit ==
  ASSUME ReaderConstants, Init
  PROVE  TypeInv
<1>1. /\ AnyFile \in Files /\ IdleReader \in Reader /\ NoCursor \in Cursor
      /\ 0 \in 0 .. Bytes /\ 0 \in Nat /\ 0 \in 0 .. MaxRotations /\ 0 \in 0 .. MaxFailures
      /\ IdleReader.pc = "idle" /\ IdleReader.batch = {}
  BY IdleIsReader DEF ReaderConstants, Bytes, IdleReader
<1>2. TypeOK /\ HandleInv
  BY <1>1 DEF Init, TypeOK, HandleInv, FileState
<1>3. LogInv
  BY <1>1 DEF Init, LogInv, Ends
<1>. QED
  BY <1>2, <1>3 DEF TypeInv

\* Whatever the manager does, and in the middle of whichever read, positions,
\* offsets and fingerprints stay within the log (WazuhAlertJsonReader).
THEOREM TypeCorrect == Spec => []TypeOK
<1>1. Init => TypeInv
  BY ReaderConstants, TypeInit
<1>2. TypeInv /\ [Next]_vars => TypeInv'
  BY ReaderConstants, TypeStep
<1>3. TypeInv => TypeOK
  BY DEF TypeInv
<1>4. QED
  BY <1>1, <1>2, <1>3, PTL DEF Spec

-----------------------------------------------------------------------------
(* What the cursor and a read rely on.                                     *)

LEMMA PassedStays ==
  ASSUME ReaderConstants, NEW base \in Nat, NEW pos \in Nat,
         UNCHANGED <<returned, unended>>, horizon \in Nat, horizon' \in Nat,
         horizon <= horizon'
  PROVE  /\ \A place : Front(place) => Front(place)'
         /\ Passed(base, pos) => Passed(base, pos)'
<1>1. \A a \in Relevant : Expired(a) => Expired(a)'
  BY DEF ReaderConstants, Expired
<1>. QED
  BY <1>1 DEF Front, Passed, Settled, Crowded

LEMMA FrontGrows ==
  ASSUME TypeInv, ReaderConstants, NEW m \in Nat, NEW n \in Nat, m <= n, Front(m)
  PROVE  Front(n)
<1>1. \A a \in returned : a \in Nat
  BY DEF TypeInv, TypeOK, ReaderConstants, AlertIds
<1>2. \A a \in Nat : 3 * a <= m => 3 * a <= n
  OBVIOUS
<1>. QED
  BY <1>1, <1>2 DEF Front

LEMMA ElsewhereStays ==
  ASSUME ReaderConstants, TypeInv, NEW f \in Files, Elsewhere(f), Manager
  PROVE  Elsewhere(f)'
<1>1. MaxRotations \in Nat /\ ~(rotations < MaxRotations) /\ Missing \notin Files
  BY DEF Elsewhere, ReaderConstants
<1>2. CASE \E n \in Pieces : Append(n)
  BY <1>2 DEF Append, Elsewhere
<1>3. CASE Rename \/ Truncate
  BY <1>1, <1>3 DEF Rename, Truncate
<1>4. CASE \E g \in Files : Create(g)
  BY <1>1, <1>4 DEF Create, Elsewhere, Ends
<1>5. CASE Age
  BY <1>5 DEF Age, Elsewhere, Ends
<1>6. QED
  BY <1>2, <1>3, <1>4, <1>5 DEF Manager

LEMMA ManagerLeaves ==
  ASSUME Manager
  PROVE  UNCHANGED <<cursor, reader, failures, returned, unended>>
BY DEF Manager, Append, Rename, Create, Truncate, Age

LEMMA CursorManager ==
  ASSUME ReaderConstants, TypeInv, CursorInv, Manager
  PROVE  CursorInv'
<1>1. /\ UNCHANGED <<cursor, returned, unended>> /\ written' \in Nat /\ written \in Nat
      /\ written <= written' /\ horizon \in Nat /\ horizon' \in Nat /\ horizon <= horizon'
  BY ManagerLeaves, ManagerFiles DEF TypeInv, TypeOK, Bytes, ReaderConstants
<1>2. /\ cursor.offset \in Nat /\ cursor.head.base \in Nat /\ cursor.identity \in Files
  BY DEF TypeInv, TypeOK, Cursor, Fingerprint, FileState
<1>3. PICK n \in Nat, m \in Nat, p \in Nat, f \in Files :
          n = written' /\ m = cursor.head.base /\ p = cursor.offset /\ f = cursor.identity
  BY <1>1, <1>2
<1>4. Front(written')
  BY <1>1, FrontGrows DEF CursorInv
<1>5. Front(n)'
  BY <1>1, <1>3, <1>4 DEF Front
<1>6. Front(written)'
  BY <1>3, <1>5 DEF Front
<1>7. Passed(m, p) => Passed(m, p)'
  BY <1>1, PassedStays
<1>8. Elsewhere(f) => Elsewhere(f)'
  BY ElsewhereStays
<1>9. p > 0 => \/ Elsewhere(f)
               \/ cursor.head.size > 0 /\ Passed(m, p)
  BY <1>3 DEF CursorInv
<1>10. cursor'.offset > 0 => \/ Elsewhere(f)'
                             \/ cursor'.head.size > 0 /\ Passed(m, p)'
  BY <1>1, <1>3, <1>7, <1>8, <1>9
<1>11. cursor'.head.base = m /\ cursor'.offset = p /\ cursor'.identity = f
  BY <1>1, <1>3
<1>. QED
  BY <1>6, <1>10, <1>11 DEF CursorInv, Passed, Elsewhere, Front, Ends, Expired

\* What the manager does during a read.
LEMMA ManagerDuring ==
  ASSUME ReaderConstants, Calm, TypeInv, CursorInv, Manager,
         reader.pc # "idle", Undisturbed \/ Disturbed
  PROVE  /\ Undisturbed' \/ Disturbed'
         /\ Undisturbed' => /\ Undisturbed /\ Base' = Base /\ Size <= Size'
                            /\ written' = written \/ written + 3 <= LineEnd(written + 1)
         /\ path' # Missing => \/ path' = path /\ Base' = Base
                               \/ Base' = written /\ ~Undisturbed'
         /\ reader.pc \in {"read", "save"} =>
                file'[reader.handle].base = file[reader.handle].base
<1>1. /\ reader.identity \in Files /\ reader.handle \in Files /\ reader' = reader
      /\ Missing \notin Files /\ ~Idle /\ file \in [Files -> FileState]
      /\ UNCHANGED <<returned, unended>> /\ written \in Nat
  BY ManagerLeaves DEF TypeInv, TypeOK, Reader, ReaderConstants, Idle, Bytes
<1>2. PICK f \in Files : f = reader.identity
  BY <1>1
<1>3. CASE \E n \in Pieces : Append(n)
  <2>1. PICK n \in Pieces : Append(n)
    BY <1>3
  <2>2. n = 3 /\ path # Missing /\ path' = path /\ path \in Files
    BY <1>1, <2>1 DEF Append, May, Calm, TypeInv, TypeOK
  <2>3. /\ written + 3 <= LineEnd(written + 1)
        /\ file' = [file EXCEPT ![path].size = @ + 3]
    BY <2>1, <2>2 DEF Append
  <2>4. \A g \in Files : file[g].base \in Nat /\ file[g].size \in Nat
    BY FileFacts
  <2>5. \A g \in Files : file'[g].base = file[g].base
    BY <1>1, <2>2, <2>3 DEF FileState
  <2>6. file'[path].size = file[path].size + 3
    BY <1>1, <2>2, <2>3 DEF FileState
  <2>7. Base' = Base /\ Size <= Size'
    BY <2>2, <2>4, <2>5, <2>6 DEF Base, Size
  <2>8. Disturbed => Disturbed'
    <3>1. Elsewhere(f) => Elsewhere(f)'
      BY ElsewhereStays
    <3>2. Front(Base) => Front(Base)'
      BY <1>1, <2>7 DEF Front
    <3>3. QED
      BY <1>1, <1>2, <2>2, <3>1, <3>2 DEF Disturbed, Elsewhere, Ends, Base
  <2>9. Undisturbed' <=> Undisturbed
    BY <1>1, <2>2 DEF Undisturbed
  <2>10. QED
    BY <1>1, <2>2, <2>3, <2>5, <2>7, <2>8, <2>9
<1>4. CASE Rename
  <2>1. /\ path' = Missing /\ rotations' = MaxRotations /\ path # Missing
        /\ rotations < MaxRotations /\ UNCHANGED <<file, written>>
    BY <1>1, <1>4 DEF Rename
  <2>2. Undisturbed
    BY <2>1 DEF Disturbed, Elsewhere, ReaderConstants
  <2>3. Ends(path) = written
    BY <2>1 DEF TypeInv, LogInv
  <2>4. Disturbed' /\ ~Undisturbed'
    BY <1>1, <2>1, <2>2, <2>3 DEF Undisturbed, Disturbed, Elsewhere, Ends
  <2>5. QED
    BY <2>1, <2>4
<1>5. CASE \E g \in Files : Create(g)
  <2>1. PICK g \in Files : Create(g)
    BY <1>5
  <2>2. /\ path = Missing /\ path' = g /\ g # reader.handle /\ UNCHANGED written
        /\ file' = [file EXCEPT ![g] = [base |-> written, size |-> 0]]
    BY <1>1, <2>1 DEF Create
  <2>3. Disturbed
    BY <1>1, <2>2 DEF Undisturbed
  <2>4. Elsewhere(f)'
    BY <1>2, <2>3, ElsewhereStays DEF Disturbed
  <2>5. Base' = written
    BY <1>1, <2>2 DEF Base
  <2>6. Front(written)' /\ ~Undisturbed'
    BY <1>1, <1>2, <2>2, <2>4 DEF CursorInv, Front, Undisturbed, Elsewhere
  <2>7. Disturbed'
    BY <1>1, <1>2, <2>2, <2>4, <2>5, <2>6 DEF Disturbed, Elsewhere, Ends, Base, Front
  <2>8. file'[reader.handle].base = file[reader.handle].base
    BY <1>1, <2>2
  <2>9. QED
    BY <2>5, <2>6, <2>7, <2>8
<1>6. CASE Truncate
  BY <1>1, <1>6 DEF Truncate, May, Calm
<1>7. CASE Age
  <2>1. UNCHANGED <<file, path, written, rotations>>
    BY <1>7 DEF Age
  <2>2. \A g \in Files : file[g].base \in Nat /\ file[g].size \in Nat
    BY FileFacts
  <2>3. Base' = Base /\ Size' = Size /\ (Undisturbed' <=> Undisturbed)
    BY <1>1, <2>1 DEF Base, Size, Undisturbed
  <2>4. Undisturbed => path \in Files
    BY <1>1 DEF Undisturbed
  <2>5. Disturbed => Disturbed'
    BY <1>1, <2>1 DEF Disturbed, Elsewhere, Ends, Front
  <2>6. QED
    BY <2>1, <2>2, <2>3, <2>4, <2>5 DEF Size
<1>8. QED
  BY <1>3, <1>4, <1>5, <1>6, <1>7 DEF Manager

\* No line grows at the end of a file during a read, so a position there stays
\* the end of a file whose last line has no newline.
LEMMA NoLineGrows ==
  ASSUME NEW at \in Nat \ {0}, NEW end \in Nat, at <= end, end < LineEnd(at)
  PROVE  ~(end + 3 <= LineEnd(end + 1))
<1>1. /\ LineOf(at) \in Nat /\ LineEnd(at) = 3 * LineOf(at) /\ 3 * LineOf(at) - 2 <= at
      /\ LineOf(end + 1) \in Nat /\ LineEnd(end + 1) = 3 * LineOf(end + 1)
      /\ 3 * LineOf(end + 1) - 2 <= end + 1
  BY LineFacts
<1>. QED
  BY <1>1

LEMMA ReadManager ==
  ASSUME ReaderConstants, Calm, TypeInv, CursorInv, ReadInv, Manager
  PROVE  ReadInv'
<1>. SUFFICES ASSUME reader'.pc # "idle"
              PROVE  ReadInv'
  BY DEF ReadInv
<1>1. /\ UNCHANGED <<cursor, reader, returned, unended>> /\ reader \in Reader
      /\ written' \in Nat /\ written \in Nat /\ written <= written'
      /\ horizon \in Nat /\ horizon' \in Nat /\ horizon <= horizon'
  BY ManagerLeaves, ManagerFiles DEF TypeInv, TypeOK, Bytes, ReaderConstants
<1>2. /\ reader.start \in Nat /\ reader.offset \in Nat /\ reader.pos \in Nat
      /\ reader.identity \in Files /\ reader.handle \in Files /\ reader.since \in Nat
      /\ reader.batch \subseteq AlertIds
      /\ \A g \in Files : file[g].base \in Nat /\ file[g].size \in Nat
      /\ AlertIds \subseteq Nat
  BY <1>1, FileFacts DEF Reader, AlertIds, ReaderConstants
<1>3. /\ Undisturbed \/ Disturbed
      /\ Undisturbed => reader.start <= Size
      /\ reader.since <= horizon
      /\ reader.pc \in {"check", "open"} => reader.batch = {}
      /\ reader.pc = "check" => Checking
      /\ reader.pc = "open" => Opening
      /\ reader.pc \in {"read", "save"} => Reading
      /\ reader.pc \in {"read", "save"} /\ Undisturbed => Advancing
      /\ reader.pc = "save" /\ Undisturbed => Front(Base + reader.offset)
  BY <1>1 DEF ReadInv
<1>4. /\ Undisturbed' \/ Disturbed'
      /\ Undisturbed' => /\ Undisturbed /\ Base' = Base /\ Size <= Size'
                         /\ written' = written \/ written + 3 <= LineEnd(written + 1)
      /\ path' # Missing => \/ path' = path /\ Base' = Base
                            \/ Base' = written /\ ~Undisturbed'
      /\ reader.pc \in {"read", "save"} =>
             file'[reader.handle].base = file[reader.handle].base
  BY <1>1, <1>3, ManagerDuring
<1>5. Undisturbed => path \in Files /\ Base \in Nat /\ Size \in Nat
  BY <1>2 DEF Undisturbed, Base, Size
<1>6. path # Missing => Base \in Nat
  BY <1>2 DEF Base, TypeInv, TypeOK
<1>7. \A place : Front(place) => Front(place)'
  BY <1>1 DEF Front
<1>8. ASSUME NEW base \in Nat, NEW pos \in Nat, Passed(base, pos)
      PROVE  Passed(base, pos)'
  BY <1>1, <1>8, PassedStays
<1>9. Undisturbed' => reader'.start <= Size'
  <2>1. SUFFICES ASSUME Undisturbed' PROVE reader.start <= Size'
    BY <1>1
  <2>2. Size' \in Nat
    BY <1>1, <1>2, <2>1, ManagerFiles DEF Undisturbed, Size, FileState
  <2>3. QED
    BY <1>2, <1>3, <1>4, <1>5, <2>1, <2>2
<1>10. reader'.pc = "check" => Checking'
  <2>1. SUFFICES ASSUME reader.pc = "check" PROVE Checking'
    BY <1>1
  <2>2. PICK base \in Nat, pos \in Nat : base = cursor.head.base /\ pos = reader.start
    BY <1>2 DEF TypeInv, TypeOK, Cursor, Fingerprint, FileState
  <2>3. pos > 0 => Passed(base, pos)'
    BY <1>3, <1>8, <2>1, <2>2 DEF Checking
  <2>4. base = cursor'.head.base /\ pos = reader'.start
    BY <1>1, <2>2
  <2>5. QED
    BY <1>1, <1>3, <2>1, <2>3, <2>4 DEF Checking, Passed, Front, Expired
<1>11. reader'.pc = "open" => Opening'
  <2>1. SUFFICES ASSUME reader.pc = "open", reader.start > 0
                 PROVE  /\ Undisturbed' => Passed(Base, reader.start)'
                        /\ path' # Missing => Front(Base + reader.start)'
    BY <1>1 DEF Opening
  <2>2. Undisturbed' => Passed(Base, reader.start)'
    <3>1. SUFFICES ASSUME Undisturbed' PROVE Passed(Base, reader.start)'
      OBVIOUS
    <3>2. PICK base \in Nat, pos \in Nat : base = Base /\ pos = reader.start
      BY <1>2, <1>4, <1>5, <3>1
    <3>3. Passed(base, pos)'
      BY <1>3, <1>4, <1>8, <2>1, <3>1, <3>2 DEF Opening
    <3>4. base = Base' /\ pos = reader'.start
      BY <1>1, <1>4, <3>1, <3>2
    <3>5. QED
      BY <3>3, <3>4 DEF Passed, Front, Expired
  <2>3. path' # Missing => Front(Base + reader.start)'
    <3>1. CASE path' = path /\ Base' = Base /\ path # Missing
      <4>1. PICK place : place = Base + reader.start
        OBVIOUS
      <4>2. Front(place)' /\ place = (Base + reader.start)'
        BY <1>1, <1>3, <1>7, <2>1, <3>1, <4>1 DEF Opening
      <4>3. QED
        BY <4>2 DEF Front
    <3>2. CASE Base' = written
      <4>1. Front(written + reader.start)
        BY <1>1, <1>2, FrontGrows DEF CursorInv
      <4>2. PICK place : place = written + reader.start
        OBVIOUS
      <4>3. Front(place)' /\ place = (Base + reader.start)'
        BY <1>1, <1>7, <3>2, <4>1, <4>2
      <4>4. QED
        BY <4>3 DEF Front
    <3>3. QED
      BY <1>4, <3>1, <3>2
  <2>4. QED
    BY <2>2, <2>3
<1>12. reader'.pc \in {"read", "save"} => Reading'
  <2>1. SUFFICES ASSUME reader.pc \in {"read", "save"} PROVE Reading'
    BY <1>1
  <2>2. PICK base \in Nat : base = file[reader.handle].base
    BY <1>2
  <2>3. file'[reader'.handle].base = base
    BY <1>1, <1>4, <2>1, <2>2
  <2>4. /\ reader.start > 0 => Front(base + reader.start)
        /\ \A a \in reader.batch : base + reader.start < 3 * a - 2
        /\ \A a \in reader.batch \ reader.open : 3 * a <= written
    BY <1>3, <2>1, <2>2 DEF Reading
  <2>5. \A a \in reader.batch \ reader.open : 3 * a <= written'
    <3>1. \A n \in Nat : 3 * n <= written => 3 * n <= written'
      BY <1>1
    <3>2. \A a \in reader.batch : a \in Nat
      BY <1>2
    <3>3. QED
      BY <2>4, <3>1, <3>2
  <2>6. QED
    BY <1>1, <2>3, <2>4, <2>5 DEF Reading, Front
<1>13. reader'.pc \in {"read", "save"} /\ Undisturbed' => Advancing'
  <2>1. SUFFICES ASSUME reader.pc \in {"read", "save"}, Undisturbed'
                 PROVE  Advancing'
    BY <1>1
  <2>2. /\ Undisturbed /\ Advancing /\ Base' = Base /\ Size <= Size' /\ path' = path
        /\ Base \in Nat /\ Size \in Nat /\ Base + Size = written
    BY <1>1, <1>3, <1>4, <1>5, <2>1
    DEF Undisturbed, TypeInv, LogInv, Ends, Base, Size, ReaderConstants
  <2>3. Size' \in Nat
    BY <1>1, <1>2, <2>1, ManagerFiles DEF Undisturbed, Size, FileState
  <2>4. reader.pos <= Size'
    BY <1>2, <2>2, <2>3 DEF Advancing
  <2>5. \/ reader.pos = reader.offset
        \/ reader.pos = Size' /\ written' < LineEnd(Base + reader.offset + 1)
    <3>1. CASE reader.pos = reader.offset
      BY <3>1
    <3>2. CASE reader.pos # reader.offset
      <4>1. /\ reader.pos = Size /\ written < LineEnd(Base + reader.offset + 1)
            /\ reader.offset < reader.pos
        BY <1>2, <2>1, <2>2, <3>2 DEF Advancing, TypeInv, HandleInv
      <4>2. Base + reader.offset + 1 \in Nat \ {0} /\ Base + reader.offset + 1 <= written
        BY <1>2, <2>2, <4>1
      <4>3. written' = written
        BY <1>1, <1>4, <2>1, <4>1, <4>2, NoLineGrows
      <4>4. Base' + Size' = written'
        BY <1>1, <1>2, <2>1, ManagerFiles
        DEF Undisturbed, LogInv, Ends, Base, Size, ReaderConstants
      <4>5. Size' = Size
        BY <2>2, <2>3, <4>3, <4>4
      <4>6. QED
        BY <4>1, <4>3, <4>5
    <3>3. QED
      BY <3>1, <3>2
  <2>6. \A a \in Relevant : Expired(a) => Expired(a)'
    BY <1>1 DEF ReaderConstants, Expired
  <2>7. QED
    BY <1>1, <2>2, <2>4, <2>5, <2>6 DEF Advancing, Settled, Crowded
<1>14. reader'.pc = "save" /\ Undisturbed' => Front(Base + reader.offset)'
  <2>1. SUFFICES ASSUME reader.pc = "save", Undisturbed'
                 PROVE  Front(Base + reader.offset)'
    BY <1>1
  <2>2. PICK place : place = Base + reader.offset
    OBVIOUS
  <2>3. Front(place)' /\ place = (Base + reader.offset)'
    BY <1>1, <1>3, <1>4, <1>7, <2>1, <2>2
  <2>4. QED
    BY <2>3 DEF Front
<1>15. reader'.since <= horizon'
  BY <1>1, <1>2, <1>3
<1>. QED
  BY <1>1, <1>3, <1>4, <1>9, <1>10, <1>11, <1>12, <1>13, <1>14, <1>15 DEF ReadInv

\* A step of a read other than the last leaves the cursor alone.
LEMMA CursorKept ==
  ASSUME CursorInv, UNCHANGED <<log, cursor, returned, unended>>
  PROVE  CursorInv'
BY DEF log, CursorInv, Front, Elsewhere, Passed, Ends, Expired, Settled, Crowded

LEMMA BeginStep ==
  ASSUME ReaderConstants, TypeInv, CursorInv, Begin
  PROVE  ReaderInv'
<1>. DEFINE valid == cursor.identity = path /\ file[path].size >= cursor.offset
            checked == valid /\ cursor.head.size > 0
<1>1. /\ reader'.pc = IF checked THEN "check" ELSE "open"
      /\ reader'.identity = path /\ reader'.since = horizon /\ reader'.batch = {}
      /\ reader'.start = IF valid THEN cursor.offset ELSE 0
      /\ UNCHANGED <<log, cursor, returned, unended>>
      /\ path # Missing /\ path \in Files
  BY DEF Begin, IdleReader, Reads, TypeInv, TypeOK
<1>2. CursorInv'
  BY <1>1, CursorKept
<1>3. /\ Base \in Nat /\ Size \in Nat /\ cursor.offset \in Nat /\ horizon \in Nat
  BY <1>1, FileFacts DEF Base, Size, TypeInv, TypeOK, Cursor
<1>4. UNCHANGED <<file, path, written, horizon, rotations>>
  BY <1>1 DEF log
<1>5. Undisturbed'
  BY <1>1, <1>4 DEF Undisturbed
<1>6. reader'.start <= Size'
  BY <1>1, <1>3, <1>4 DEF Size
<1>7. reader'.start > 0 => /\ valid /\ reader'.start = cursor.offset
                           /\ cursor.head.size > 0
                           /\ Passed(cursor.head.base, cursor.offset)
  BY <1>1, <1>3 DEF CursorInv, Elsewhere
<1>8. reader'.pc = "check" => Checking'
  <2>1. SUFFICES ASSUME checked PROVE Checking'
    BY <1>1
  <2>2. reader'.start = cursor'.offset /\ cursor'.head.size > 0
        /\ cursor'.identity = reader'.identity
    BY <1>1, <2>1
  <2>3. reader'.start > 0 => Passed(cursor.head.base, reader.start)'
    BY <1>1, <1>4, <1>7 DEF Passed, Front, Expired, Settled, Crowded
  <2>4. QED
    BY <2>2, <2>3 DEF Checking
<1>9. reader'.pc = "open" => Opening'
  BY <1>1, <1>3, <1>7 DEF Opening
<1>10. horizon <= horizon
  BY <1>3
<1>11. reader'.pc \notin {"read", "save"} /\ reader'.batch = {} /\ reader'.since <= horizon'
  BY <1>1, <1>4, <1>10
<1>. QED
  BY <1>2, <1>5, <1>6, <1>8, <1>9, <1>11 DEF ReaderInv, ReadInv

LEMMA CheckStep ==
  ASSUME ReaderConstants, TypeInv, ReaderInv, CheckFingerprint
  PROVE  ReaderInv'
<1>. DEFINE same == HeadOfPath(cursor.head.size) = cursor.head
<1>1. /\ reader'.pc = "open" /\ reader'.identity = reader.identity
      /\ reader'.since = reader.since /\ reader'.batch = reader.batch
      /\ reader'.start = IF same THEN reader.start ELSE 0
      /\ UNCHANGED <<log, cursor, returned, unended>> /\ reader.pc = "check"
  BY DEF CheckFingerprint, Reads, Opens, TypeInv, TypeOK, Reader
<1>2. CursorInv'
  BY <1>1, CursorKept DEF ReaderInv
<1>3. UNCHANGED <<file, path, written, horizon, rotations>>
  BY <1>1 DEF log
<1>4. /\ (Undisturbed \/ Disturbed) /\ (Undisturbed => reader.start <= Size)
      /\ reader.since <= horizon /\ reader.batch = {} /\ Checking
  BY <1>1 DEF ReaderInv, ReadInv
<1>5. (Undisturbed' <=> Undisturbed) /\ (Disturbed => Disturbed') /\ Size' = Size /\ Base' = Base
  BY <1>1, <1>3 DEF Undisturbed, Disturbed, Elsewhere, Ends, Front, Size, Base
<1>6. Undisturbed => Size \in Nat
  BY FileFacts DEF Undisturbed, Size, TypeInv, TypeOK, Reader
<1>7. Undisturbed' => reader'.start <= Size'
  BY <1>1, <1>4, <1>5, <1>6
<1>8. reader'.start > 0 => /\ path # Missing /\ Passed(Base, reader.start)
                           /\ reader'.start = reader.start
  <2>1. SUFFICES ASSUME reader'.start > 0
                 PROVE  path # Missing /\ Passed(Base, reader.start)
                        /\ reader'.start = reader.start
    OBVIOUS
  <2>2. same /\ reader'.start = reader.start
    BY <1>1, <2>1
  <2>3. cursor.head.size > 0 /\ Passed(cursor.head.base, reader.start)
    BY <1>4, <2>1, <2>2 DEF Checking
  <2>4. cursor.head.size \in Nat
    BY DEF TypeInv, TypeOK, Cursor, Fingerprint, FileState
  <2>5. path # Missing /\ cursor.head.base = Base
    BY <2>2, <2>3, <2>4, HeadFacts DEF Base
  <2>6. QED
    BY <2>2, <2>3, <2>5
<1>9. reader'.start > 0 => Passed(Base, reader.start)'
  BY <1>1, <1>3, <1>5, <1>8 DEF Passed, Front, Expired, Settled, Crowded
<1>10. Opening'
  BY <1>9 DEF Opening, Passed
<1>. QED
  BY <1>1, <1>2, <1>3, <1>4, <1>5, <1>7, <1>10 DEF ReaderInv, ReadInv

LEMMA OpenStep ==
  ASSUME ReaderConstants, TypeInv, ReaderInv, Open
  PROVE  ReaderInv'
<1>1. UNCHANGED <<log, cursor, returned, unended>> /\ reader.pc = "open"
  BY DEF Open
<1>2. CursorInv'
  BY <1>1, CursorKept DEF ReaderInv
<1>3. CASE path = Missing
  <2>1. reader'.pc = "idle"
    BY <1>3 DEF Open, Reads, IdleReader
  <2>2. QED
    BY <1>2, <2>1 DEF ReaderInv, ReadInv
<1>4. CASE path # Missing
  <2>1. /\ reader'.pc = "read" /\ reader'.identity = reader.identity
        /\ reader'.since = reader.since /\ reader'.batch = reader.batch
        /\ reader'.open = reader.open
        /\ reader'.start = reader.start /\ reader'.handle = path
        /\ reader'.pos = reader.start /\ reader'.offset = reader.start
    BY <1>4 DEF Open, Reads, TypeInv, TypeOK, Reader
  <2>2. UNCHANGED <<file, path, written, horizon, rotations>>
    BY <1>1 DEF log
  <2>3. /\ (Undisturbed \/ Disturbed) /\ (Undisturbed => reader.start <= Size)
        /\ reader.since <= horizon /\ reader.batch = {} /\ Opening
    BY <1>1 DEF ReaderInv, ReadInv
  <2>4. /\ Undisturbed' <=> Undisturbed
        /\ Disturbed => Disturbed'
        /\ Size' = Size /\ Base' = Base
    BY <1>1, <2>1, <2>2 DEF Undisturbed, Disturbed, Elsewhere, Ends, Front, Size, Base
  <2>5. file'[reader'.handle].base = Base
    BY <2>1, <2>2 DEF Base
  <2>6. /\ Base \in Nat /\ Size \in Nat /\ reader.start \in Nat
    BY <1>4, FileFacts DEF Base, Size, TypeInv, TypeOK, Reader
  <2>7. Reading'
    <3>1. reader'.start > 0 => Front(Base + reader.start)
      BY <1>4, <2>1, <2>3 DEF Opening
    <3>2. reader'.start > 0 => Front(Base + reader.start)'
      BY <1>1, <2>1, <2>4, <3>1 DEF Front
    <3>3. QED
      BY <2>1, <2>3, <2>4, <2>5, <3>2 DEF Reading
  <2>8. Undisturbed' => Advancing'
    <3>1. SUFFICES ASSUME Undisturbed PROVE Advancing'
      BY <2>4
    <3>2. \A a \in Relevant :
             Base < 3 * a - 2 /\ 3 * a - 2 <= Base + reader.start => Settled(a, Base)
      <4>1. CASE reader.start > 0
        BY <2>3, <3>1, <4>1 DEF Opening, Passed
      <4>2. CASE reader.start = 0
        <5>1. Relevant \subseteq Nat
          BY DEF ReaderConstants, AlertIds
        <5>2. \A a \in Nat : ~(Base < 3 * a - 2 /\ 3 * a - 2 <= Base + reader.start)
          BY <2>6, <4>2
        <5>3. QED
          BY <5>1, <5>2
      <4>3. QED
        BY <2>6, <4>1, <4>2
    <3>3. \A a \in Relevant : Expired(a) => Expired(a)'
      BY <2>2 DEF Expired
    <3>4. QED
      BY <1>1, <2>1, <2>2, <2>3, <2>4, <3>1, <3>2, <3>3 DEF Advancing, Settled, Crowded
  <2>9. QED
    BY <1>2, <2>1, <2>2, <2>3, <2>4, <2>7, <2>8 DEF ReaderInv, ReadInv
<1>5. QED
  BY <1>3, <1>4

\* The line at the offset is consumed, or the end of the file is reached inside
\* it; an alert that begins in what was consumed is the line's own.
LEMMA LineConsumed ==
  ASSUME NEW first \in Nat \ {0}, NEW a \in Nat, first <= 3 * a - 2,
         3 * a - 2 <= LineEnd(first)
  PROVE  a = LineOf(first) /\ first = 3 * a - 2 /\ LineEnd(first) = 3 * a
<1>1. /\ LineOf(first) \in Nat /\ LineEnd(first) = 3 * LineOf(first)
      /\ 3 * LineOf(first) - 2 <= first
  BY LineFacts
<1>. QED
  BY <1>1

LEMMA ReadLineStep ==
  ASSUME ReaderConstants, TypeInv, ReaderInv, ReadLine
  PROVE  ReaderInv'
<1>1. /\ UNCHANGED <<log, cursor, returned, unended>> /\ reader.pc = "read"
      /\ reader.pos < file[reader.handle].size
  BY DEF ReadLine
<1>2. CursorInv'
  BY <1>1, CursorKept DEF ReaderInv
<1>3. UNCHANGED <<file, path, written, horizon, rotations>>
  BY <1>1 DEF log
<1>4. PICK line :
           /\ line = RawLine(reader.handle, reader.pos)
           /\ reader'.pc = "read"
           /\ reader'.identity = reader.identity /\ reader'.since = reader.since
           /\ reader'.start = reader.start /\ reader'.handle = reader.handle
           /\ reader'.pos = line.last - file[reader.handle].base
           /\ reader'.pos \in Nat /\ reader.pos < reader'.pos
           /\ reader'.pos <= file[reader.handle].size
           /\ reader'.offset = IF line.terminated
                                 THEN reader.offset + (reader'.pos - reader.pos)
                                 ELSE reader.offset
           /\ reader'.batch = reader.batch \cup Kept(line, reader.since)
           /\ reader'.open = IF line.terminated
                               THEN reader.open \ Kept(line, reader.since)
                               ELSE reader.open \cup Kept(line, reader.since)
  BY LineRead
<1>5. /\ reader.start \in Nat /\ reader.offset \in Nat /\ reader.pos \in Nat
      /\ reader.handle \in Files /\ reader.since \in Nat
      /\ reader.start <= reader.offset /\ reader.offset <= reader.pos
      /\ reader.batch \subseteq Relevant /\ Relevant \subseteq Nat
      /\ written \in Nat /\ horizon \in Nat
  BY <1>1 DEF TypeInv, TypeOK, Reader, HandleInv, ReaderConstants, AlertIds, Bytes
<1>6. PICK base \in Nat, size \in Nat :
          /\ base = file[reader.handle].base /\ size = file[reader.handle].size
          /\ base + size <= written /\ Ends(reader.handle) = base + size
  BY <1>5, FileFacts DEF Ends
<1>7. PICK first \in Nat \ {0}, last \in Nat :
          /\ line.first = first /\ line.last = last
          /\ first = base + reader.pos + 1 /\ first <= last /\ last <= base + size
          /\ last <= LineEnd(first)
          /\ line.terminated \in BOOLEAN
          /\ line.terminated => last = LineEnd(first)
          /\ ~line.terminated => last = base + size /\ base + size < LineEnd(first)
  BY <1>1, <1>4, <1>5, <1>6, RawLineFacts
<1>8. PICK kept : kept = Kept(line, reader.since)
  OBVIOUS
<1>9. \A a \in kept : /\ a \in Relevant /\ a \in Nat /\ first = 3 * a - 2
                      /\ LineEnd(first) = 3 * a
  <2>1. line.first \in Nat \ {0} /\ line.first = first
    BY <1>7
  <2>2. \A a \in Kept(line, reader.since) :
            /\ a \in Relevant /\ line.first = 3 * a - 2
            /\ LineEnd(line.first) = 3 * a
    BY <2>1, KeptFacts
  <2>3. QED
    BY <1>5, <1>8, <2>1, <2>2
<1>10. /\ (Undisturbed \/ Disturbed) /\ (Undisturbed => reader.start <= Size)
       /\ reader.since <= horizon /\ Reading
       /\ Undisturbed => Advancing
  BY <1>1 DEF ReaderInv, ReadInv
<1>11. /\ Undisturbed' <=> Undisturbed
       /\ Disturbed => Disturbed'
       /\ Size' = Size /\ Base' = Base
  BY <1>1, <1>3, <1>4 DEF Undisturbed, Disturbed, Elsewhere, Ends, Front, Size, Base
<1>12. reader'.pos = last - base /\ base + reader'.pos = last
  BY <1>4, <1>6, <1>7
<1>13. Reading'
  <2>1. file'[reader'.handle].base = base
    BY <1>3, <1>4, <1>6
  <2>2. /\ reader.start > 0 => Front(base + reader.start)
        /\ \A a \in reader.batch : base + reader.start < 3 * a - 2
        /\ \A a \in reader.batch \ reader.open : 3 * a <= written
    BY <1>6, <1>10 DEF Reading
  <2>3. base + reader.start < first
    BY <1>5, <1>7
  <2>4. \A a \in kept : base + reader.start < 3 * a - 2
    BY <1>9, <2>3
  <2>5. line.terminated => \A a \in kept : 3 * a <= written
    BY <1>5, <1>6, <1>7, <1>9
  <2>6. \A a \in reader'.batch \ reader'.open : 3 * a <= written
    <3>1. CASE line.terminated
      BY <1>4, <1>8, <2>2, <2>5, <3>1
    <3>2. CASE ~line.terminated
      BY <1>4, <1>8, <2>2, <3>2
    <3>3. QED
      BY <3>1, <3>2
  <2>7. \A a \in reader'.batch : base + reader'.start < 3 * a - 2
    BY <1>4, <1>8, <2>2, <2>4
  <2>8. reader'.start > 0 => Front(base + reader.start)'
    BY <1>1, <1>4, <2>2 DEF Front
  <2>9. QED
    BY <1>3, <2>1, <2>6, <2>7, <2>8 DEF Reading
<1>14. ASSUME Undisturbed
       PROVE  Advancing'
  <2>1. /\ reader.handle = path /\ Base = base /\ Size = size
        /\ reader.pos <= size
        /\ \/ reader.pos = reader.offset
           \/ reader.pos = size /\ written < LineEnd(Base + reader.offset + 1)
        /\ \A a \in reader.batch \ reader.open : 3 * a <= base + reader.offset
        /\ \A a \in Relevant :
              base < 3 * a - 2 /\ 3 * a - 2 <= base + reader.offset
              => Settled(a, base) \/ a \in reader.batch
    BY <1>6, <1>10, <1>14 DEF Advancing, Base, Size
  <2>2. reader.pos = reader.offset
    BY <1>1, <1>5, <1>6, <2>1
  <2>3. base + size = written
    BY <1>5, <1>6, <2>1 DEF TypeInv, LogInv, ReaderConstants
  <2>4. reader'.offset = IF line.terminated THEN reader'.pos ELSE reader.offset
    BY <1>4, <1>5, <2>2
  <2>5. base + reader.offset <= base + reader'.offset /\ reader'.offset \in Nat
    BY <1>4, <1>5, <2>2, <2>4
  <2>6. \/ reader'.pos = reader'.offset
        \/ reader'.pos = size /\ written < LineEnd(base + reader'.offset + 1)
    <3>1. CASE line.terminated
      BY <2>4, <3>1
    <3>2. CASE ~line.terminated
      <4>1. reader'.pos = size /\ written < LineEnd(first)
        BY <1>6, <1>7, <1>12, <2>3, <3>2
      <4>2. first = base + reader'.offset + 1
        BY <1>7, <2>2, <2>4, <3>2
      <4>3. QED
        BY <4>1, <4>2
    <3>3. QED
      BY <3>1, <3>2
  <2>7. \A a \in reader'.batch \ reader'.open : 3 * a <= base + reader'.offset
    <3>1. \A a \in reader.batch \ reader.open : a \in Nat /\ 3 * a <= base + reader.offset
      BY <1>5, <2>1
    <3>2. \A n \in Nat : 3 * n <= base + reader.offset => 3 * n <= base + reader'.offset
      BY <1>5, <2>5
    <3>3. line.terminated => \A a \in kept : 3 * a <= base + reader'.offset
      BY <1>7, <1>9, <1>12, <2>4
    <3>4. CASE line.terminated
      BY <1>4, <1>8, <3>1, <3>2, <3>3, <3>4
    <3>5. CASE ~line.terminated
      BY <1>4, <1>8, <3>1, <3>2, <3>5
    <3>6. QED
      BY <3>4, <3>5
  <2>8. ASSUME NEW a \in Relevant,
               base < 3 * a - 2, 3 * a - 2 <= base + reader'.offset
        PROVE  Settled(a, base) \/ a \in reader'.batch
    <3>1. CASE 3 * a - 2 <= base + reader.offset
      BY <1>4, <2>1, <2>8, <3>1
    <3>2. CASE ~(3 * a - 2 <= base + reader.offset)
      <4>1. a \in Nat
        BY <1>5, <2>8
      <4>2. line.terminated
        BY <2>4, <2>8, <3>2
      <4>3. first <= 3 * a - 2 /\ 3 * a - 2 <= LineEnd(first)
        BY <1>5, <1>7, <1>12, <2>2, <2>4, <2>8, <3>2, <4>1, <4>2
      <4>4. a = LineOf(first) /\ first = 3 * a - 2 /\ LineEnd(first) = 3 * a
        BY <4>1, <4>3, LineConsumed
      <4>5. last = 3 * a /\ last >= first + 1
        BY <1>7, <4>1, <4>2, <4>4
      <4>6. Parses(line) /\ a = LineOf(line.first)
        BY <1>7, <4>4, <4>5 DEF Parses
      <4>7. CASE Time[a] > reader.since
        BY <1>4, <2>8, <4>6, <4>7 DEF Kept
      <4>8. CASE ~(Time[a] > reader.since)
        <5>1. Time[a] \in Nat
          BY <2>8 DEF ReaderConstants
        <5>2. Time[a] <= horizon
          BY <1>5, <1>10, <4>8, <5>1
        <5>3. QED
          BY <5>2 DEF Expired, Settled
      <4>9. QED
        BY <4>7, <4>8
    <3>3. QED
      BY <3>1, <3>2
  <2>9. \A a \in Relevant : Expired(a) => Expired(a)'
    BY <1>3 DEF Expired
  <2>10. /\ reader'.handle = path' /\ Base' = base /\ Size' = size /\ reader'.pos <= size
         /\ returned' = returned /\ written' = written
    BY <1>1, <1>3, <1>4, <1>6, <1>11, <2>1
  <2>11. QED
    BY <2>6, <2>7, <2>8, <2>9, <2>10 DEF Advancing, Settled, Crowded
<1>. QED
  BY <1>2, <1>3, <1>4, <1>10, <1>11, <1>13, <1>14 DEF ReaderInv, ReadInv

LEMMA EndStep ==
  ASSUME ReaderConstants, TypeInv, ReaderInv, EndOfFile
  PROVE  ReaderInv'
<1>1. /\ UNCHANGED <<log, cursor, returned, unended>> /\ reader.pc = "read"
      /\ reader.pos >= file[reader.handle].size
      /\ reader'.pc = "save" /\ reader'.identity = reader.identity
      /\ reader'.since = reader.since /\ reader'.start = reader.start
      /\ reader'.handle = reader.handle /\ reader'.pos = reader.pos
      /\ reader'.offset = reader.offset /\ reader'.batch = reader.batch
      /\ reader'.open = reader.open
  BY DEF EndOfFile, Reads, TypeInv, TypeOK, Reader
<1>2. CursorInv'
  BY <1>1, CursorKept DEF ReaderInv
<1>3. UNCHANGED <<file, path, written, horizon, rotations>>
  BY <1>1 DEF log
<1>4. /\ (Undisturbed \/ Disturbed) /\ (Undisturbed => reader.start <= Size)
      /\ reader.since <= horizon /\ Reading
      /\ Undisturbed => Advancing
  BY <1>1 DEF ReaderInv, ReadInv
<1>5. /\ Undisturbed' <=> Undisturbed
      /\ Disturbed => Disturbed'
      /\ Size' = Size /\ Base' = Base
  BY <1>1, <1>3 DEF Undisturbed, Disturbed, Elsewhere, Ends, Front, Size, Base
<1>6. Reading'
  BY <1>1, <1>3, <1>4 DEF Reading, Front
<1>7. Undisturbed => Advancing'
  BY <1>1, <1>3, <1>4, <1>5 DEF Advancing, Settled, Crowded, Expired
<1>8. ASSUME Undisturbed
      PROVE  Front(Base + reader.offset)
  <2>1. /\ Advancing /\ reader.handle = path /\ path \in Files /\ path # Missing
        /\ reader.offset \in Nat /\ reader.pos \in Nat
    BY <1>4, <1>8 DEF Advancing, TypeInv, TypeOK, Reader, ReaderConstants
  <2>2. Base \in Nat /\ Size \in Nat /\ Base + Size = written
    BY <2>1, FileFacts DEF Base, Size, TypeInv, LogInv, Ends
  <2>3. reader.pos = Size
    BY <1>1, <2>1, <2>2 DEF Advancing, Size
  <2>4. PICK at \in Nat \ {0} : at = Base + reader.offset + 1
    BY <2>1, <2>2
  <2>5. /\ LineOf(at) \in Nat /\ LineEnd(at) = 3 * LineOf(at)
        /\ 3 * LineOf(at) - 2 <= at
    BY LineFacts
  <2>6. written <= Base + reader.offset \/ written < LineEnd(at)
    BY <2>1, <2>2, <2>3, <2>4 DEF Advancing
  <2>7. \A a \in Nat : 3 * a <= written => 3 * a <= Base + reader.offset
    BY <2>1, <2>2, <2>4, <2>5, <2>6
  <2>8. \A a \in returned : a \in Nat
    BY DEF TypeInv, TypeOK, ReaderConstants, AlertIds
  <2>9. QED
    BY <2>7, <2>8 DEF ReaderInv, CursorInv, Front
<1>9. Undisturbed' => Front(Base + reader.offset)'
  BY <1>1, <1>5, <1>8 DEF Front
<1>. QED
  BY <1>1, <1>2, <1>3, <1>4, <1>5, <1>6, <1>7, <1>9 DEF ReaderInv, ReadInv

\* A set of numbers that is not empty has a least one.
LEMMA LeastExists ==
  ASSUME NEW S \in SUBSET Nat, S # {}
  PROVE  \E x \in S : \A y \in S : x <= y
<1>1. \E x \in S : \A y \in S : ~ (<<y, x>> \in OpToRel(<, Nat))
  BY NatLessThanWellFounded, WFMin
<1>2. ASSUME NEW x \in S, NEW y \in S, ~ (<<y, x>> \in OpToRel(<, Nat))
      PROVE  x <= y
  <2>1. x \in Nat /\ y \in Nat
    OBVIOUS
  <2>2. ~ (y < x)
    BY <1>2, <2>1 DEF OpToRel
  <2>3. QED
    BY <2>1, <2>2
<1>3. QED
  BY <1>1, <1>2

LEMMA AlertsAreFew ==
  ASSUME ReaderConstants
  PROVE  /\ IsFiniteSet(AlertIds) /\ Cardinality(AlertIds) = Alerts
         /\ \A S \in SUBSET AlertIds : IsFiniteSet(S) /\ Cardinality(S) \in 0 .. Alerts
<1>1. IsFiniteSet(AlertIds) /\ Cardinality(AlertIds) = Alerts /\ Alerts \in Nat
  BY FS_Interval DEF AlertIds, ReaderConstants
<1>2. ASSUME NEW S \in SUBSET AlertIds
      PROVE  IsFiniteSet(S) /\ Cardinality(S) \in 0 .. Alerts
  BY <1>1, FS_Subset, FS_CardinalityType
<1>. QED
  BY <1>1, <1>2

\* The order of the sort is one.
LEMMA NewerIsOrder ==
  ASSUME ReaderConstants, NEW a \in AlertIds, NEW b \in AlertIds, NEW c \in AlertIds
  PROVE  /\ ~Newer(a, a)
         /\ Newer(b, a) /\ Newer(c, b) => Newer(c, a)
<1>1. a \in Nat /\ b \in Nat /\ c \in Nat /\ Time[a] \in Nat /\ Time[b] \in Nat /\ Time[c] \in Nat
  BY DEF ReaderConstants, AlertIds
<1>. QED
  BY <1>1 DEF Newer

\* Of two alerts the newer one has fewer that are newer still.
LEMMA FewerAreNewer ==
  ASSUME ReaderConstants, NEW batch \in SUBSET AlertIds,
         NEW x \in batch, NEW y \in batch, Newer(y, x)
  PROVE  Cardinality({c \in batch : Newer(c, y)}) < Cardinality({c \in batch : Newer(c, x)})
<1>. DEFINE over(z) == {c \in batch : Newer(c, z)}
<1>1. over(y) \subseteq over(x) /\ y \in over(x) /\ y \notin over(y)
  BY NewerIsOrder
<1>2. /\ IsFiniteSet(over(x)) /\ Cardinality(over(x)) \in Nat
      /\ IsFiniteSet(over(y)) /\ Cardinality(over(y)) \in Nat
  BY AlertsAreFew DEF ReaderConstants
<1>. HIDE DEF over
<1>3. Cardinality(over(y)) <= Cardinality(over(x)) /\ Cardinality(over(x)) # Cardinality(over(y))
  BY <1>1, <1>2, FS_Subset
<1>4. Cardinality(over(y)) < Cardinality(over(x))
  BY <1>2, <1>3
<1>. QED
  BY <1>4 DEF over

\* An alert that a read found and does not return is older than Limit others
\* that it does return: the newest of those that are left out has at least Limit
\* alerts before it, and all of them are returned.
LEMMA LeftOutIsOlder ==
  ASSUME ReaderConstants, NEW batch \in SUBSET AlertIds, NEW a \in batch, a \notin Newest(batch)
  PROVE  Cardinality({b \in Newest(batch) : Newer(b, a)}) >= Limit
<1>. DEFINE over(z) == {c \in batch : Newer(c, z)}
            rank == [z \in batch |-> Cardinality(over(z))]
            kept == {b \in Newest(batch) : Newer(b, a)}
            out == over(a) \ Newest(batch)
            ranks == {rank[z] : z \in out}
<1>1. /\ Limit \in Nat /\ Newest(batch) \subseteq batch
      /\ \A z \in batch : z \notin Newest(batch) <=> ~(rank[z] < Limit)
      /\ kept \subseteq over(a) /\ out \subseteq batch /\ over(a) \subseteq batch
  BY DEF Newest, ReaderConstants
<1>2. /\ IsFiniteSet(kept) /\ Cardinality(kept) \in Nat
      /\ \A z \in batch : rank[z] \in Nat /\ IsFiniteSet(over(z))
  <2>1. kept \in SUBSET AlertIds /\ \A z \in batch : over(z) \in SUBSET AlertIds
    BY <1>1
  <2>2. \A S \in SUBSET AlertIds : IsFiniteSet(S) /\ Cardinality(S) \in Nat
    BY AlertsAreFew DEF ReaderConstants
  <2>3. QED
    BY <2>1, <2>2
<1>3. CASE out = {}
  <2>1. kept = over(a)
    BY <1>1, <1>3
  <2>2. Cardinality(kept) = rank[a] /\ rank[a] \in Nat /\ ~(rank[a] < Limit)
    BY <1>1, <1>2, <2>1
  <2>3. Cardinality(kept) >= Limit
    BY <1>1, <2>2
  <2>4. QED
    BY <2>3
<1>4. CASE out # {}
  <2>. HIDE DEF rank, out
  <2>1. ranks \in SUBSET Nat /\ ranks # {}
    <3>1. out \subseteq batch
      BY <1>1
    <3>2. \A z \in batch : rank[z] \in Nat
      BY <1>2
    <3>3. QED
      BY <1>4, <3>1, <3>2
  <2>2. PICK x \in out : \A y \in out : rank[x] <= rank[y]
    <3>1. PICK m \in ranks : \A n \in ranks : m <= n
      BY <2>1, LeastExists
    <3>2. QED
      BY <3>1
  <2>. USE DEF rank, out
  <2>3. x \in batch /\ Newer(x, a) /\ rank[x] \in Nat /\ ~(rank[x] < Limit)
    BY <1>1, <1>2, <2>2
  <2>4. over(x) \subseteq kept
    <3>1. SUFFICES ASSUME NEW c \in batch, Newer(c, x) PROVE c \in kept
      OBVIOUS
    <3>2. Newer(c, a)
      BY <2>3, <3>1, NewerIsOrder
    <3>3. rank[c] < rank[x]
      BY <2>3, <3>1, FewerAreNewer
    <3>4. c \notin out
      <4>1. rank[c] \in Nat /\ rank[x] \in Nat
        BY <1>2, <2>3, <3>1
      <4>. HIDE DEF rank, out
      <4>2. QED
        BY <2>2, <3>3, <4>1
    <3>5. QED
      BY <3>2, <3>4
  <2>. HIDE DEF over, kept
  <2>5. Cardinality(over(x)) <= Cardinality(kept)
    BY <1>2, <2>4, FS_Subset
  <2>6. Cardinality(kept) >= Limit
    BY <1>1, <1>2, <2>3, <2>5
  <2>7. QED
    BY <2>6 DEF kept
<1>5. QED
  BY <1>3, <1>4

\* What was crowded out once stays so, and a read crowds out what it leaves out.
LEMMA CrowdedGrows ==
  ASSUME ReaderConstants, TypeInv, NEW a, NEW base, NEW batch \in SUBSET AlertIds,
         \A b \in batch : 3 * b - 2 > base, returned' = returned \cup Newest(batch)
  PROVE  /\ Crowded(a, base) => Crowded(a, base)'
         /\ a \in batch \ Newest(batch) => Crowded(a, base)'
<1>. DEFINE was == {b \in returned : 3 * b - 2 > base /\ Newer(b, a)}
            is == {b \in returned' : 3 * b - 2 > base /\ Newer(b, a)}
            new == {b \in Newest(batch) : Newer(b, a)}
<1>1. /\ was \subseteq is /\ new \subseteq is /\ Newest(batch) \subseteq batch
      /\ was \in SUBSET AlertIds /\ new \in SUBSET AlertIds /\ is \in SUBSET AlertIds
  BY DEF Newest, TypeInv, TypeOK, ReaderConstants
<1>2. /\ Limit \in Nat /\ IsFiniteSet(is) /\ Cardinality(is) \in Nat
      /\ Cardinality(was) \in Nat /\ Cardinality(new) \in Nat
  <2>1. \A S \in SUBSET AlertIds : IsFiniteSet(S) /\ Cardinality(S) \in Nat
    BY AlertsAreFew DEF ReaderConstants
  <2>. HIDE DEF was, is, new
  <2>2. QED
    BY <1>1, <2>1 DEF ReaderConstants
<1>3. /\ Crowded(a, base) <=> Cardinality(was) >= Limit
      /\ Crowded(a, base)' <=> Cardinality(is) >= Limit
  BY DEF Crowded, Newer
<1>4. a \in batch \ Newest(batch) => Cardinality(new) >= Limit
  BY LeftOutIsOlder
<1>. HIDE DEF was, is, new
<1>5. Cardinality(was) <= Cardinality(is) /\ Cardinality(new) <= Cardinality(is)
  BY <1>1, <1>2, FS_Subset
<1>6. /\ Cardinality(was) >= Limit => Cardinality(is) >= Limit
      /\ Cardinality(new) >= Limit => Cardinality(is) >= Limit
  BY <1>2, <1>5
<1>. QED
  BY <1>3, <1>4, <1>6

\* Where no more alerts are written than a read may return, none is crowded out.
LEMMA RoomForAll ==
  ASSUME ReaderConstants, TypeInv, Roomy, NEW a \in Relevant, NEW base
  PROVE  ~Crowded(a, base)
<1>. DEFINE newer == {b \in returned : 3 * b - 2 > base /\ Newer(b, a)}
<1>1. a \in AlertIds /\ returned \subseteq AlertIds
  BY DEF TypeInv, TypeOK, ReaderConstants
<1>2. newer \in SUBSET (AlertIds \ {a})
  BY <1>1, NewerIsOrder
<1>3. /\ IsFiniteSet(AlertIds \ {a}) /\ Cardinality(AlertIds \ {a}) = Alerts - 1
      /\ Alerts \in Nat /\ Limit \in Nat
  BY <1>1, AlertsAreFew, FS_RemoveElement DEF ReaderConstants
<1>4. newer \in SUBSET AlertIds
  BY <1>1
<1>. HIDE DEF newer
<1>5. Cardinality(newer) <= Alerts - 1 /\ Cardinality(newer) \in Nat
  BY <1>2, <1>3, <1>4, FS_Subset, AlertsAreFew
<1>6. ~(Cardinality(newer) >= Limit)
  BY <1>3, <1>5 DEF Roomy
<1>7. Crowded(a, base) <=> Cardinality(newer) >= Limit
  BY DEF Crowded, newer
<1>. QED
  BY <1>6, <1>7

LEMMA SaveStep ==
  ASSUME ReaderConstants, TypeInv, ReaderInv, SaveAndReturn
  PROVE  ReaderInv'
<1>. DEFINE new == Newest(reader.batch)
<1>1. /\ reader.pc = "save" /\ reader'.pc = "idle" /\ UNCHANGED log
      /\ cursor'.offset = reader.offset /\ cursor'.identity = reader.identity
      /\ cursor'.head = HeadOfPath(Window)
      /\ returned' = returned \cup new
      /\ unended' = (unended \ new) \cup (new \cap reader.open)
  BY DEF SaveAndReturn, Return, Reads, IdleReader
<1>2. UNCHANGED <<file, path, written, horizon, rotations>>
  BY <1>1 DEF log
<1>3. /\ Undisturbed \/ Disturbed
      /\ Reading /\ (Undisturbed => Advancing)
      /\ Undisturbed => Front(Base + reader.offset)
  BY <1>1 DEF ReaderInv, ReadInv
<1>4. new \subseteq reader.batch
  BY DEF Newest
<1>5. ReadInv'
  BY <1>1 DEF ReadInv
<1>6. \A a \in returned' \ unended' : a \in returned \ unended
                                      \/ a \in reader.batch \ reader.open
  BY <1>1, <1>4
<1>7. Front(written)'
  BY <1>2, <1>3, <1>6 DEF Front, Reading, ReaderInv, CursorInv
<1>8. CASE Disturbed
  BY <1>1, <1>2, <1>7, <1>8, <1>5 DEF ReaderInv, CursorInv, Disturbed, Elsewhere, Ends
<1>9. CASE Undisturbed
  <2>1. SUFFICES ASSUME reader.offset > 0
                 PROVE  cursor'.head.size > 0
                        /\ Passed(cursor.head.base, cursor.offset)'
    BY <1>1, <1>5, <1>7 DEF ReaderInv, CursorInv
  <2>2. /\ Advancing /\ reader.handle = path /\ path \in Files /\ path # Missing
        /\ reader.offset \in Nat /\ reader.pos \in Nat /\ reader.offset <= reader.pos
    BY <1>1, <1>3, <1>9
    DEF Advancing, TypeInv, TypeOK, Reader, ReaderConstants, HandleInv
  <2>3. Base \in Nat /\ Size \in Nat
    BY <2>2, FileFacts DEF Base, Size
  <2>4. Size > 0
    BY <2>1, <2>2, <2>3 DEF Advancing
  <2>5. Window \in Nat /\ Window > 0
    BY DEF ReaderConstants
  <2>6. HeadOfPath(Window).size > 0 /\ HeadOfPath(Window).base = Base
    <3>1. HeadOfPath(Window) \in Fingerprint
      BY <2>5, HeadFacts
    <3>2. HeadOfPath(Window).size > 0
      BY <2>2, <2>4, <2>5, HeadFacts DEF Size
    <3>3. QED
      BY <2>5, <3>2, HeadFacts DEF Base
  <2>7. \A a \in returned' \ unended' : 3 * a <= Base + reader.offset
    BY <1>3, <1>6, <1>9, <2>2 DEF Front, Advancing
  <2>8. PICK head \in Nat, at \in Nat : head = Base /\ at = reader.offset
    BY <2>2, <2>3
  <2>9. reader.batch \in SUBSET AlertIds /\ \A b \in reader.batch : 3 * b - 2 > head
    <3>1. reader.batch \in SUBSET AlertIds /\ reader.batch \subseteq Nat /\ reader.start \in Nat
      BY DEF TypeInv, TypeOK, Reader, AlertIds
    <3>2. \A b \in reader.batch : head + reader.start < 3 * b - 2
      BY <1>3, <2>2, <2>8 DEF Reading, Base
    <3>3. \A b \in Nat : head + reader.start < 3 * b - 2 => 3 * b - 2 > head
      BY <2>8, <3>1
    <3>4. QED
      BY <3>1, <3>2, <3>3
  <2>10. ASSUME NEW a \in Relevant,
               Base < 3 * a - 2, 3 * a - 2 <= Base + reader.offset
        PROVE  a \in returned' \/ Expired(a) \/ Crowded(a, head)'
    <3>1. Settled(a, Base) \/ a \in reader.batch
      BY <2>2, <2>10 DEF Advancing
    <3>2. /\ Crowded(a, head) => Crowded(a, head)'
          /\ a \in reader.batch \ new => Crowded(a, head)'
      BY <1>1, <2>8, <2>9, CrowdedGrows
    <3>3. a \in new => a \in returned'
      BY <1>1
    <3>4. QED
      BY <1>1, <2>8, <3>1, <3>2, <3>3 DEF Settled
  <2>11. \A a \in Relevant : Expired(a) => Expired(a)'
    BY <1>2 DEF Expired
  <2>12. Passed(head, at)'
    BY <2>7, <2>8, <2>10, <2>11 DEF Passed, Front, Settled
  <2>13. QED
    <3>1. cursor'.head.base = head /\ cursor'.offset = at /\ cursor'.head.size > 0
      BY <1>1, <2>6, <2>8
    <3>2. QED
      BY <2>12, <3>1 DEF Passed, Front, Expired, Settled, Crowded
<1>10. QED
  BY <1>3, <1>8, <1>9

-----------------------------------------------------------------------------
(* What the cursor promises.                                               *)

LEMMA ReaderInit == ASSUME Init PROVE ReaderInv
BY DEF Init, NoCursor, IdleReader, ReaderInv, CursorInv, ReadInv, Front

LEMMA ReaderStep ==
  ASSUME ReaderConstants, Calm, TypeInv, ReaderInv, [Next]_vars
  PROVE  ReaderInv'
<1>1. CASE Manager
  BY <1>1, CursorManager, ReadManager DEF ReaderInv
<1>2. CASE Begin
  BY <1>2, BeginStep DEF ReaderInv
<1>3. CASE CheckFingerprint
  BY <1>3, CheckStep
<1>4. CASE Open
  BY <1>4, OpenStep
<1>5. CASE ReadLine
  BY <1>5, ReadLineStep
<1>6. CASE EndOfFile
  BY <1>6, EndStep
<1>7. CASE SaveAndReturn
  BY <1>7, SaveStep
<1>8. CASE Fail
  <2>1. reader'.pc = "idle" /\ UNCHANGED <<log, cursor, returned, unended>>
    BY <1>8 DEF Fail, Reads, IdleReader
  <2>2. QED
    BY <2>1, CursorKept DEF ReaderInv, ReadInv
<1>9. CASE UNCHANGED vars
  <2>1. UNCHANGED <<log, cursor, reader, returned, unended>>
    BY <1>9 DEF vars
  <2>2. CursorInv'
    BY <2>1, CursorKept DEF ReaderInv
  <2>3. ReadInv'
    BY <2>1 DEF log, ReaderInv, ReadInv, Undisturbed, Disturbed, Elsewhere, Ends, Front,
                Base, Size, Checking, Opening, Reading, Advancing, Passed, Expired, Settled, Crowded
  <2>4. QED
    BY <2>2, <2>3 DEF ReaderInv
<1>10. QED
  BY <1>1, <1>2, <1>3, <1>4, <1>5, <1>6, <1>7, <1>8, <1>9 DEF Next, Read

LEMMA NoneBefore ==
  ASSUME ReaderConstants, TypeInv, ReaderInv
  PROVE  NothingSkipped
<1>. SUFFICES ASSUME NEW a \in Relevant, InFile(a), BeginsBefore(a, ResumeAt)
              PROVE  Settled(a, file[path].base)
  BY DEF NothingSkipped
<1>1. a \in Nat /\ path \in Files /\ file[path].base \in Nat /\ cursor.offset \in Nat
      /\ cursor.head.size \in Nat
  BY FileFacts
  DEF InFile, ReaderConstants, AlertIds, TypeInv, TypeOK, Cursor, Fingerprint, FileState
<1>2. file[path].base < 3 * a - 2 /\ 3 * a - 2 <= file[path].base + ResumeAt
  BY <1>1 DEF InFile, BeginsBefore
<1>3. ResumeAt # 0
  BY <1>1, <1>2
<1>4. /\ path = cursor.identity /\ ResumeAt = cursor.offset /\ cursor.offset > 0
      /\ cursor.head.size > 0 => HeadOfPath(cursor.head.size) = cursor.head
  BY <1>1, <1>3 DEF ResumeAt
<1>5. cursor.head.size > 0 /\ Passed(cursor.head.base, cursor.offset)
  BY <1>4 DEF ReaderInv, CursorInv, Elsewhere
<1>6. cursor.head.base = file[path].base
  BY <1>1, <1>4, <1>5, HeadFacts
<1>. QED
  BY <1>2, <1>4, <1>5, <1>6 DEF Passed

\* Of the alerts of the current log before the place where the next read resumes,
\* those that were neither returned nor too old are the oldest of a burst: at least
\* Limit newer ones of the same file were returned.  The cursor of soc/store.py,
\* with _start_offset and _fingerprint_matches, loses nothing else, for any log, any
\* sequence of renamings, truncations between reads, failed reads and restarts.
THEOREM CursorLosesNothing ==
  ASSUME Calm
  PROVE  Spec => []NothingSkipped
<1>1. Init => TypeInv /\ ReaderInv
  BY ReaderConstants, TypeInit, ReaderInit
<1>2. TypeInv /\ ReaderInv /\ [Next]_vars => (TypeInv /\ ReaderInv)'
  BY ReaderConstants, TypeStep, ReaderStep
<1>3. TypeInv /\ ReaderInv => NothingSkipped
  BY ReaderConstants, NoneBefore
<1>4. QED
  BY <1>1, <1>2, <1>3, PTL DEF Spec

\* What has begun before the place where the next read resumes was given out.
AllGiven ==
    Idle => \A a \in Relevant :
        InFile(a) /\ BeginsBefore(a, ResumeAt) => a \in returned \/ Expired(a)

\* Where no more alerts are written than a read may return, an alert of the current
\* log before the place where the next read resumes was returned or has left the
\* lookback window: without bursts the cursor of soc/store.py loses nothing at all.
THEOREM RoomLosesNothing ==
  ASSUME Calm, Roomy
  PROVE  Spec => []AllGiven
<1>1. NothingSkipped /\ TypeInv => AllGiven
  BY ReaderConstants, RoomForAll DEF NothingSkipped, Settled, AllGiven
<1>2. Init => TypeInv
  BY ReaderConstants, TypeInit
<1>3. TypeInv /\ [Next]_vars => TypeInv'
  BY ReaderConstants, TypeStep
<1>4. Spec => []NothingSkipped
  BY CursorLosesNothing
<1>5. QED
  BY <1>1, <1>2, <1>3, <1>4, PTL DEF Spec

\* An alert is returned a second time only by a read that started from nothing
\* or because its line had no newline the first time, however many alerts a
\* read finds: _start_offset and the rule that only a terminated line advances
\* the offset never hand the same line on twice.
THEOREM RereadsAreRare ==
  ASSUME Calm
  PROVE  Spec => ReturnedAgainForCause
<1>1. Init => TypeInv /\ ReaderInv
  BY ReaderConstants, TypeInit, ReaderInit
<1>2. TypeInv /\ ReaderInv /\ [Next]_vars => (TypeInv /\ ReaderInv)'
  BY ReaderConstants, TypeStep, ReaderStep
<1>3. TypeInv /\ ReaderInv /\ [Next]_vars =>
          [\A a \in returned : SaveAndReturn /\ a \in Newest(reader.batch)
                                => reader.start = 0 \/ a \in unended]_vars
  <2>1. SUFFICES ASSUME TypeInv, ReaderInv, NEW a \in returned, SaveAndReturn,
                        a \in Newest(reader.batch), reader.start # 0, a \notin unended
                 PROVE  FALSE
    OBVIOUS
  <2>2. /\ reader.start \in Nat /\ reader.start > 0 /\ a \in reader.batch
        /\ a \in Nat /\ file[reader.handle].base \in Nat
    BY <2>1, FileFacts, ReaderConstants
    DEF TypeInv, TypeOK, Reader, Newest, ReaderConstants, AlertIds
  <2>3. Reading
    BY <2>1 DEF ReaderInv, ReadInv, SaveAndReturn
  <2>4. /\ 3 * a <= file[reader.handle].base + reader.start
        /\ file[reader.handle].base + reader.start < 3 * a - 2
    BY <2>1, <2>2, <2>3 DEF Reading, Front
  <2>5. QED
    BY <2>2, <2>4
<1>4. QED
  BY <1>1, <1>2, <1>3, PTL DEF Spec, ReturnedAgainForCause
=============================================================================
