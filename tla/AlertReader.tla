---------------------------- MODULE AlertReader ----------------------------
(***************************************************************************)
(* WazuhAlertJsonReader of soc/wazuh_client.py: the daemon's reader of the *)
(* alerts.json log that the Wazuh manager appends to and rotates while it  *)
(* is read, and the ingest cursor of soc/store.py that lets a read resume  *)
(* where the last one stopped.                                             *)
(*                                                                         *)
(* The bytes of the log are numbered in the order they are written.  Every *)
(* alert is one line of three pieces: the first half of its JSON text, the *)
(* second half, and the newline; piece 3a is the newline of alert a.  Since*)
(* a file only ever grows at its end, it is an interval of pieces: those   *)
(* after number base.  An offset into a file counts pieces from there.     *)
(***************************************************************************)
EXTENDS Naturals, FiniteSets, FiniteSetsExt

CONSTANTS
    Alerts,         \* how many alerts the manager writes
    Time,           \* the timestamp of each
    Relevant,       \* those that parse and reach the minimum rule level
    Limit,          \* the most alerts one read returns
    Window,         \* FINGERPRINT_BYTES, in pieces
    Files,          \* file identities (device and inode)
    Pieces,         \* how many pieces one write may add
    Rotations,      \* ways of rotation in use: "rename", "truncate"
    MaxRotations,   \* bound on the rotations of a behaviour
    Races,          \* what the manager may do while a read is under way:
                    \* "append", "line" (append whole lines only), "rename",
                    \* "truncate"
    MaxFailures     \* bound on the reads of a behaviour that fail

Missing == "missing"

VARIABLES
    \* The log, external to the program:
    file,       \* [Files -> [base, size]]: the pieces base+1 .. base+size
    path,       \* the file that alerts.json names now, or Missing
    written,    \* how many pieces have been written
    horizon,    \* alerts up to this timestamp are outside the lookback
    rotations,  \* how many rotations there have been
    \* The program:
    cursor,     \* the row of ingest_cursors for the log, or NoCursor
    reader,     \* the read under way
    failures,   \* how many reads failed
    \* What has happened so far, for the properties only:
    returned,   \* alerts read_recent_alerts has returned
    unended     \* those among them last read without their newline

log == <<file, path, written, horizon, rotations>>
vars == <<log, cursor, reader, failures, returned, unended>>

AlertIds == 1 .. Alerts
Bytes == 3 * Alerts
FileState == [base : 0 .. Bytes, size : 0 .. Bytes]

\* A fingerprint is the leading pieces themselves (the digest is taken to be
\* injective); size 0 is the None of a file that is empty or cannot be read.
Fingerprint == FileState
AnyFile == CHOOSE f \in Files : TRUE
Cursor == [offset : 0 .. Bytes, identity : Files, head : Fingerprint]

\* A source without a row reads from the start, as a row with offset 0 does.
NoCursor == [offset |-> 0, identity |-> AnyFile,
             head |-> [base |-> 0, size |-> 0]]

Reader == [pc : {"idle", "check", "open", "read", "save"},
           identity : Files,   \* from the stat taken before the read
           since : Nat,        \* the lookback horizon of this read
           start : 0 .. Bytes, \* where it started
           offset : 0 .. Bytes,\* just past the last terminated line
           pos : 0 .. Bytes,   \* position of the file handle
           handle : Files,     \* the file that was opened
           batch : SUBSET AlertIds, open : SUBSET AlertIds]

ASSUME ReaderConstants ==
    /\ Alerts \in Nat /\ Time \in [AlertIds -> Nat \ {0}]
    /\ Relevant \subseteq AlertIds
    /\ Limit \in Nat \ {0} /\ Window \in Nat \ {0}
    /\ Missing \notin Files /\ Files # {}
    /\ MaxRotations \in Nat /\ MaxFailures \in Nat
    /\ Pieces \subseteq {1, 2, 3}

IdleReader == [pc |-> "idle", identity |-> AnyFile, since |-> 0, start |-> 0,
               offset |-> 0, pos |-> 0, handle |-> AnyFile,
               batch |-> {}, open |-> {}]

Least(m, n) == IF m <= n THEN m ELSE n

\* _fingerprint_head of the file that the path names
HeadOfPath(length) ==
    IF path = Missing \/ length = 0 THEN [base |-> 0, size |-> 0]
    ELSE LET size == Least(length, file[path].size)
         IN  [base |-> IF size = 0 THEN 0 ELSE file[path].base, size |-> size]

-----------------------------------------------------------------------------
(* The lines of a file.                                                    *)

LineOf(piece) == (piece + 2) \div 3
LineEnd(piece) == 3 * LineOf(piece)

\* The line a handle reads at a position, up to its newline or the end.
RawLine(f, pos) ==
    LET first == file[f].base + pos + 1
        eof == file[f].base + file[f].size
    IN  [first |-> first, last |-> Least(LineEnd(first), eof),
         terminated |-> LineEnd(first) <= eof]

\* json.loads succeeds on exactly the lines that hold the whole text.
Parses(line) ==
    /\ line.first = 3 * LineOf(line.first) - 2
    /\ line.last >= line.first + 1

LevelIgnored(line, since) ==
    {a \in {LineOf(line.first)} : Parses(line) /\ Time[a] > since}

\* The alert of a line if it passes the filters of the loop, as a set.
Kept(line, since) ==
    {a \in {LineOf(line.first)} \cap Relevant : Parses(line) /\ Time[a] > since}

\* alerts.sort(...) is stable: alerts of the same time stay in their order.
Newer(b, a) == Time[b] > Time[a] \/ (Time[b] = Time[a] /\ b > a)

OldestKept(batch) ==
    {a \in batch : Cardinality({b \in batch : Newer(a, b)}) < Limit}

\* alerts[-limit:]
Newest(batch) ==
    {a \in batch : Cardinality({b \in batch : Newer(b, a)}) < Limit}

-----------------------------------------------------------------------------
Init ==
    /\ file = [f \in Files |-> [base |-> 0, size |-> 0]]
    /\ path = AnyFile
    /\ written = 0 /\ horizon = 0 /\ rotations = 0
    /\ cursor = NoCursor /\ reader = IdleReader /\ failures = 0
    /\ returned = {} /\ unended = {}

Idle == reader.pc = "idle"
May(what) == Idle \/ what \in Races

(* ---- the manager ---- *)

\* The next pieces of the current line are appended.
Append(n) ==
    /\ May("append") \/ (May("line") /\ n = 3)
    /\ path # Missing
    /\ written + n <= LineEnd(written + 1) /\ written + n <= Bytes
    /\ written' = written + n
    /\ file' = [file EXCEPT ![path].size = @ + n]
    /\ UNCHANGED <<path, horizon, rotations, cursor, reader, failures,
                   returned, unended>>

\* Rotation by renaming, between lines; the new file comes a moment later.
\* The identity of a file that was removed may be reused for it.
\* One that races a read is the last rotation of a behaviour (a bound): two
\* within one poll interval that reuse an identity are not told apart.
Rename ==
    /\ "rename" \in Rotations /\ May("rename") /\ rotations < MaxRotations
    /\ path # Missing /\ file[path].size > 0
    /\ written = LineEnd(written)
    /\ path' = Missing
    /\ rotations' = IF Idle THEN rotations + 1 ELSE MaxRotations
    /\ UNCHANGED <<file, written, horizon, cursor, reader, failures,
                   returned, unended>>

\* The last file renamed is the one that ends where the log does.
Create(f) ==
    /\ May("rename")
    /\ path = Missing
    /\ file[f].base + file[f].size # written
    /\ Idle \/ f # reader.handle
    /\ path' = f
    /\ file' = [file EXCEPT ![f] = [base |-> written, size |-> 0]]
    /\ UNCHANGED <<written, horizon, rotations, cursor, reader, failures,
                   returned, unended>>

\* copytruncate: the same file starts again from nothing.
Truncate ==
    /\ "truncate" \in Rotations /\ May("truncate") /\ rotations < MaxRotations
    /\ path # Missing
    /\ file[path].size > 0
    /\ file' = [file EXCEPT ![path] = [base |-> written, size |-> 0]]
    /\ rotations' = rotations + 1
    /\ UNCHANGED <<path, written, horizon, cursor, reader, failures,
                   returned, unended>>

\* Time passes: the oldest alerts leave the lookback window.
Age ==
    /\ \E a \in AlertIds : 3 * a <= written /\ Time[a] = horizon + 1
    /\ horizon' = horizon + 1
    /\ UNCHANGED <<file, path, written, rotations, cursor, reader, failures,
                   returned, unended>>

(* ---- read_recent_alerts ---- *)

Reads(state) == reader' = state
Opens(start) == [reader EXCEPT !.pc = "open", !.start = start]

\* The path is checked and statted, and _start_offset compares the stored
\* cursor with that stat.  A missing file is an error that changes nothing.
Begin ==
    /\ Idle
    /\ path # Missing
    /\ LET same == cursor.identity = path
           valid == same /\ file[path].size >= cursor.offset
           started == [IdleReader EXCEPT
               !.identity = path, !.since = horizon,
               !.start = IF valid THEN cursor.offset ELSE 0]
       IN  Reads([started EXCEPT
               !.pc = IF valid /\ cursor.head.size > 0 THEN "check"
                                                       ELSE "open"])
    /\ UNCHANGED <<log, cursor, failures, returned, unended>>

\* _fingerprint_matches: the path is opened and its head compared.
CheckFingerprint ==
    /\ reader.pc = "check"
    /\ Reads(Opens(IF HeadOfPath(cursor.head.size) = cursor.head
                   THEN reader.start ELSE 0))
    /\ UNCHANGED <<log, cursor, failures, returned, unended>>

\* Mutants are named for the mistake they make.
OffsetFromZero ==
    /\ reader.pc = "open"
    /\ Reads(IF path = Missing THEN IdleReader
             ELSE [reader EXCEPT !.pc = "read", !.handle = path,
                       !.pos = reader.start, !.offset = 0])
    /\ UNCHANGED <<log, cursor, failures, returned, unended>>

Open ==
    /\ reader.pc = "open"
    /\ Reads(IF path = Missing THEN IdleReader   \* FileNotFoundError
             ELSE [reader EXCEPT !.pc = "read", !.handle = path,
                       !.pos = reader.start, !.offset = reader.start])
    /\ UNCHANGED <<log, cursor, failures, returned, unended>>

\* Where a line that was read leaves the handle and the alerts found so far.
Consumed(line, offset) ==
    LET kept == Kept(line, reader.since)
        pos == line.last - file[reader.handle].base
    IN  [reader EXCEPT
            !.pos = pos, !.offset = offset, !.batch = @ \cup kept,
            !.open = IF line.terminated THEN @ \ kept ELSE @ \cup kept]

UnterminatedLineConsumed ==
    /\ reader.pc = "read"
    /\ reader.pos < file[reader.handle].size
    /\ LET line == RawLine(reader.handle, reader.pos)
       IN  Reads(Consumed(line, reader.offset + line.last - line.first + 1))
    /\ UNCHANGED <<log, cursor, failures, returned, unended>>

\* One turn of the loop over the file.  Only a terminated line advances the
\* offset; at the end of the file the iterator may still return more later.
ReadLine ==
    /\ reader.pc = "read"
    /\ reader.pos < file[reader.handle].size
    /\ LET line == RawLine(reader.handle, reader.pos)
           length == line.last - line.first + 1
       IN  Reads(Consumed(line, IF line.terminated THEN reader.offset + length
                                                   ELSE reader.offset))
    /\ UNCHANGED <<log, cursor, failures, returned, unended>>

EndOfFile ==
    /\ reader.pc = "read"
    /\ reader.pos >= file[reader.handle].size
    /\ Reads([reader EXCEPT !.pc = "save"])
    /\ UNCHANGED <<log, cursor, failures, returned, unended>>

Return ==
    /\ returned' = returned \cup Newest(reader.batch)
    /\ unended' = (unended \ Newest(reader.batch))
                      \cup (Newest(reader.batch) \cap reader.open)

StatAfterRead ==
    /\ reader.pc = "save" /\ path # Missing
    /\ cursor' = [offset |-> reader.offset, identity |-> path,
                  head |-> HeadOfPath(Window)]
    /\ Return
    /\ Reads(IdleReader)
    /\ UNCHANGED <<log, failures>>

\* _save_offset, with the stat from before the read and a fingerprint taken
\* now; then the newest alerts are returned.
SaveAndReturn ==
    /\ reader.pc = "save"
    /\ cursor' = [offset |-> reader.offset, identity |-> reader.identity,
                  head |-> HeadOfPath(Window)]
    /\ Return
    /\ Reads(IdleReader)
    /\ UNCHANGED <<log, failures>>

\* An exception (the daemon survives it) or a restart ends the read.
Fail ==
    /\ ~Idle
    /\ failures < MaxFailures
    /\ failures' = failures + 1
    /\ Reads(IdleReader)
    /\ UNCHANGED <<log, cursor, returned, unended>>

-----------------------------------------------------------------------------
Manager ==
    \/ \E n \in Pieces : Append(n)
    \/ Rename
    \/ \E f \in Files : Create(f)
    \/ Truncate
    \/ Age

Read == Begin \/ CheckFingerprint \/ Open \/ ReadLine \/ EndOfFile
            \/ SaveAndReturn

Next == Manager \/ Read \/ Fail

\* The daemon polls for ever and a read needs nobody else to go on.
Spec == Init /\ [][Next]_vars /\ WF_vars(Read)

-----------------------------------------------------------------------------
TypeOK ==
    /\ file \in [Files -> FileState]
    /\ path \in Files \cup {Missing}
    /\ written \in 0 .. Bytes /\ horizon \in Nat
    /\ rotations \in 0 .. MaxRotations
    /\ cursor \in Cursor /\ reader \in Reader
    /\ failures \in 0 .. MaxFailures
    /\ returned \subseteq Relevant /\ unended \subseteq returned

\* Where a read that began now would start.
ResumeAt ==
    IF /\ path = cursor.identity
       /\ file[path].size >= cursor.offset
       /\ cursor.head.size > 0 =>
              HeadOfPath(cursor.head.size) = cursor.head
    THEN cursor.offset ELSE 0

\* The alerts of the file a, and those of them that begin before a position.
InFile(a) == /\ path # Missing
             /\ 3 * a - 2 > file[path].base /\ 3 * a <= written
BeginsBefore(a, pos) == 3 * a - 2 <= file[path].base + pos

Expired(a) == Time[a] <= horizon

\* At least as many newer alerts of the same file as one read may return have
\* been returned.
Crowded(a, base) ==
    Cardinality({b \in returned : 3 * b - 2 > base /\ Newer(b, a)}) >= Limit

\* An alert of the file that begins after base that need not be returned any more
Settled(a, base) == a \in returned \/ Expired(a) \/ Crowded(a, base)

\* No alert of the current alerts.json that begins before the place where the
\* next read resumes has been missed: each of them was returned, had left the
\* lookback window, or was among the oldest of a burst above the limit.  This
\* is what the cursor, the rotation, truncation and rewrite checks and the rule
\* for unterminated lines are for; when a read finds more than it may return,
\* its cursor moves past all of it, and what that costs is the oldest only.
NothingSkipped ==
    Idle => \A a \in Relevant :
        InFile(a) /\ BeginsBefore(a, ResumeAt) => Settled(a, file[path].base)

\* An alert is returned a second time only for a reason the reader knows of:
\* its cursor had been reset, or the alert's line had no newline yet when it
\* was first returned.  The deduplication after the reader relies on the
\* rereads staying that rare.
ReturnedAgainForCause ==
    [][\A a \in returned :
        SaveAndReturn /\ a \in Newest(reader.batch)
        => reader.start = 0 \/ a \in unended]_vars

\* Every alert of the current file is returned in the end, unless newer ones
\* crowd it out, it leaves the lookback window or it is rotated away first: no
\* state of the cursor makes the daemon stop at a place in the file for ever.
EventuallyReturned ==
    \A a \in Relevant :
        InFile(a) ~> (~InFile(a) \/ Settled(a, file[path].base))
=============================================================================
