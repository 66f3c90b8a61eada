-------------------------------- MODULE LogFiles -------------------------------
(* The desktop's log (desktop/logging.go) and its export                    *)
(* (desktop/app_runtime.go).  A record goes to the base file; when it would *)
(* not fit, the writer closes the file, removes the oldest backup, renames  *)
(* each backup and the base to the next number, and opens a new base.       *)
(*                                                                          *)
(* The writer holds a mutex for the whole of Write, and one process writes  *)
(* (main.go lets a second instance only show the first one's window).  The  *)
(* export takes no lock: it reads the files, oldest first, while a rotation *)
(* moves them.  Any call on a file may fail, and the process may end between *)
(* two of them.                                                             *)
EXTENDS Integers, Sequences

CONSTANTS MaxBackups,    \* logFileMaxBackups, which is 3
          MaxBytes,      \* logFileMaxBytes
          RecordSizes,   \* the lengths of a record, some above MaxBytes
          MaxRecords,    \* records written
          MaxLogFailures \* calls on files that fail, and interrupted rotations

ASSUME LogFilesAssumption ==
    /\ MaxBackups \in Nat \ {0} /\ MaxBytes \in Nat
    /\ RecordSizes \subseteq Nat \ {0}
    /\ MaxRecords \in Nat /\ MaxLogFailures \in Nat

VARIABLES
    logFiles,    \* 0 is the base file, i its backup ".i"
    logHandle,   \* "none" (nil), "open", or "closed": closed and still not nil
    currentSize,
    rotation,    \* the number a rotation gives to the next file it moves
    waiting,     \* the length of the record that waits for the rotation
    accepted,    \* records written so far; the n-th is n
    logExport,   \* [at: the next file to read, seen: by Stat, read]
    logFailures

logVars == <<logFiles, logHandle, currentSize, rotation, waiting, accepted,
             logExport, logFailures>>
writerVars == <<logHandle, currentSize, rotation, waiting, accepted>>

NoStep == -1
FileNumbers == 0 .. MaxBackups

\* A missing file is told from an empty one by no step of the writer.
EmptyLog == [recs |-> <<>>, bytes |-> 0]
LogFile == [recs : Seq(Nat), bytes : Nat]

LogInit ==
    /\ logFiles = [i \in FileNumbers |-> EmptyLog]
    /\ logHandle = "open" /\ currentSize = 0
    /\ rotation = NoStep /\ waiting = 0 /\ accepted = 0
    /\ logExport = [at |-> NoStep, seen |-> FALSE, read |-> <<>>]
    /\ logFailures = 0

-----------------------------------------------------------------------------
(* Write, and the rotation it may start.                                    *)

Fails == logFailures < MaxLogFailures /\ logFailures' = logFailures + 1

\* What openCurrent finds: the size of the file, unless it is open already.
SizeAtWrite == IF logHandle = "none" THEN logFiles[0].bytes ELSE currentSize
Fits(size, len) == size = 0 \/ size + len <= MaxBytes

\* A write on a handle that a failed Close left behind changes nothing.
CanWrite(len) ==
    /\ rotation = NoStep /\ logHandle # "closed"
    /\ len \in RecordSizes /\ accepted < MaxRecords

Appended(file, len) == [recs |-> Append(file.recs, accepted + 1), bytes |-> file.bytes + len]

AppendRecord(len) ==
    /\ CanWrite(len) /\ Fits(SizeAtWrite, len)
    /\ logFiles' = [logFiles EXCEPT ![0] = Appended(logFiles[0], len)]
    /\ logHandle' = "open" /\ currentSize' = SizeAtWrite + len
    /\ accepted' = accepted + 1
    /\ UNCHANGED <<rotation, waiting, logExport, logFailures>>

\* The disk takes a part of the record and refuses the rest.
TearRecord(len, part) ==
    /\ CanWrite(len) /\ Fits(SizeAtWrite, len) /\ part \in 0 .. len - 1
    /\ Fails
    /\ logFiles' = [logFiles EXCEPT ![0] = [recs |-> logFiles[0].recs,
                                            bytes |-> logFiles[0].bytes + part]]
    /\ logHandle' = "open" /\ currentSize' = SizeAtWrite + part
    /\ UNCHANGED <<rotation, waiting, accepted, logExport>>

StartRotation(len) ==
    /\ CanWrite(len) /\ ~Fits(SizeAtWrite, len)
    /\ logHandle' = "none" /\ currentSize' = 0
    /\ rotation' = MaxBackups + 1 /\ waiting' = len
    /\ UNCHANGED <<logFiles, accepted, logExport, logFailures>>

\* rotate returns before it forgets the file, so that every later write is
\* one on a closed file, until Close or the next start.
FailToClose(len) ==
    /\ CanWrite(len) /\ ~Fits(SizeAtWrite, len)
    /\ Fails
    /\ logHandle' = "closed" /\ currentSize' = SizeAtWrite
    /\ UNCHANGED <<logFiles, rotation, waiting, accepted, logExport>>

\* File n takes the number n + 1; the oldest backup is removed.
Shifted(n) ==
    [i \in FileNumbers |->
        IF i = n THEN EmptyLog
        ELSE IF i = n + 1 /\ logFiles[n] # EmptyLog THEN logFiles[n]
        ELSE logFiles[i]]

MoveFile ==
    /\ rotation > 0
    /\ logFiles' = Shifted(rotation - 1)
    /\ rotation' = rotation - 1
    /\ UNCHANGED <<logHandle, currentSize, waiting, accepted, logExport, logFailures>>

\* Mutant of AbandonRotation: a rename that fails is passed over.
SkipFailedMove ==
    /\ rotation > 0
    /\ Fails
    /\ rotation' = rotation - 1
    /\ UNCHANGED <<logFiles, logHandle, currentSize, waiting, accepted, logExport>>

\* The step fails, or the new file does not open: the record is dropped, and
\* the next one starts the rotation again from its removal.
AbandonRotation ==
    /\ rotation >= 0
    /\ Fails
    /\ rotation' = NoStep /\ waiting' = 0
    /\ UNCHANGED <<logFiles, logHandle, currentSize, accepted, logExport>>

FinishRotation ==
    /\ rotation = 0
    /\ logFiles' = [logFiles EXCEPT ![0] = Appended(logFiles[0], waiting)]
    /\ logHandle' = "open" /\ currentSize' = logFiles[0].bytes + waiting
    /\ accepted' = accepted + 1
    /\ rotation' = NoStep /\ waiting' = 0
    /\ UNCHANGED <<logExport, logFailures>>

\* At shutdown; a record logged later opens the file again.
CloseLog ==
    /\ rotation = NoStep /\ logHandle # "none"
    /\ logHandle' = "none" /\ currentSize' = 0
    /\ UNCHANGED <<logFiles, rotation, waiting, accepted, logExport, logFailures>>

\* The process ends, perhaps amid a rotation or an export, and starts again.
RestartLog ==
    /\ IF rotation = NoStep THEN UNCHANGED logFailures ELSE Fails
    /\ logHandle' = "open" /\ currentSize' = logFiles[0].bytes
    /\ rotation' = NoStep /\ waiting' = 0
    /\ logExport' = [at |-> NoStep, seen |-> FALSE, read |-> <<>>]
    /\ UNCHANGED <<logFiles, accepted>>

-----------------------------------------------------------------------------
(* exportRotatedLogs: a Stat and a ReadFile for each of                     *)
(* collectRotatedLogPaths.                                                  *)

OldestFirst == MaxBackups
NextPath(at) == at - 1

ExportLogs ==
    /\ logExport.at = NoStep
    /\ logExport' = [at |-> OldestFirst, seen |-> FALSE, read |-> <<>>]
    /\ UNCHANGED <<logFiles, writerVars, logFailures>>

StatLog ==
    /\ logExport.at # NoStep /\ ~logExport.seen
    /\ logExport' = IF logFiles[logExport.at] = EmptyLog
                    THEN [at |-> NextPath(logExport.at), seen |-> FALSE, read |-> logExport.read]
                    ELSE [at |-> logExport.at, seen |-> TRUE, read |-> logExport.read]
    /\ UNCHANGED <<logFiles, writerVars, logFailures>>

\* What it reads may be another file than the one it saw.
ReadLog ==
    /\ logExport.at # NoStep /\ logExport.seen
    /\ logExport' = [at |-> NextPath(logExport.at), seen |-> FALSE,
                     read |-> logExport.read \o logFiles[logExport.at].recs]
    /\ UNCHANGED <<logFiles, writerVars, logFailures>>

\* The file it saw has been moved away.
MissLog ==
    /\ logExport.at # NoStep /\ logExport.seen /\ logFiles[logExport.at] = EmptyLog
    /\ logExport' = [at |-> NoStep, seen |-> FALSE, read |-> logExport.read]
    /\ UNCHANGED <<logFiles, writerVars, logFailures>>

LogNext ==
    \/ \E len \in RecordSizes :
          \/ AppendRecord(len) \/ StartRotation(len) \/ FailToClose(len)
          \/ \E part \in 0 .. len - 1 : TearRecord(len, part)
    \/ MoveFile \/ AbandonRotation \/ FinishRotation
    \/ CloseLog \/ RestartLog
    \/ ExportLogs \/ StatLog \/ ReadLog \/ MissLog

LogSpec == LogInit /\ [][LogNext]_logVars

-----------------------------------------------------------------------------
LogTypeOK ==
    /\ logFiles \in [FileNumbers -> LogFile]
    /\ logHandle \in {"none", "open", "closed"}
    /\ currentSize \in Nat /\ waiting \in Nat /\ accepted \in Nat /\ logFailures \in Nat
    /\ rotation \in -1 .. MaxBackups + 1
    /\ logExport \in [at : -1 .. MaxBackups, seen : BOOLEAN, read : Seq(Nat)]

InFile(i, n) == \E k \in 1 .. Len(logFiles[i].recs) : logFiles[i].recs[k] = n
Kept(n) == \E i \in FileNumbers : InFile(i, n)
Increasing(s) == \A j, k \in 1 .. Len(s) : j < k => s[j] < s[k]

\* Within a file and from an older file to a newer one the records are in
\* the order of the calls.
InCallOrder ==
    /\ \A i \in FileNumbers : Increasing(logFiles[i].recs)
    /\ \A i, j \in FileNumbers, m, n \in 1 .. accepted :
          i < j /\ InFile(i, m) /\ InFile(j, n) => n < m

\* The newest records are the ones kept: none is missing after one that is.
NoGap == \A m, n \in 1 .. accepted : Kept(m) /\ m <= n => Kept(n)

\* While no call fails, a record is given up only for room: every backup is
\* in use.
LostForRoom ==
    logFailures = 0 /\ rotation = NoStep /\ (\E n \in 1 .. accepted : ~Kept(n)) =>
        \A i \in 1 .. MaxBackups : logFiles[i].recs # <<>>

\* A file passes the limit only with one record that alone is longer.
LogBounded == \A i \in FileNumbers : logFiles[i].bytes <= MaxBytes \/ Len(logFiles[i].recs) <= 1

\* The log files keep the latest records, whole and in the order they were
\* logged, through rotations that fail or are cut short at any step; and an
\* export that reads them meanwhile never repeats a record or takes one
\* before an older one, though it may miss those of a file that moved past it.
LogsInOrder ==
    /\ InCallOrder /\ NoGap /\ LostForRoom /\ LogBounded
    /\ Increasing(logExport.read)
=============================================================================
