------------------------------ MODULE DiskLog ------------------------------
(***************************************************************************)
(* DiskLog serves the files maintner-YYYY-MM-DD.mutlog of a directory as   *)
(* numbered segments, one file per day on which something was logged.  In  *)
(* writer mode it logs itself, through a DiskMutationLogger.  In watcher   *)
(* mode another process does, and DiskLog polls the directory.             *)
(*                                                                         *)
(* Files are numbered in lexical order, which is the order of their days.  *)
(* A record is one unit of size, written whole or not at all, and a        *)
(* SHA-224 is the content it was computed from.  The state kept in memory  *)
(* is what the index handler shows; while the process is down, it is what  *)
(* was shown last.                                                         *)
(*                                                                         *)
(* Three things make the index another one than the directory's until the  *)
(* next scan, and slips records that they happened: a Log call over which  *)
(* the date changes, a day's last records that no poll has seen when the   *)
(* next day's file is found, and a poll that fails after it froze a        *)
(* segment.  A fourth, a record that is counted and could not be written,  *)
(* ends the process.                                                       *)
(***************************************************************************)
EXTENDS Naturals, Sequences, SequencesExt

CONSTANTS
  Modes,          \* a subset of {"writer", "watcher"}
  Mutation,       \* the mutations that may be logged
  MaxRecords,     \* bound: records logged
  MaxFiles,       \* bound: days on which something is logged
  MaxDiskFaults   \* bound: restarts of the process that serves, and failed polls and logs

ASSUME DiskLogAssumption ==
  /\ Modes \subseteq {"writer", "watcher"}
  /\ MaxRecords \in Nat /\ MaxFiles \in Nat /\ MaxDiskFaults \in Nat

VARIABLES
  mode,     \* the member of Modes that this process was started in
  files,    \* files[i]: the content of the i-th file
  newDay,   \* the present day has no file yet
  stage,    \* "start", "scan", "up", "logging" or "writing" (in Log, with the mutex
            \* held), "dying" (the record could not be written)
  listed,   \* how many files the scan or poll under way found, 0 outside of them
  planned,  \* newFile in Log: the file it expects the record in, 0 if no file has that name
  segs,     \* dl.segs, size and sha224: the contents of the frozen segments as hashed
  segFile,  \* dl.segs, file: the files they are in
  cur,      \* dl.curHash and dl.curSize
  curFile,  \* dl.curFile, 0 if no file has that name
  open,     \* dl.curFile # ""
  slips,    \* what has happened to this index since the last scan
  faults

index == <<segs, segFile, cur, curFile, open>>
diskVars == <<mode, files, newDay, stage, listed, planned, index, slips, faults>>

DiskInit ==
  /\ mode \in Modes
  /\ files = <<>> /\ newDay = TRUE
  /\ stage = "start" /\ listed = 0 /\ planned = 0
  /\ segs = <<>> /\ segFile = <<>> /\ cur = <<>> /\ curFile = 0 /\ open = FALSE
  /\ slips = {}
  /\ faults = 0

OnDisk == FlattenSeq(files)
Full == Len(OnDisk) >= MaxRecords

\* The file of the present day.
Today == IF newDay THEN Len(files) + 1 ELSE Len(files)

\* The segments the index lists: the growing one only if it is not empty.
Listed == IF cur # <<>> THEN Append(segs, cur) ELSE segs
DiskServed == FlattenSeq(Listed)

\* The file that serveLogFile opens for a segment.
FileFor(i) == IF i <= Len(segs) THEN segFile[i] ELSE curFile

\* AppendRecordToFile, its OpenFile with O_CREATE; its Write.
Created == IF newDay THEN Append(files, <<>>) ELSE files
Written(dir, r) == [dir EXCEPT ![Len(dir)] = Append(@, r)]

\* The names of the files m to n.
Names(m, n) == [i \in 1..(n + 1 - m) |-> m - 1 + i]

-----------------------------------------------------------------------------
\* scan: list the directory.
Scan ==
  /\ stage = "start"
  /\ stage' = "scan" /\ listed' = Len(files)
  /\ UNCHANGED <<mode, files, newDay, planned, index, slips, faults>>

\* Mutant: the growing segment is taken to be empty.
ScanReadFrozenOnly ==
  /\ stage = "scan"
  /\ segs' = SubSeq(files, 1, listed - 1) /\ segFile' = Names(1, listed - 1)
  /\ cur' = <<>> /\ curFile' = listed /\ open' = (listed # 0)
  /\ stage' = "up" /\ listed' = 0 /\ slips' = {}
  /\ UNCHANGED <<mode, files, newDay, planned, faults>>

\* scan: hash the files found; the last one is the growing segment.  A scan that fails
\* ends the process (NewDiskLog's error).
ScanRead ==
  /\ stage = "scan"
  /\ segs' = SubSeq(files, 1, listed - 1) /\ segFile' = Names(1, listed - 1)
  /\ cur' = (IF listed = 0 THEN <<>> ELSE files[listed])
  /\ curFile' = listed /\ open' = (listed # 0)
  /\ stage' = "up" /\ listed' = 0 /\ slips' = {}
  /\ UNCHANGED <<mode, files, newDay, planned, faults>>

\* The process dies, wherever it is, and starts again.
Restart ==
  /\ faults < MaxDiskFaults /\ stage # "start"
  /\ stage' = "start" /\ listed' = 0 /\ planned' = 0
  /\ faults' = faults + 1
  /\ UNCHANGED <<mode, files, newDay, index, slips>>

\* The date changes, at any moment.  A day that had no file has none for good, also if
\* Log has computed its name already.
Midnight ==
  /\ Len(files) < MaxFiles
  /\ \/ ~newDay /\ newDay' = TRUE /\ UNCHANGED planned
     \/ newDay /\ stage = "logging" /\ planned' = 0 /\ UNCHANGED newDay
  /\ UNCHANGED <<mode, files, stage, listed, index, slips, faults>>

-----------------------------------------------------------------------------
\* Log, writer mode: the mutex is taken, the name of today's file computed.
LogBegin ==
  /\ mode = "writer" /\ stage = "up" /\ ~Full
  /\ planned' = Today
  /\ stage' = "logging"
  /\ UNCHANGED <<mode, files, newDay, listed, index, slips, faults>>

\* The inner logger computes the name again, and opens that file or creates it.
LogOpen ==
  /\ stage = "logging"
  /\ files' = Created /\ newDay' = FALSE
  /\ slips' = IF planned = Today THEN slips ELSE slips \union {"straddled"}
  /\ stage' = "writing"
  /\ UNCHANGED <<mode, listed, planned, index, faults>>

\* Mutant: a new day's first record does not freeze the segment before.
CountsWithoutRollover(r) ==
  /\ cur' = Append(cur, r)
  /\ curFile' = planned /\ open' = TRUE
  /\ UNCHANGED <<segs, segFile>>

\* Log: sizes and sums are those of before plus the record, in a new segment if the
\* name was another one.
Counts(r) ==
  /\ IF open /\ planned # curFile
       THEN segs' = Append(segs, cur) /\ segFile' = Append(segFile, curFile) /\ cur' = <<r>>
       ELSE cur' = Append(cur, r) /\ UNCHANGED <<segs, segFile>>
  /\ curFile' = planned /\ open' = TRUE

\* Log: the record is written.  Broadcast, and the mutex is released.
LogWrite ==
  /\ stage = "writing"
  /\ \E r \in Mutation : files' = Written(files, r) /\ Counts(r)
  /\ stage' = "up" /\ planned' = 0
  /\ UNCHANGED <<mode, newDay, listed, slips, faults>>

\* The inner logger's error: the record was counted, the mutex is released, and
\* addMutation ends the process (log.Fatalf).
LogFails ==
  /\ stage \in {"logging", "writing"} /\ faults < MaxDiskFaults
  /\ \E r \in Mutation : Counts(r)
  /\ slips' = slips \union {"unwritten"}
  /\ stage' = "dying" /\ planned' = 0
  /\ faults' = faults + 1
  /\ UNCHANGED <<mode, files, newDay, listed>>

Dies ==
  /\ stage = "dying"
  /\ stage' = "start"
  /\ UNCHANGED <<mode, files, newDay, listed, planned, index, slips, faults>>

-----------------------------------------------------------------------------
\* Watcher mode: the other process opens today's file for appending, and writes; the
\* day may have ended since it opened the file.
WriterCreates ==
  /\ mode = "watcher" /\ newDay /\ ~Full
  /\ files' = Created /\ newDay' = FALSE
  /\ UNCHANGED <<mode, stage, listed, planned, index, slips, faults>>

WriterAppends ==
  /\ mode = "watcher" /\ files # <<>> /\ ~Full
  /\ \E r \in Mutation : files' = Written(files, r)
  /\ UNCHANGED <<mode, newDay, stage, listed, planned, index, slips, faults>>

\* poll: list the directory, the mutex not taken yet.
Poll ==
  /\ mode = "watcher" /\ stage = "up" /\ listed = 0 /\ files # <<>>
  /\ listed' = Len(files)
  /\ UNCHANGED <<mode, files, newDay, stage, planned, index, slips, faults>>

Expected == IF open THEN Len(segs) + 1 ELSE Len(segs)

\* poll, more files than before: the growing segment is frozen as it was hashed, and
\* the files after it, up to the n-th, are hashed and frozen too.
Freezes(n) ==
  LET old     == IF open THEN Append(segs, cur) ELSE segs
      oldFile == IF open THEN Append(segFile, curFile) ELSE segFile
  IN  /\ segs' = old \o SubSeq(files, Expected + 1, n)
      /\ segFile' = oldFile \o Names(Expected + 1, n)

\* poll: the last file is the new growing segment.
PollNewFiles ==
  /\ stage = "up" /\ listed > Expected
  /\ Freezes(listed - 1)
  /\ cur' = files[listed] /\ curFile' = listed /\ open' = TRUE
  /\ listed' = 0
  /\ slips' = IF open /\ cur # files[curFile] THEN slips \union {"short"} ELSE slips
  /\ UNCHANGED <<mode, files, newDay, stage, planned, faults>>

\* poll: one of the new files cannot be read.  What was frozen until then stays, and so
\* does the growing segment, which is then listed twice.  A poll that fails before that
\* changes nothing.
PollFails ==
  /\ stage = "up" /\ listed > Expected /\ faults < MaxDiskFaults
  /\ \E n \in Expected..(listed - 1) : Freezes(n)
  /\ listed' = 0
  /\ slips' = IF open THEN slips \union {"halfway"} ELSE slips
  /\ faults' = faults + 1
  /\ UNCHANGED <<mode, files, newDay, stage, planned, cur, curFile, open>>

\* Mutant: only new files are looked for.
PollNoGrowth ==
  /\ stage = "up" /\ 0 < listed /\ listed <= Expected
  /\ listed' = 0
  /\ UNCHANGED <<mode, files, newDay, stage, planned, index, slips, faults>>

\* poll: the growing segment's file may have grown.
PollGrowth ==
  /\ stage = "up" /\ 0 < listed /\ listed <= Expected
  /\ LET now == files[curFile]
     IN  cur' = cur \o SubSeq(now, Len(cur) + 1, Len(now))
  /\ listed' = 0
  /\ UNCHANGED <<mode, files, newDay, stage, planned, segs, segFile, curFile, open, slips, faults>>

-----------------------------------------------------------------------------
Server ==
  \/ Scan \/ ScanRead \/ LogOpen \/ LogWrite \/ Dies
  \/ Poll \/ PollNewFiles \/ PollGrowth

DiskNext ==
  \/ Server \/ Restart \/ Midnight
  \/ LogBegin \/ LogFails \/ PollFails
  \/ WriterCreates \/ WriterAppends

DiskSpec == DiskInit /\ [][DiskNext]_diskVars

\* The process starts, ends the Log calls it began, and polls as long as it is up.
\* Nothing is assumed of the other process, of what is logged, of the date, or of faults.
FairDiskSpec == DiskSpec /\ WF_diskVars(Server)

-----------------------------------------------------------------------------
\* What the index lists can be downloaded with the sum it lists: each segment is the
\* beginning of the file that serveLogFile opens for its number, also while somebody
\* appends to that file, after a poll that failed, and with records no poll has seen.
\* The exceptions are Log's: a call over which the date changed has counted its record
\* into a file that does not get it, and an unwritten record is in none.
IndexIsOnDisk ==
  slips \intersect {"straddled", "unwritten"} = {} =>
    \A i \in 1..Len(Listed) :
      FileFor(i) \in 1..Len(files) /\ IsPrefix(Listed[i], files[FileFor(i)])

\* What was listed once stays: the log that is served only grows, and a frozen segment
\* ("immutable segments that will never change") is frozen with the same sum for good.
\* Across a restart that holds if the index of before had no slip; if it had one, the
\* scan corrects it, and followers of that index find their past missing.
ServedOnlyGrows ==
  [][stage # "scan" \/ slips = {}
       => IsPrefix(DiskServed, DiskServed') /\ IsPrefix(segs, segs')]_diskVars

\* Once nothing more is written, everything written is served ("polls the filesystem
\* for changes made by an external writer"), unless a poll froze a segment short of its
\* file or failed halfway and nobody has restarted the process since.
EverythingIsServed ==
  <>[](slips \intersect {"short", "halfway"} = {} => DiskServed = OnDisk)
=============================================================================
