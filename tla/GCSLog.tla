------------------------------- MODULE GCSLog -------------------------------
(***************************************************************************)
(* GCSLog keeps the log as objects NNNN.<sha224>.mutlog of a bucket and    *)
(* buffers the newest segment in memory.  The buffer is uploaded when it   *)
(* is full and, by a timer, some time after a record was added to it; an   *)
(* upload of more of a segment is a new object, and the old one is deleted *)
(* afterwards, or is left behind.  The process may die at any point; the   *)
(* next one takes up what the bucket has.                                  *)
(*                                                                         *)
(* A SHA-224 is the content it was computed from.  The memory of a process *)
(* that has died is kept in the model until the next one has loaded.       *)
(***************************************************************************)
EXTENDS Naturals, Sequences, FiniteSets, SequencesExt

CONSTANTS
  Record,
  Weight,       \* Weight[r]: size of a record
  Target,       \* targetObjectSize
  Slack,        \* a segment this close to Target is not taken up again (4<<10)
  MaxLog,       \* bound: records of the log
  MaxSegs,      \* bound: segments
  MaxRestarts   \* bound: restarts

ASSUME GCSLogAssumption ==
  /\ Weight \in [Record -> Nat \ {0}]
  /\ Target \in Nat /\ Slack \in Nat
  /\ MaxLog \in Nat /\ MaxSegs \in Nat \ {0} /\ MaxRestarts \in Nat

VARIABLES
  objects,  \* the bucket: records [num, bytes, created]
  created,  \* time of the last creation
  seg,      \* gl.seg: the segments known to be stored, by number
  curNum,   \* gl.curNum
  logBuf,   \* gl.logBuf, and gl.logSHA224
  timer,    \* gl.flushTimer # nil
  proc,     \* "up", "flushing" (an upload is under way, with the mutex held), "down"
  pending,  \* the record whose Log call waits for that upload, if one does
  past,     \* the logs of the lives before this one
  kept      \* how many records each life recovered

mem == <<seg, curNum, logBuf, timer>>
vars == <<objects, created, mem, proc, pending, past, kept>>

SizeOf(bytes) == FoldFunction(LAMBDA r, n : Weight[r] + n, 0, bytes)

\* gl.seg[n], the zero value if it has no such segment.
SegOf(n) == IF n \in DOMAIN seg THEN seg[n] ELSE <<>>

\* The contents of the segments before the buffer; what the index shows.
Frozen == [i \in 1..curNum |-> SegOf(i - 1)]
Served == FlattenSeq(Frozen) \o logBuf

Init ==
  /\ objects = {} /\ created = 0
  /\ seg = <<>> /\ curNum = 0 /\ logBuf = <<>> /\ timer = FALSE
  /\ proc = "up" /\ pending = <<>>
  /\ past = <<>> /\ kept = <<0>>

\* m[k] = v.
Put(m, k, v) == [x \in DOMAIN m \union {k} |-> IF x = k THEN v ELSE m[x]]

-----------------------------------------------------------------------------
\* Log: the record fits.  Broadcast; the timer is armed if it is not.
Log(r) ==
  /\ proc = "up" /\ Len(Served) < MaxLog
  /\ SizeOf(logBuf) + Weight[r] <= Target
  /\ logBuf' = Append(logBuf, r)
  /\ timer' = TRUE
  /\ UNCHANGED <<objects, created, seg, curNum, proc, pending, past, kept>>

\* Log: the record would push us over, flush first (nothing, if the buffer is empty).
LogFull(r) ==
  /\ proc = "up" /\ Len(Served) < MaxLog /\ curNum + 1 < MaxSegs
  /\ SizeOf(logBuf) + Weight[r] > Target
  /\ pending' = <<r>>
  /\ proc' = "flushing"
  /\ UNCHANGED <<objects, created, mem, past, kept>>

\* onFlushTimer, flush: the timer is disarmed; an empty buffer is not uploaded.
FlushTimer ==
  /\ proc = "up" /\ timer
  /\ timer' = FALSE
  /\ proc' = IF logBuf = <<>> THEN "up" ELSE "flushing"
  /\ UNCHANGED <<objects, created, seg, curNum, logBuf, pending, past, kept>>

Uploading == [num |-> curNum, bytes |-> logBuf, created |-> created + 1]
SameName(o, p) == o.num = p.num /\ o.bytes = p.bytes
Stored == logBuf = <<>> \/ \E o \in objects : SameName(o, Uploading)

\* flushLocked: one of up to four tries writes the object; the process may not see
\* it succeed, and then tries again or gives up.
Upload ==
  /\ proc = "flushing" /\ ~Stored
  /\ objects' = objects \union {Uploading}
  /\ created' = created + 1
  /\ UNCHANGED <<mem, proc, pending, past, kept>>

\* deleteOldSegment: an error is ignored.
Deleted(old) == {objects} \union {objects \ {o \in objects : SameName(o, old)}}

\* Mutant: what is deleted is the object just written.
AfterUploadDeleteNew ==
  /\ proc = "flushing" /\ Stored
  /\ IF logBuf = <<>>
       THEN UNCHANGED <<seg, objects>>
       ELSE /\ seg' = Put(seg, curNum, logBuf)
            /\ objects' \in
                 IF SegOf(curNum) \in {<<>>, logBuf} THEN {objects}
                 ELSE Deleted([num |-> curNum, bytes |-> logBuf])
  /\ IF pending = <<>>
       THEN UNCHANGED <<curNum, logBuf, timer>>
       ELSE curNum' = curNum + 1 /\ logBuf' = pending /\ timer' = TRUE
  /\ proc' = "up" /\ pending' = <<>>
  /\ UNCHANGED <<created, past, kept>>

\* flushLocked, after the upload, or at once if there was nothing to upload: the old
\* object of that number is deleted, unless it has the same name.  A Log call that
\* waited begins the next segment.
AfterUpload ==
  /\ proc = "flushing" /\ Stored
  /\ IF logBuf = <<>>
       THEN UNCHANGED <<seg, objects>>
       ELSE /\ seg' = Put(seg, curNum, logBuf)
            /\ objects' \in
                 IF SegOf(curNum) \in {<<>>, logBuf} THEN {objects}
                 ELSE Deleted([num |-> curNum, bytes |-> seg[curNum]])
  /\ IF pending = <<>>
       THEN UNCHANGED <<curNum, logBuf, timer>>
       ELSE curNum' = curNum + 1 /\ logBuf' = pending /\ timer' = TRUE
  /\ proc' = "up" /\ pending' = <<>>
  /\ UNCHANGED <<created, past, kept>>

\* Mutant: the timer is not armed again.
FlushFailsForGood ==
  /\ proc = "flushing" /\ pending = <<>>
  /\ proc' = "up"
  /\ UNCHANGED <<objects, created, mem, pending, past, kept>>

\* flush: four tries failed; the timer is armed again.
FlushFails ==
  /\ proc = "flushing" /\ pending = <<>>
  /\ proc' = "up" /\ timer' = TRUE
  /\ UNCHANGED <<objects, created, seg, curNum, logBuf, pending, past, kept>>

\* The process dies: at any point, and when a Log call's flush fails (log.Fatalf).
Die ==
  /\ proc # "down" /\ Len(past) < MaxRestarts
  /\ proc' = "down" /\ pending' = <<>> /\ timer' = FALSE
  /\ UNCHANGED <<objects, created, seg, curNum, logBuf, past, kept>>

-----------------------------------------------------------------------------
Numbers == {o.num : o \in objects}
MaxNum == CHOOSE n \in Numbers : \A m \in Numbers : m <= n

\* Mutant: of two objects with a number, the older one wins.
Oldest(n) ==
  CHOOSE o \in objects : o.num = n /\ \A p \in objects : p.num = n => o.created <= p.created

\* initLoad: of the objects with a number, the one created last.
Newest(n) ==
  CHOOSE o \in objects : o.num = n /\ \A p \in objects : p.num = n => p.created <= o.created

Loaded == [n \in Numbers |-> Newest(n).bytes]
Superseded == {o \in objects : o # Newest(o.num)}

\* initLoad: no number may be missing.  An object met before a newer one of its
\* number is deleted, or that fails; one met after it is left.  The last segment is
\* read back and appended to, if it is not big enough.
InitLoad ==
  /\ proc = "down"
  /\ Numbers = 0..(Cardinality(Numbers) - 1)
  /\ \E gone \in SUBSET Superseded : objects' = objects \ gone
  /\ seg' = Loaded
  /\ IF Numbers = {}
       THEN curNum' = 0 /\ logBuf' = <<>>
       ELSE IF SizeOf(Loaded[MaxNum]) + Slack >= Target /\ MaxNum + 1 < MaxSegs
       THEN curNum' = MaxNum + 1 /\ logBuf' = <<>>
       ELSE curNum' = MaxNum /\ logBuf' = Loaded[MaxNum]
  /\ timer' = FALSE
  /\ proc' = "up"
  /\ past' = Append(past, Served)
  /\ kept' = Append(kept, Len(FlattenSeq([i \in 1..Cardinality(Numbers) |-> Loaded[i - 1]])))
  /\ UNCHANGED <<created, pending>>

-----------------------------------------------------------------------------
Next ==
  \/ \E r \in Record : Log(r) \/ LogFull(r)
  \/ FlushTimer \/ Upload \/ AfterUpload \/ FlushFails \/ Die \/ InitLoad

Spec == Init /\ [][Next]_vars

\* The timer fires, the process goes on and starts again, and an upload tried again
\* and again succeeds.
FairSpec ==
  /\ Spec
  /\ WF_vars(FlushTimer) /\ WF_vars(InitLoad)
  /\ SF_vars(Upload) /\ SF_vars(AfterUpload)

-----------------------------------------------------------------------------
\* How many records of the log the bucket holds.
StoredSegs == [i \in 1..Cardinality(Numbers) |-> Loaded[i - 1]]
Committed == Len(FlattenSeq(StoredSegs))

\* A record bigger than the target makes a segment bigger than it, and no more: the
\* segments stored are numbered without a gap, so that the next process can start.
NoSegmentMissing == Numbers = 0..(Cardinality(Numbers) - 1)

\* Whenever the process dies, the bucket has the beginning of what was served, and no
\* hole: the next one starts, and a follower's past is lost only behind that point.
BucketIsPrefix ==
  /\ NoSegmentMissing
  /\ IsPrefix(FlattenSeq(StoredSegs), Served)

\* Every record logged gets to the bucket, unless the process dies first.
EverythingIsStored == <>[](Committed = Len(Served))

\* The log a GCSLog serves, deaths included, is what followers rely on.
Ends(segments) == [i \in 1..Len(segments) |-> Len(FlattenSeq(SubSeq(segments, 1, i)))]
LogServed == INSTANCE SegmentLog WITH
  lives <- Append(past, Served), bounds <- Ends(Frozen), committed <- Committed
ImplementsSegmentLog == LogServed!LeaderSpec
=============================================================================
