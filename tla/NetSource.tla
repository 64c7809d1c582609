----------------------------- MODULE NetSource -----------------------------
(***************************************************************************)
(* A follower: netMutSource polls the leader's segment index, mirrors the  *)
(* segments in a cache directory, checks that its past is still the        *)
(* leader's, and streams what is new to Corpus.RunUpdateLoop, which        *)
(* applies it.  The leader (SegmentLog) may restart between any two steps, *)
(* and so may the follower: its memory is then gone, its cache is not.     *)
(* A call of the follower may be cut short at any moment, by the context   *)
(* of its caller or by an error.                                           *)
(*                                                                         *)
(* A list of segments is a record [bytes, ends]: the records of all        *)
(* segments in a row, and where each segment ends.                         *)
(***************************************************************************)
EXTENDS SegmentLog

CONSTANTS
  ChanCap,    \* capacity of the channel GetMutations returns (50 in the code)
  MaxFaults,  \* bound: restarts of the follower and calls cut short
  Skipped     \* stands in applied for a record that the corpus was never given

ASSUME NetSourceAssumption ==
  ChanCap \in Nat \ {0} /\ MaxFaults \in Nat /\ Skipped \notin Record

VARIABLES
  pc,       \* what the follower is doing, see Phases
  last,     \* ns.last: the segments the follower has verified, and their files
  want,     \* the index the leader answered
  files,    \* for each segment of want synced so far, the file it is in
  have,     \* the content of the partial file syncSeg read
  partial,  \* partial[i]: NNNN.growing.mutlog of segment i, <<>> if absent
  final,    \* the files NNNN.<sha224>.mutlog: final[<<number, sum>>] is the content
  sent,     \* how many records of want the fetcher has sent to the channel
  chan,     \* the channel GetMutations returned
  applied,  \* the mutations the corpus has processed since the process began, and
            \* Skipped in the place of each that it has missed
  faults

cacheVars == <<partial, final>>
localVars == <<want, files, have, sent>>
fetchVars == <<last, localVars>>
vars == <<logVars, pc, cacheVars, fetchVars, chan, applied, faults>>

Phases == {"index", "answered", "sync", "download", "send", "split", "failed"}

Smaller(m, n) == IF m <= n THEN m ELSE n

\* Segment i of a list: where it starts, its size, its content.
StartOf(L, i) == IF i = 1 THEN 0 ELSE L.ends[i - 1]
SizeOf(L, i)  == L.ends[i] - StartOf(L, i)
Seg(L, i)     == SubSeq(L.bytes, StartOf(L, i) + 1, L.ends[i])

\* What is on disk now under the path of segment i of L, a file of that kind.
FileOf(L, i, kind) ==
  IF kind = "growing" THEN partial[i] ELSE final[<<i, Seg(L, i)>>]

\* A file is renamed over another one, if that is there.
Renamed(dir, name, content) ==
  [x \in DOMAIN dir \union {name} |-> IF x = name THEN content ELSE dir[x]]

NoIndex == [bytes |-> <<>>, ends |-> <<>>, frozen |-> 0]

\* Mutant: what a call of GetMutations used is still there in the next one.
LocalsKept == have' = <<>> /\ UNCHANGED <<want, files, sent>>

\* The locals of a call of GetMutations are gone when it ends.
LocalsGone == want' = NoIndex /\ files' = <<>> /\ have' = <<>> /\ sent' = 0

Init ==
  /\ LogInit
  /\ pc = "index"
  /\ last = [bytes |-> <<>>, ends |-> <<>>, files |-> <<>>]
  /\ want = NoIndex
  /\ files = <<>> /\ have = <<>> /\ sent = 0
  /\ partial = [i \in 1..MaxSegs |-> <<>>]
  /\ final = <<>>
  /\ chan = <<>> /\ applied = <<>>
  /\ faults = 0

-----------------------------------------------------------------------------
\* Mutant: the leader answers only when it has more than the follower.
LongPollForMore ==
  /\ pc = "index"
  /\ Len(Served) > Len(last.bytes)
  /\ pc' = "answered"
  /\ UNCHANGED <<logVars, cacheVars, fetchVars, chan, applied, faults>>

\* getServerSegments: the leader's waitSizeNot ends once its total size differs
\* from the total the follower knows.
LongPoll ==
  /\ pc = "index"
  /\ Len(Served) # Len(last.bytes)
  /\ pc' = "answered"
  /\ UNCHANGED <<logVars, cacheVars, fetchVars, chan, applied, faults>>

\* getServerSegments: the leader then answers its index, which by now may be another.
GetServerSegments ==
  /\ pc = "answered"
  /\ want' = Index
  /\ pc' = "sync"
  /\ UNCHANGED <<logVars, cacheVars, last, files, have, sent, chan, applied, faults>>

\* The segment of want that syncSeg is called for next.
Next1 == Len(files) + 1
Target == Seg(want, Next1)
Syncing == pc = "sync" /\ Next1 <= Len(want.ends)
FinalName == <<Next1, Target>>
Cached == FinalName \in DOMAIN final /\ Len(final[FinalName]) = Len(Target)

\* syncSeg: the segment is there under its final name.
SyncCached ==
  /\ Syncing /\ Cached
  /\ files' = Append(files, "frozen")
  /\ UNCHANGED <<logVars, pc, cacheVars, last, want, have, sent, chan, applied, faults>>

\* syncSeg: the growing file is all of a segment the leader has since frozen.
SyncPromote ==
  /\ Syncing /\ ~Cached
  /\ partial[Next1] = Target
  /\ Next1 <= want.frozen
  /\ final' = Renamed(final, FinalName, partial[Next1])
  /\ partial' = [partial EXCEPT ![Next1] = <<>>]
  /\ files' = Append(files, "frozen")
  /\ UNCHANGED <<logVars, pc, last, want, have, sent, chan, applied, faults>>

\* syncSeg: the growing file already is the growing segment.
SyncKeep ==
  /\ Syncing /\ ~Cached
  /\ partial[Next1] = Target
  /\ Next1 > want.frozen
  /\ files' = Append(files, "growing")
  /\ UNCHANGED <<logVars, pc, cacheVars, last, want, have, sent, chan, applied, faults>>

\* syncSeg: something is missing; the partial file's content is kept aside.
SyncStale ==
  /\ Syncing /\ ~Cached
  /\ partial[Next1] # Target
  /\ have' = partial[Next1]
  /\ pc' = "download"
  /\ UNCHANGED <<logVars, cacheVars, last, want, files, sent, chan, applied, faults>>

\* The leader's segment i at this moment, <<>> if it has none.
ServedSeg(i) == IF i <= Len(Index.ends) THEN Seg(Index, i) ELSE <<>>

\* The body of a Range request for records n+1..m of segment i: cut where the
\* segment now ends.
RangeOf(i, n, m) == SubSeq(ServedSeg(i), n + 1, Smaller(m, Len(ServedSeg(i))))

\* Which contents syncSeg tries to commit to disk.
NewContents(new) ==
  IF Len(new) = Len(Target) THEN new
  ELSE IF Len(have) + Len(new) = Len(Target) THEN have \o new
  ELSE IF Len(have) > Len(Target) THEN SubSeq(have, 1, Len(Target))
  ELSE <<>>

\* A request is made only for what the partial file lacks, and is refused (404 or
\* 416, an error that ends the stream) if the leader's segment ends before that.
Refused == Len(have) < Len(Target) /\ Len(ServedSeg(Next1)) <= Len(have)
Downloaded ==
  IF Len(have) < Len(Target) THEN RangeOf(Next1, Len(have), Len(Target)) ELSE <<>>

GoodSum == NewContents(Downloaded) = Target

\* syncSeg: the contents have the sum the index gave; a temporary file is renamed
\* to the final name or to the growing one.
SyncCommit ==
  /\ pc = "download" /\ ~Refused /\ GoodSum
  /\ IF Next1 <= want.frozen
       THEN /\ final' = Renamed(final, FinalName, NewContents(Downloaded))
            /\ files' = Append(files, "frozen")
            /\ UNCHANGED partial
       ELSE /\ partial' = [partial EXCEPT ![Next1] = NewContents(Downloaded)]
            /\ files' = Append(files, "growing")
            /\ UNCHANGED final
  /\ have' = <<>>
  /\ pc' = "sync"
  /\ UNCHANGED <<logVars, last, want, sent, chan, applied, faults>>

\* syncSeg: the sum is wrong; drop the partial file and start the segment over.
SyncDrop ==
  /\ pc = "download" /\ ~Refused /\ ~GoodSum
  /\ have # <<>>
  /\ partial' = [partial EXCEPT ![Next1] = <<>>]
  /\ have' = <<>>
  /\ pc' = "sync"
  /\ UNCHANGED <<logVars, final, last, want, files, sent, chan, applied, faults>>

\* syncSeg: refused, or a whole download has the wrong sum ("corrupt download").
SyncFails ==
  /\ pc = "download"
  /\ Refused \/ (~GoodSum /\ have = <<>>)
  /\ pc' = "failed"
  /\ LocalsGone
  /\ UNCHANGED <<logVars, cacheVars, last, chan, applied, faults>>

-----------------------------------------------------------------------------
\* The first k segments of a list.
Leading(L, k) ==
  [bytes |-> SubSeq(L.bytes, 1, StartOf(L, k + 1)), ends |-> SubSeq(L.ends, 1, k)]

\* sumCommonPrefixSize: k leading segments have equal sums, and no more.
Both == Smaller(Len(want.ends), Len(last.ends))
CommonSegs(k) ==
  /\ Leading(want, k) = Leading(last, k)
  /\ k < Both => Seg(want, k + 1) # Seg(last, k + 1)

\* The file of the bigger of the two (k+1)-th segments begins with the smaller one.
BeginsWith(content, s) == Len(s) <= Len(content) /\ SubSeq(content, 1, Len(s)) = s

\* Mutant: a segment of another size is taken to be the same one, grown.
ExtendsAssumed(i) == TRUE

Extends(i) ==
  IF SizeOf(want, i) < SizeOf(last, i)
  THEN BeginsWith(FileOf(last, i, last.files[i]), Seg(want, i))
  ELSE BeginsWith(FileOf(want, i, files[i]), Seg(last, i))

\* Mutant: only whole segments are common.
SumCommonWhole(k) == StartOf(want, k + 1)

\* sumCommonPrefixSize, given the k of CommonSegs.
SumCommon(k) ==
  LET sum == StartOf(want, k + 1)
      i   == k + 1
  IN  IF \/ k = Both
         \/ SizeOf(want, i) = SizeOf(last, i)
         \/ ~Extends(i)
      THEN sum
      ELSE sum + Smaller(SizeOf(want, i), SizeOf(last, i))

Synced == pc = "sync" /\ Len(files) = Len(want.ends)

\* Mutant: what is known is not trimmed off.
AcceptSegmentsUntrimmed(k) ==
  /\ Synced /\ CommonSegs(k)
  /\ SumCommon(k) = Len(last.bytes)
  /\ SumCommon(k) # Len(want.bytes)
  /\ last' = [bytes |-> want.bytes, ends |-> want.ends, files |-> files]
  /\ sent' = 0
  /\ pc' = "send"
  /\ UNCHANGED <<logVars, cacheVars, want, files, have, chan, applied, faults>>

\* getNewSegments: the follower's past is the beginning of the leader's log, and
\* there is more of it.  What is known is trimmed off what will be streamed.
AcceptSegments(k) ==
  /\ Synced /\ CommonSegs(k)
  /\ SumCommon(k) = Len(last.bytes)
  /\ SumCommon(k) # Len(want.bytes)
  /\ last' = [bytes |-> want.bytes, ends |-> want.ends, files |-> files]
  /\ sent' = SumCommon(k)
  /\ pc' = "send"
  /\ UNCHANGED <<logVars, cacheVars, want, files, have, chan, applied, faults>>

\* getNewSegments: the histories diverge, ErrSplit.  RunUpdateLoop returns it and
\* panics if it is called again.
ReportSplit(k) ==
  /\ Synced /\ CommonSegs(k)
  /\ SumCommon(k) # Len(last.bytes)
  /\ pc' = "split"
  /\ LocalsGone
  /\ UNCHANGED <<logVars, cacheVars, last, chan, applied, faults>>

\* getNewSegments: the index answered is what the follower has ("returned unchanged
\* log segments"): GetMutations ends with that error.
UnchangedSegments(k) ==
  /\ Synced /\ CommonSegs(k)
  /\ SumCommon(k) = Len(last.bytes)
  /\ SumCommon(k) = Len(want.bytes)
  /\ pc' = "failed"
  /\ LocalsGone
  /\ UNCHANGED <<logVars, cacheVars, last, chan, applied, faults>>

\* fetchAndSendMutations: the next record is read from segment i's file and sent.
\* The records a file lacks are passed over (io.LimitReader ends at EOF).
SendMutation(i) ==
  /\ pc = "send" /\ Len(chan) < ChanCap
  /\ StartOf(want, i) <= sent /\ sent < want.ends[i]
  /\ LET content == FileOf(want, i, files[i])
         p == sent + 1 - StartOf(want, i)
     IN  chan' = IF p <= Len(content) THEN Append(chan, content[p]) ELSE chan
  /\ sent' = sent + 1
  /\ UNCHANGED <<logVars, pc, cacheVars, last, want, files, have, applied, faults>>

\* RunUpdateLoop: processMutationLocked on the next event, under c.mu.
ApplyMutation ==
  /\ chan # <<>>
  /\ applied' = Append(applied, Head(chan))
  /\ chan' = Tail(chan)
  /\ UNCHANGED <<logVars, pc, cacheVars, fetchVars, faults>>

\* A call is cut short: the caller's context expires and both ends of the channel leave
\* (RunUpdateLoop and update at once, the fetcher where a request, a sleep or a send
\* waits on the context), a request has failed until its caller gave up (five times for
\* the index, ten for a segment), or a file cannot be read, parsed or renamed.  ns.last
\* is past the whole batch as soon as the batch was accepted, so what was not delivered
\* of it is never asked for again.  A fetcher that outlives its caller does nothing that
\* a caller slow to read would not see.
CallCut ==
  /\ faults < MaxFaults
  /\ pc \notin {"split", "failed"}
  /\ pc' = "failed"
  /\ LocalsGone
  /\ chan' = <<>>
  /\ applied' = applied \o [p \in 1..(Len(last.bytes) - Len(applied)) |-> Skipped]
  /\ faults' = faults + 1
  /\ UNCHANGED <<logVars, cacheVars, last>>

\* RunUpdateLoop: the End event, after every mutation sent; poll again.
EndOfStream ==
  /\ pc = "send" /\ sent = Len(want.bytes) /\ chan = <<>>
  /\ pc' = "index"
  /\ LocalsGone
  /\ UNCHANGED <<logVars, cacheVars, last, chan, applied, faults>>

\* The program calls RunUpdateLoop again after an error other than ErrSplit, once the
\* fetcher of the call before has ended.
RunAgain ==
  /\ pc = "failed"
  /\ pc' = "index"
  /\ UNCHANGED <<logVars, cacheVars, fetchVars, chan, applied, faults>>

\* The follower's process restarts: an empty corpus, a new netMutSource, the old cache.
FollowerRestart ==
  /\ faults < MaxFaults
  /\ pc' = "index"
  /\ last' = [bytes |-> <<>>, ends |-> <<>>, files |-> <<>>]
  /\ LocalsGone
  /\ chan' = <<>> /\ applied' = <<>>
  /\ faults' = faults + 1
  /\ UNCHANGED <<logVars, cacheVars>>

-----------------------------------------------------------------------------
SyncSeg ==
  SyncCached \/ SyncPromote \/ SyncKeep \/ SyncStale \/ SyncCommit \/ SyncDrop \/ SyncFails

CheckSegments ==
  \E k \in 0..Both : AcceptSegments(k) \/ ReportSplit(k) \/ UnchangedSegments(k)

FollowerStep ==
  \/ LongPoll \/ GetServerSegments \/ SyncSeg \/ CheckSegments
  \/ \E i \in 1..Len(want.ends) : SendMutation(i)
  \/ ApplyMutation \/ EndOfStream

Leader == LeaderNext /\ UNCHANGED <<pc, cacheVars, fetchVars, chan, applied, faults>>

Next == FollowerStep \/ CallCut \/ RunAgain \/ FollowerRestart \/ Leader

Spec == Init /\ [][Next]_vars

\* The follower's own steps wait for nothing but the leader's answers, and these
\* come or the request fails.  Nothing is assumed of the leader, of faults, or of
\* the program calling RunUpdateLoop again.
FairSpec == Spec /\ WF_vars(FollowerStep)

-----------------------------------------------------------------------------
\* Values have their types, and files and sizes stay within the bounds.
SegsType(L) == L.bytes \in Seq(Record) /\ L.ends \in Seq(Nat)
TypeOK ==
  /\ lives \in Seq(Seq(Record)) /\ lives # <<>>
  /\ bounds \in Seq(Nat) /\ committed \in Nat /\ kept \in Seq(Nat)
  /\ pc \in Phases
  /\ SegsType(last) /\ last.files \in Seq({"growing", "frozen"})
  /\ SegsType(want) /\ want.frozen \in Nat
  /\ files \in Seq({"growing", "frozen"}) /\ Len(files) <= Len(want.ends)
  /\ have \in Seq(Record) /\ sent \in Nat
  /\ partial \in [1..MaxSegs -> Seq(Record)]
  /\ DOMAIN final \subseteq (1..MaxSegs) \X Seq(Record)
  /\ \A name \in DOMAIN final : final[name] \in Seq(Record)
  /\ chan \in Seq(Record) /\ Len(chan) <= ChanCap
  /\ applied \in Seq(Record \union {Skipped})
  /\ faults \in Nat

\* s is t up to some point.
Prefix(s, t) == Len(s) <= Len(t) /\ \A p \in 1..Len(s) : s[p] = t[p]

\* s is t up to some point, with records missing from it.
Along(s, t) == Len(s) <= Len(t) /\ \A p \in 1..Len(s) : s[p] \in {t[p], Skipped}

\* What the corpus has processed are records of one history of the leader, each in its
\* place: none processed twice or out of order, and never a mix of two histories; and
\* without a fault it is all of that history's beginning (Initialize, RunUpdateLoop:
\* "populates the Corpus", "incrementally").
AppliedIsServed ==
  /\ \E e \in 1..Len(lives) : Along(applied, lives[e])
  /\ faults = 0 => \A p \in 1..Len(applied) : applied[p] # Skipped

\* ErrSplit is reported only if a restart of the leader lost records that the
\* follower has ("if the leader restarts with uncommitted transactions"): growth, a
\* frozen segment, a repeated record, the follower's own restarts and a leader's
\* restart that kept what the follower has never make a follower stop.
SplitIsReal == pc = "split" => \E e \in 2..Len(kept) : kept[e] < Len(last.bytes)

\* Once the leader logs nothing more and nothing fails, every record the leader serves
\* has been processed, or was skipped when a call was cut short, or the follower has
\* stopped with an error: no record waits for another one to be logged.  A leader that
\* restarted and logged its way back to the same total size is not noticed: the long
\* poll compares sizes only (getServerSegments, "a sum of log segment sizes different").
CatchesUp == <>[](Len(applied) = Len(Served) \/ pc \in {"split", "failed"})

\* Replication through segments, files and a channel is the abstract log: every record
\* is processed once and in its place, and only a fault makes the follower miss some.
Abstract == INSTANCE MutationLog WITH Mutation <- Record, split <- (pc = "split")
ImplementsMutationLog == Abstract!AbsSpec
=============================================================================
