-------------------------- MODULE NetSourceProofs --------------------------
(***************************************************************************)
(* For every value of the constants, the leader's log (SegmentLog) stays   *)
(* well cut, and a follower of it has its types, has processed records of  *)
(* one history of the leader in their places, all of its beginning unless  *)
(* a fault cut a call short, and stops with ErrSplit only when a restart   *)
(* of the leader has lost what it has: it implements the abstract log      *)
(* (MutationLog).                                                          *)
(***************************************************************************)
EXTENDS NetSource, SequenceTheorems, TLAPS

\* What the leader's log needs to be well cut into segments.
LogOK ==
  /\ lives \in Seq(Seq(Record)) /\ lives # <<>>
  /\ bounds \in Seq(Nat) /\ committed \in Nat /\ kept \in Seq(Nat)
  /\ Len(bounds) < MaxSegs
  /\ committed <= Len(Served)
  /\ \A i \in 1..Len(bounds) : bounds[i] <= committed
  /\ \A i \in 2..Len(bounds) : bounds[i - 1] <= bounds[i]

\* What the leader serves is a sequence of records, in the last of its lives.
LEMMA ServedType ==
  ASSUME LogOK
  PROVE  Served \in Seq(Record) /\ Len(lives) \in Nat \ {0}
  BY DEF LogOK, Served

\* The empty log is well cut.
LEMMA LogInitOK ==
  ASSUME LogInit
  PROVE  LogOK
  BY SegmentLogAssumption DEF LogInit, LogOK, Served

\* A contiguous part of a sequence: its type, its length and its elements.
LEMMA SubSeqType ==
  ASSUME NEW S, NEW s \in Seq(S), NEW m \in 1..(Len(s) + 1), NEW n \in m-1..Len(s)
  PROVE  /\ SubSeq(s, m, n) \in Seq(S)
         /\ Len(SubSeq(s, m, n)) = n - m + 1
         /\ \A i \in 1..(n - m + 1) : SubSeq(s, m, n)[i] = s[m + i - 1]
  BY SubSeqProperties

\* The first n elements of a sequence.
LEMMA FrontType ==
  ASSUME NEW S, NEW s \in Seq(S), NEW n \in 0..Len(s)
  PROVE  /\ SubSeq(s, 1, n) \in Seq(S)
         /\ Len(SubSeq(s, 1, n)) = n
         /\ \A i \in 1..n : SubSeq(s, 1, n)[i] = s[i]
  <1>1. 1 \in 1..(Len(s) + 1) /\ n \in 1-1..Len(s) /\ n - 1 + 1 = n
    OBVIOUS
  <1> DEFINE f == SubSeq(s, 1, n)
  <1>2. f \in Seq(S) /\ Len(f) = n /\ \A i \in 1..n : f[i] = s[1 + i - 1]
    BY <1>1, SubSeqType
  <1>3. \A i \in 1..n : 1 + i - 1 = i
    OBVIOUS
  <1> HIDE DEF f
  <1>4. \A i \in 1..n : f[i] = s[i]
    BY <1>2, <1>3
  <1> QED BY <1>2, <1>4 DEF f

\* Logging a record, with or without freezing the growing segment first, leaves the
\* log well cut: this is DiskLog.Log and GCSLog.Log.
LEMMA LogStepOK ==
  ASSUME LogOK, NEW r \in Record, NEW roll \in BOOLEAN, NEW synced \in BOOLEAN,
         Log(r, roll, synced)
  PROVE  LogOK'
  <1>1. Served \in Seq(Record) /\ Len(lives) \in Nat \ {0}
    BY ServedType
  <1>2. lives' \in Seq(Seq(Record)) /\ Len(lives') = Len(lives) /\ Served' = Append(Served, r)
    BY <1>1 DEF LogOK, Log, Served
  <1>3. Len(Served') = Len(Served) + 1
    BY <1>1, <1>2
  <1>4. EndOf(bounds) \in Nat /\ EndOf(bounds) <= committed
    BY DEF LogOK, EndOf
  <1>5. committed' \in Nat /\ committed <= committed' /\ committed' <= Len(Served')
    BY <1>1, <1>3 DEF LogOK, Log
  <1>6. Served' \in Seq(Record) /\ lives' # <<>> /\ kept' \in Seq(Nat)
    BY <1>1, <1>2 DEF LogOK, Log
  <1>7. CASE roll
    <2>1. bounds' = Append(bounds, Len(Served)) /\ committed' >= Len(Served)
      BY <1>1, <1>7 DEF Log
    <2>2. Len(bounds) \in Nat /\ Len(bounds') = Len(bounds) + 1 /\ bounds' \in Seq(Nat)
      BY <1>1, <2>1 DEF LogOK
    <2>3. Len(bounds') < MaxSegs
      BY <1>7, <2>2, SegmentLogAssumption DEF Log
    <2>4. \A i \in 1..Len(bounds) : bounds'[i] = bounds[i] /\ bounds[i] \in Nat
      BY <1>1, <2>1 DEF LogOK
    <2>a. committed \in Nat /\ Len(Served) \in Nat
          /\ \A i \in 1..Len(bounds) : bounds[i] <= committed /\ bounds[i] <= Len(Served)
      BY <1>1, <2>4 DEF LogOK
    <2>b. \A i \in 2..Len(bounds) : bounds[i - 1] <= bounds[i]
      BY DEF LogOK
    <2>5. bounds'[Len(bounds) + 1] = Len(Served)
      BY <1>1, <2>1 DEF LogOK
    <2>6. \A i \in 1..Len(bounds') : bounds'[i] <= committed'
      <3> SUFFICES ASSUME NEW i \in 1..Len(bounds') PROVE bounds'[i] <= committed'
        OBVIOUS
      <3>1. CASE i = Len(bounds) + 1
        BY <1>1, <1>5, <2>1, <2>5, <3>1
      <3>2. CASE i \in 1..Len(bounds)
        BY <1>5, <2>4, <2>a, <3>2
      <3> QED BY <2>2, <3>1, <3>2
    <2>7. \A i \in 2..Len(bounds') : bounds'[i - 1] <= bounds'[i]
      <3> SUFFICES ASSUME NEW i \in 2..Len(bounds') PROVE bounds'[i - 1] <= bounds'[i]
        OBVIOUS
      <3>1. CASE i = Len(bounds) + 1
        BY <2>2, <2>4, <2>5, <2>a, <3>1
      <3>2. CASE i \in 2..Len(bounds)
        <4>1. i \in 1..Len(bounds) /\ i - 1 \in 1..Len(bounds)
          BY <2>2, <3>2
        <4>2. bounds'[i] = bounds[i] /\ bounds'[i - 1] = bounds[i - 1]
          BY <2>4, <4>1
        <4> QED BY <2>b, <3>2, <4>2
      <3> QED BY <2>2, <3>1, <3>2
    <2> QED BY <1>2, <1>5, <1>6, <2>2, <2>3, <2>6, <2>7 DEF LogOK
  <1>8. CASE ~roll
    <2>1. bounds' = bounds
      BY <1>8 DEF Log
    <2>2. \A i \in 1..Len(bounds) : bounds[i] \in Nat /\ bounds[i] <= committed'
      BY <1>5 DEF LogOK
    <2> QED BY <1>2, <1>5, <1>6, <2>1, <2>2 DEF LogOK
  <1> QED BY <1>7, <1>8

\* Storing what is served leaves the log well cut (GCSLog.flush, the disk's own sync).
LEMMA FlushOK ==
  ASSUME LogOK, Flush
  PROVE  LogOK'
  <1>1. Served' = Served /\ Served \in Seq(Record)
    BY ServedType DEF Flush, Served
  <1>2. \A i \in 1..Len(bounds) : bounds[i] \in Nat /\ bounds[i] <= Len(Served)
    BY <1>1 DEF LogOK
  <1> QED BY <1>1, <1>2 DEF LogOK, Flush

\* A restart drops no cut that it keeps a record of: initLoad and DiskLog.scan find
\* segments that end within what was committed.
LEMMA RestartOK ==
  ASSUME LogOK, NEW cut, Restart(cut)
  PROVE  LogOK'
  <1>1. Served \in Seq(Record) /\ Len(lives) \in Nat \ {0}
    BY ServedType
  <1> DEFINE rest == SubSeq(Served, 1, committed)
  <1>2. committed \in Nat /\ committed <= Len(Served) /\ committed' = committed
    BY DEF LogOK, Restart
  <1>3. rest \in Seq(Record) /\ Len(rest) = committed
    BY <1>1, <1>2, SubSeqType
  <1>4. lives' \in Seq(Seq(Record)) /\ Len(lives') = Len(lives) + 1 /\ Served' = rest
    BY <1>1, <1>3 DEF LogOK, Restart, Served
  <1>5. lives' # <<>> /\ kept' \in Seq(Nat)
    <2>1. kept' = Append(kept, committed) /\ kept \in Seq(Nat)
      BY DEF LogOK, Restart
    <2>2. kept' \in Seq(Nat)
      BY <1>2, <2>1
    <2>3. Len(lives') # 0
      BY <1>1, <1>4
    <2> QED BY <2>2, <2>3
  <1>6. /\ bounds' \in Seq(Nat) /\ Len(bounds') < MaxSegs
        /\ \A i \in 1..Len(bounds') : bounds'[i] <= committed
        /\ \A i \in 2..Len(bounds') : bounds'[i - 1] <= bounds'[i]
    <2>1. CASE bounds' = bounds
      BY <2>1 DEF LogOK
    <2>2. CASE bounds # <<>> /\ bounds' = SubSeq(bounds, 1, Len(bounds) - 1)
      <3>1. bounds \in Seq(Nat) /\ Len(bounds) \in Nat \ {0}
        BY <2>2 DEF LogOK
      <3>2. /\ bounds' \in Seq(Nat) /\ Len(bounds') = Len(bounds) - 1
            /\ \A i \in 1..(Len(bounds) - 1) : bounds'[i] = bounds[i]
        <4>1. Len(bounds) - 1 \in 0..Len(bounds)
          BY <3>1
        <4> QED BY <2>2, <3>1, <4>1, FrontType
      <3>3. \A i \in 2..Len(bounds') : bounds'[i - 1] <= bounds'[i]
        <4> SUFFICES ASSUME NEW i \in 2..Len(bounds') PROVE bounds'[i - 1] <= bounds'[i]
          OBVIOUS
        <4>1. i \in 1..(Len(bounds) - 1) /\ i - 1 \in 1..(Len(bounds) - 1) /\ i \in 2..Len(bounds)
          BY <3>1, <3>2
        <4>2. bounds'[i] = bounds[i] /\ bounds'[i - 1] = bounds[i - 1]
          BY <3>2, <4>1
        <4>3. bounds[i - 1] <= bounds[i]
          BY <4>1 DEF LogOK
        <4> QED BY <4>2, <4>3
      <3>4. \A i \in 1..Len(bounds') : bounds'[i] <= committed
        <4> SUFFICES ASSUME NEW i \in 1..Len(bounds') PROVE bounds'[i] <= committed
          OBVIOUS
        <4>1. i \in 1..Len(bounds) /\ bounds'[i] = bounds[i]
          BY <3>1, <3>2
        <4> QED BY <4>1 DEF LogOK
      <3> QED BY <3>1, <3>2, <3>3, <3>4, SegmentLogAssumption DEF LogOK
    <2>3. CASE /\ Len(bounds) + 1 < MaxSegs /\ bounds' = Append(bounds, committed)
      <3>1. bounds \in Seq(Nat) /\ Len(bounds) \in Nat
        BY DEF LogOK
      <3>2. /\ bounds' \in Seq(Nat) /\ Len(bounds') = Len(bounds) + 1
            /\ \A i \in 1..Len(bounds) : bounds'[i] = bounds[i]
            /\ bounds'[Len(bounds) + 1] = committed
        BY <1>2, <2>3, <3>1
      <3>3. \A i \in 1..Len(bounds') : bounds'[i] <= committed
        <4> SUFFICES ASSUME NEW i \in 1..Len(bounds') PROVE bounds'[i] <= committed
          OBVIOUS
        <4>1. CASE i = Len(bounds) + 1
          BY <1>2, <3>2, <4>1
        <4>2. CASE i \in 1..Len(bounds)
          BY <3>2, <4>2 DEF LogOK
        <4> QED BY <3>1, <3>2, <4>1, <4>2
      <3>4. \A i \in 2..Len(bounds') : bounds'[i - 1] <= bounds'[i]
        <4> SUFFICES ASSUME NEW i \in 2..Len(bounds') PROVE bounds'[i - 1] <= bounds'[i]
          OBVIOUS
        <4>0. i - 1 \in 1..Len(bounds)
          BY <3>1, <3>2
        <4>a. bounds'[i - 1] = bounds[i - 1]
          BY <3>2, <4>0
        <4>1. CASE i = Len(bounds) + 1
          BY <3>2, <4>0, <4>a, <4>1 DEF LogOK
        <4>2. CASE i \in 2..Len(bounds)
          <5>1. bounds'[i] = bounds[i]
            BY <3>1, <3>2, <4>2
          <5> QED BY <4>a, <4>2, <5>1 DEF LogOK
        <4> QED BY <3>1, <3>2, <4>1, <4>2
      <3> QED BY <2>3, <3>2, <3>3, <3>4, SegmentLogAssumption
    <2> QED BY <2>1, <2>2, <2>3 DEF Restart
  <1> QED BY <1>2, <1>3, <1>4, <1>5, <1>6 DEF LogOK

\* No step of the leader leaves a log that is not well cut.
LEMMA LeaderOK ==
  ASSUME LogOK, LeaderNext
  PROVE  LogOK'
  BY LogStepOK, FlushOK, RestartOK DEF LeaderNext

\* The log every leader serves stays well cut: what committed counts is served, and no
\* frozen segment ends beyond it, whatever restarts come between.
THEOREM WellCut == LeaderSpec => []LogOK
  <1>1. ASSUME LogOK, UNCHANGED logVars
        PROVE  LogOK'
    BY <1>1 DEF LogOK, logVars, Served
  <1> QED BY <1>1, LogInitOK, LeaderOK, PTL DEF LeaderSpec

-----------------------------------------------------------------------------
\* A list of segments is cut into ordered pieces of its bytes.
Cut(L) ==
  /\ \A i \in 1..Len(L.ends) : L.ends[i] <= Len(L.bytes)
  /\ \A i \in 2..Len(L.ends) : L.ends[i - 1] <= L.ends[i]

CutsOK == Cut(last) /\ Cut(want) /\ Len(want.ends) <= MaxSegs

\* Which locals a phase has: files belong to an index, all of them once it is accepted.
PhaseOK ==
  /\ pc \in {"index", "answered", "split", "failed"} => files = <<>>
  /\ pc = "download" => Len(files) < Len(want.ends)
  /\ pc = "send" => /\ Len(files) = Len(want.ends)
                    /\ last.bytes = want.bytes
                    /\ sent <= Len(want.bytes)

\* A file that is trusted without being read has the content that its name or its
\* segment of the index says.
FilesOK ==
  /\ \A name \in DOMAIN final : final[name] = name[2]
  /\ \A i \in 1..Len(files) :
       IF files[i] = "growing"
       THEN partial[i] = Seg(want, i)
       ELSE <<i, Seg(want, i)>> \in DOMAIN final

\* What a follower knows, it was served by one life of the leader.
WasServed(bytes) == \E e \in 1..Len(lives) : Prefix(bytes, lives[e])
ServedOK == WasServed(last.bytes) /\ WasServed(want.bytes)

\* Between the verified log and the corpus nothing is repeated or reordered, and nothing
\* is lost without leaving its mark, and without a fault.
Streamed == IF pc = "send" THEN sent ELSE Len(last.bytes)
StreamOK ==
  /\ Len(applied) + Len(chan) = Streamed
  /\ pc # "send" => chan = <<>>
  /\ \A p \in 1..Len(applied) : applied[p] \in {last.bytes[p], Skipped}
  /\ \A p \in 1..Len(chan) : chan[p] = last.bytes[Len(applied) + p]
  /\ faults = 0 => \A p \in 1..Len(applied) : applied[p] # Skipped

\* The inductive invariant.
Inv == TypeOK /\ LogOK /\ CutsOK /\ PhaseOK /\ FilesOK /\ ServedOK /\ StreamOK

\* The type invariant in parts: the leader's variables, the cache, the fetcher's, and
\* the stream's.
LeaderType ==
  /\ lives \in Seq(Seq(Record)) /\ lives # <<>>
  /\ bounds \in Seq(Nat) /\ committed \in Nat /\ kept \in Seq(Nat)
CacheType ==
  /\ partial \in [1..MaxSegs -> Seq(Record)]
  /\ DOMAIN final \subseteq (1..MaxSegs) \X Seq(Record)
  /\ \A name \in DOMAIN final : final[name] \in Seq(Record)
FetchType ==
  /\ pc \in Phases
  /\ SegsType(last) /\ last.files \in Seq({"growing", "frozen"})
  /\ SegsType(want) /\ want.frozen \in Nat
  /\ files \in Seq({"growing", "frozen"}) /\ Len(files) <= Len(want.ends)
  /\ have \in Seq(Record) /\ sent \in Nat
StreamType ==
  /\ chan \in Seq(Record) /\ Len(chan) <= ChanCap
  /\ applied \in Seq(Record \union {Skipped})
  /\ faults \in Nat

\* The parts are the whole.
LEMMA TypeParts == TypeOK <=> LeaderType /\ CacheType /\ FetchType /\ StreamType
  BY DEF TypeOK, LeaderType, CacheType, FetchType, StreamType

\* So they are after a step.
LEMMA TypePartsNext == TypeOK' <=> LeaderType' /\ CacheType' /\ FetchType' /\ StreamType'
  BY DEF TypeOK, LeaderType, CacheType, FetchType, StreamType

\* The lists of segments and the stream are sequences, with lengths.
LEMMA Lengths ==
  ASSUME TypeOK
  PROVE  /\ last.bytes \in Seq(Record) /\ want.bytes \in Seq(Record)
         /\ Len(last.bytes) \in Nat /\ Len(want.bytes) \in Nat
         /\ want.ends \in Seq(Nat) /\ Len(want.ends) \in Nat
         /\ Len(files) \in Nat
         /\ chan \in Seq(Record) /\ applied \in Seq(Record \union {Skipped})
         /\ Len(chan) \in Nat /\ Len(applied) \in Nat
  <1>1. /\ last.bytes \in Seq(Record) /\ want.bytes \in Seq(Record)
        /\ want.ends \in Seq(Nat) /\ files \in Seq({"growing", "frozen"})
    BY TypeParts DEF FetchType, SegsType
  <1>2. chan \in Seq(Record) /\ applied \in Seq(Record \union {Skipped})
    BY TypeParts DEF StreamType
  <1> QED BY <1>1, <1>2

-----------------------------------------------------------------------------
\* A segment of a well cut list: where it starts, its size and its content.
LEMMA SegFacts ==
  ASSUME NEW L, SegsType(L), Cut(L), NEW i \in 1..Len(L.ends)
  PROVE  /\ L.ends[i] \in Nat /\ StartOf(L, i) \in Nat
         /\ StartOf(L, i) <= L.ends[i] /\ L.ends[i] <= Len(L.bytes)
         /\ SizeOf(L, i) \in Nat /\ StartOf(L, i) + SizeOf(L, i) = L.ends[i]
         /\ Seg(L, i) \in Seq(Record) /\ Len(Seg(L, i)) = SizeOf(L, i)
         /\ \A p \in 1..SizeOf(L, i) : Seg(L, i)[p] = L.bytes[StartOf(L, i) + p]
  <1>1. L.ends \in Seq(Nat) /\ L.bytes \in Seq(Record) /\ L.ends[i] \in Nat
    BY DEF SegsType
  <1>2. StartOf(L, i) \in Nat /\ StartOf(L, i) <= L.ends[i]
    <2>1. CASE i = 1
      BY <1>1, <2>1 DEF StartOf
    <2>2. CASE i # 1
      <3>1. i - 1 \in 1..Len(L.ends) /\ i \in 2..Len(L.ends)
        BY <1>1, <2>2
      <3>2. StartOf(L, i) = L.ends[i - 1]
        BY <2>2 DEF StartOf
      <3>3. L.ends[i - 1] \in Nat /\ L.ends[i - 1] <= L.ends[i]
        BY <1>1, <3>1 DEF Cut
      <3> QED BY <3>2, <3>3
    <2> QED BY <2>1, <2>2
  <1>3. L.ends[i] <= Len(L.bytes)
    BY DEF Cut
  <1>4. SizeOf(L, i) \in Nat /\ StartOf(L, i) + SizeOf(L, i) = L.ends[i]
    BY <1>1, <1>2 DEF SizeOf
  <1> DEFINE m == StartOf(L, i)
             n == L.ends[i]
  <1>5. /\ m + 1 \in 1..(Len(L.bytes) + 1) /\ n \in (m + 1) - 1..Len(L.bytes)
        /\ n - (m + 1) + 1 = SizeOf(L, i)
    <2>1. Len(L.bytes) \in Nat
      BY <1>1
    <2>2. m \in Nat /\ n \in Nat /\ m <= n /\ n <= Len(L.bytes) /\ SizeOf(L, i) = n - m
      BY <1>1, <1>2, <1>3 DEF SizeOf
    <2> HIDE DEF m, n
    <2> QED BY <2>1, <2>2
  <1>6. /\ Seg(L, i) \in Seq(Record) /\ Len(Seg(L, i)) = n - (m + 1) + 1
        /\ \A p \in 1..(n - (m + 1) + 1) : Seg(L, i)[p] = L.bytes[(m + 1) + p - 1]
    <2>1. Seg(L, i) = SubSeq(L.bytes, m + 1, n)
      BY DEF Seg
    <2>2. /\ L.bytes \in Seq(Record)
          /\ m + 1 \in 1..(Len(L.bytes) + 1) /\ n \in (m + 1) - 1..Len(L.bytes)
      BY <1>1, <1>5
    <2> HIDE DEF m, n
    <2>3. /\ SubSeq(L.bytes, m + 1, n) \in Seq(Record)
          /\ Len(SubSeq(L.bytes, m + 1, n)) = n - (m + 1) + 1
          /\ \A p \in 1..(n - (m + 1) + 1) :
               SubSeq(L.bytes, m + 1, n)[p] = L.bytes[(m + 1) + p - 1]
      BY <2>2, SubSeqType
    <2> QED BY <2>1, <2>3
  <1>7. \A p \in 1..SizeOf(L, i) : (m + 1) + p - 1 = m + p
    BY <1>2, <1>4
  <1> HIDE DEF m, n
  <1>8. \A p \in 1..SizeOf(L, i) : Seg(L, i)[p] = L.bytes[m + p]
    BY <1>5, <1>6, <1>7
  <1> QED BY <1>1, <1>2, <1>3, <1>4, <1>5, <1>6, <1>8 DEF m, n

\* The index the leader answers is well cut, and is what it serves.
LEMMA IndexOK ==
  ASSUME LogOK
  PROVE  /\ SegsType(Index) /\ Cut(Index) /\ Index.frozen \in Nat
         /\ Len(Index.ends) <= MaxSegs /\ Index.bytes = Served
  <1>1. Served \in Seq(Record) /\ bounds \in Seq(Nat) /\ Len(bounds) \in Nat
    BY ServedType DEF LogOK
  <1>2. Index.bytes = Served /\ Index.frozen \in Nat
    BY <1>1 DEF Index
  <1>3. \A i \in 1..Len(bounds) : bounds[i] \in Nat /\ bounds[i] <= Len(Served)
    BY <1>1 DEF LogOK
  <1>4. \A i \in 2..Len(bounds) : bounds[i - 1] <= bounds[i]
    BY DEF LogOK
  <1>5. CASE Index.ends = bounds
    BY <1>1, <1>2, <1>3, <1>4, <1>5, SegmentLogAssumption DEF SegsType, Cut, LogOK
  <1>6. CASE Index.ends = Append(bounds, Len(Served))
    <2> DEFINE E == Index.ends
    <2>1. /\ E \in Seq(Nat) /\ Len(E) = Len(bounds) + 1
          /\ \A i \in 1..Len(bounds) : E[i] = bounds[i]
          /\ E[Len(bounds) + 1] = Len(Served)
      BY <1>1, <1>6
    <2>2. Len(E) <= MaxSegs
      BY <1>1, <2>1, SegmentLogAssumption DEF LogOK
    <2> HIDE DEF E
    <2>3. \A i \in 1..Len(E) : E[i] <= Len(Served)
      <3> SUFFICES ASSUME NEW i \in 1..Len(E) PROVE E[i] <= Len(Served)
        OBVIOUS
      <3>1. CASE i = Len(bounds) + 1
        BY <1>1, <2>1, <3>1
      <3>2. CASE i \in 1..Len(bounds)
        BY <1>3, <2>1, <3>2
      <3> QED BY <1>1, <2>1, <3>1, <3>2
    <2>4. \A i \in 2..Len(E) : E[i - 1] <= E[i]
      <3> SUFFICES ASSUME NEW i \in 2..Len(E) PROVE E[i - 1] <= E[i]
        OBVIOUS
      <3>1. i - 1 \in 1..Len(bounds) /\ E[i - 1] = bounds[i - 1]
        <4>1. Len(E) = Len(bounds) + 1 /\ Len(bounds) \in Nat
          BY <1>1, <2>1
        <4>2. i - 1 \in 1..Len(bounds)
          BY <4>1
        <4> QED BY <2>1, <4>2
      <3>2. CASE i = Len(bounds) + 1
        BY <1>3, <2>1, <3>1, <3>2
      <3>3. CASE i \in 2..Len(bounds)
        <4>1. E[i] = bounds[i]
          BY <1>1, <2>1, <3>3
        <4> QED BY <1>4, <3>1, <3>3, <4>1
      <3> QED BY <1>1, <2>1, <3>2, <3>3
    <2> QED BY <1>1, <1>2, <2>1, <2>2, <2>3, <2>4 DEF SegsType, Cut, E
  <1> QED BY <1>5, <1>6 DEF Index

\* A life of the leader that has begun is still there after any step of the leader,
\* and has lost nothing.
LEMMA LivesGrow ==
  ASSUME LogOK, LeaderNext
  PROVE  \A e \in 1..Len(lives) : e \in 1..Len(lives') /\ Prefix(lives[e], lives'[e])
  <1>1. Served \in Seq(Record) /\ Len(lives) \in Nat \ {0} /\ lives \in Seq(Seq(Record))
    BY ServedType DEF LogOK
  <1> SUFFICES ASSUME NEW e \in 1..Len(lives)
               PROVE  e \in 1..Len(lives') /\ Prefix(lives[e], lives'[e])
    OBVIOUS
  <1>2. lives[e] \in Seq(Record) /\ Len(lives[e]) \in Nat
    BY <1>1
  <1>3. CASE \E r \in Record, roll, synced \in BOOLEAN : Log(r, roll, synced)
    <2> PICK r \in Record, roll \in BOOLEAN, synced \in BOOLEAN : Log(r, roll, synced)
      BY <1>3
    <2>1. lives' = [lives EXCEPT ![Len(lives)] = Append(@, r)]
      BY DEF Log
    <2>2. Len(lives') = Len(lives) /\ lives'[e] \in {lives[e], Append(lives[e], r)}
      BY <1>1, <2>1
    <2>3. /\ Len(Append(lives[e], r)) = Len(lives[e]) + 1
          /\ \A p \in 1..Len(lives[e]) : Append(lives[e], r)[p] = lives[e][p]
      BY <1>2
    <2>4. Prefix(lives[e], lives[e]) /\ Prefix(lives[e], Append(lives[e], r))
      BY <1>2, <2>3 DEF Prefix
    <2> QED BY <2>2, <2>4
  <1>4. CASE lives' = lives
    BY <1>2, <1>4 DEF Prefix
  <1>5. CASE lives' = Append(lives, SubSeq(Served, 1, committed))
    <2>1. Len(lives') = Len(lives) + 1 /\ lives'[e] = lives[e]
      BY <1>1, <1>5
    <2> QED BY <1>1, <1>2, <2>1 DEF Prefix
  <1> QED BY <1>3, <1>4, <1>5 DEF LeaderNext, Flush, Restart

\* What was served by one life is still so after any step of the leader.
LEMMA WasServedStays ==
  ASSUME LogOK, LeaderNext, NEW bytes \in Seq(Record), WasServed(bytes)
  PROVE  \E e \in 1..Len(lives') : Prefix(bytes, lives'[e])
  <1>1. PICK e \in 1..Len(lives) : Prefix(bytes, lives[e])
    BY DEF WasServed
  <1>2. e \in 1..Len(lives') /\ Prefix(lives[e], lives'[e])
    BY LivesGrow
  <1>3. lives[e] \in Seq(Record) /\ Len(lives[e]) \in Nat /\ Len(bytes) \in Nat
    <2>1. lives[e] \in Seq(Record)
      BY DEF LogOK
    <2> QED BY <2>1
  <1>4. lives'[e] \in Seq(Record) /\ Len(lives'[e]) \in Nat
    <2>1. LogOK'
      BY LeaderOK
    <2>2. lives' \in Seq(Seq(Record))
      BY <2>1 DEF LogOK
    <2> QED BY <1>2, <2>2
  <1> QED BY <1>1, <1>2, <1>3, <1>4 DEF Prefix

-----------------------------------------------------------------------------
\* The file that is used for a synced segment has the segment's content.
LEMMA FileIsSeg ==
  ASSUME TypeOK, FilesOK, NEW i \in 1..Len(files)
  PROVE  FileOf(want, i, files[i]) = Seg(want, i)
  <1>1. files[i] \in {"growing", "frozen"}
    BY DEF TypeOK
  <1>2. CASE files[i] = "growing"
    BY <1>2 DEF FilesOK, FileOf
  <1>3. CASE files[i] = "frozen"
    <2>1. <<i, Seg(want, i)>> \in DOMAIN final
      BY <1>3 DEF FilesOK
    <2> QED BY <1>3, <2>1 DEF FilesOK, FileOf
  <1> QED BY <1>1, <1>2, <1>3

\* The check of getNewSegments is as strong as a comparison of all records: if the
\* common size is all that the follower has, the leader's log begins with it.
LEMMA CommonIsPrefix ==
  ASSUME Inv, Synced, NEW k \in 0..Both, CommonSegs(k), SumCommon(k) = Len(last.bytes)
  PROVE  Prefix(last.bytes, want.bytes)
  <1>1. /\ SegsType(last) /\ SegsType(want) /\ Cut(last) /\ Cut(want)
        /\ Len(files) = Len(want.ends)
    BY DEF Inv, TypeOK, CutsOK, Synced
  <1>2. /\ Len(last.ends) \in Nat /\ Len(want.ends) \in Nat
        /\ Len(last.bytes) \in Nat /\ Len(want.bytes) \in Nat
        /\ last.bytes \in Seq(Record) /\ want.bytes \in Seq(Record)
    BY <1>1 DEF SegsType
  <1>3. k \in Nat /\ k <= Len(want.ends) /\ k <= Len(last.ends)
    BY <1>2 DEF Both, Smaller
  <1> DEFINE start == StartOf(want, k + 1)
  <1>4. SubSeq(want.bytes, 1, start) = SubSeq(last.bytes, 1, StartOf(last, k + 1))
    BY DEF CommonSegs, Leading
  <1>5. start \in 0..Len(want.bytes) /\ StartOf(last, k + 1) \in 0..Len(last.bytes)
    <2>1. CASE k = 0
      BY <1>2, <2>1 DEF StartOf
    <2>2. CASE k # 0
      <3>1. k \in 1..Len(want.ends) /\ k \in 1..Len(last.ends) /\ k + 1 # 1 /\ (k + 1) - 1 = k
        BY <1>2, <1>3, <2>2
      <3>2. start = want.ends[k] /\ StartOf(last, k + 1) = last.ends[k]
        BY <3>1 DEF StartOf
      <3>3. /\ want.ends[k] \in Nat /\ want.ends[k] <= Len(want.bytes)
            /\ last.ends[k] \in Nat /\ last.ends[k] <= Len(last.bytes)
        BY <1>1, <3>1, SegFacts
      <3> QED BY <1>2, <3>2, <3>3
    <2> QED BY <2>1, <2>2
  <1>6. /\ StartOf(last, k + 1) = start
        /\ \A p \in 1..start : want.bytes[p] = last.bytes[p]
    <2> DEFINE w == SubSeq(want.bytes, 1, start)
               l == SubSeq(last.bytes, 1, StartOf(last, k + 1))
    <2>1. Len(w) = start /\ \A p \in 1..start : w[p] = want.bytes[p]
      BY <1>2, <1>5, FrontType
    <2>2. /\ Len(l) = StartOf(last, k + 1)
          /\ \A p \in 1..StartOf(last, k + 1) : l[p] = last.bytes[p]
      BY <1>2, <1>5, FrontType
    <2>3. w = l
      BY <1>4
    <2> HIDE DEF w, l, start
    <2> QED BY <2>1, <2>2, <2>3
  <1> HIDE DEF start
  <1>7. CASE SumCommon(k) = start
    BY <1>2, <1>5, <1>6, <1>7 DEF Prefix
  <1>8. CASE SumCommon(k) # start
    <2> DEFINE i == k + 1
    <2>1. /\ k # Both /\ SizeOf(want, i) # SizeOf(last, i) /\ Extends(i)
          /\ SumCommon(k) = start + Smaller(SizeOf(want, i), SizeOf(last, i))
      BY <1>8 DEF SumCommon, start
    <2>2. i \in 1..Len(want.ends) /\ i \in 1..Len(last.ends)
      BY <1>2, <1>3, <2>1 DEF Both, Smaller
    <2>3. /\ SizeOf(want, i) \in Nat /\ start + SizeOf(want, i) = want.ends[i]
          /\ want.ends[i] <= Len(want.bytes) /\ want.ends[i] \in Nat
          /\ \A p \in 1..SizeOf(want, i) : Seg(want, i)[p] = want.bytes[start + p]
      BY <1>1, <2>2, SegFacts DEF start
    <2>4. /\ SizeOf(last, i) \in Nat /\ start + SizeOf(last, i) = last.ends[i]
          /\ last.ends[i] <= Len(last.bytes) /\ last.ends[i] \in Nat
          /\ Len(Seg(last, i)) = SizeOf(last, i) /\ Seg(last, i) \in Seq(Record)
          /\ \A p \in 1..SizeOf(last, i) : Seg(last, i)[p] = last.bytes[start + p]
      BY <1>1, <1>6, <2>2, SegFacts DEF start
    <2> HIDE DEF i
    <2>5. /\ SizeOf(last, i) < SizeOf(want, i)
          /\ Len(last.bytes) = start + SizeOf(last, i)
      BY <1>2, <1>5, <2>1, <2>3, <2>4 DEF Smaller
    <2>6. FileOf(want, i, files[i]) = Seg(want, i)
      BY <1>1, <2>2, FileIsSeg DEF Inv
    <2>7. BeginsWith(Seg(want, i), Seg(last, i))
      BY <2>1, <2>3, <2>4, <2>5, <2>6 DEF Extends
    <2>8. \A p \in 1..SizeOf(last, i) : Seg(want, i)[p] = Seg(last, i)[p]
      <3>1. Seg(want, i) \in Seq(Record) /\ Len(Seg(want, i)) = SizeOf(want, i)
        BY <1>1, <2>2, SegFacts
      <3>2. SizeOf(last, i) \in 0..Len(Seg(want, i))
        BY <2>3, <2>4, <2>5, <3>1
      <3>3. \A p \in 1..SizeOf(last, i) :
              SubSeq(Seg(want, i), 1, SizeOf(last, i))[p] = Seg(want, i)[p]
        BY <3>1, <3>2, FrontType
      <3> QED BY <2>4, <2>7, <3>3 DEF BeginsWith
    <2>9. \A p \in 1..SizeOf(last, i) : want.bytes[start + p] = last.bytes[start + p]
      BY <2>3, <2>4, <2>5, <2>8
    <2>10. \A p \in 1..Len(last.bytes) : last.bytes[p] = want.bytes[p]
      <3> SUFFICES ASSUME NEW p \in 1..Len(last.bytes)
                   PROVE  last.bytes[p] = want.bytes[p]
        OBVIOUS
      <3>1. CASE p <= start
        BY <1>5, <1>6, <3>1
      <3>2. CASE p > start
        <4>1. p - start \in 1..SizeOf(last, i) /\ start + (p - start) = p
          BY <1>2, <1>5, <2>4, <2>5, <3>2
        <4> QED BY <2>9, <4>1
      <3> QED BY <1>5, <3>1, <3>2
    <2> QED BY <1>2, <1>5, <2>3, <2>4, <2>5, <2>10 DEF Prefix
  <1> QED BY <1>7, <1>8

-----------------------------------------------------------------------------
\* The invariant holds of a follower that has just been started for the first time.
LEMMA InvInit ==
  ASSUME Init
  PROVE  Inv
  <1>1. LogOK
    BY LogInitOK DEF Init
  <1>2. lives = << <<>> >> /\ lives \in Seq(Seq(Record)) /\ Len(lives) = 1 /\ lives[1] = <<>>
    BY <1>1 DEF Init, LogInit, LogOK
  <1>3. TypeOK
    BY <1>1, NetSourceAssumption DEF Init, LogOK, TypeOK, SegsType, Phases, NoIndex
  <1>4. CutsOK /\ PhaseOK /\ FilesOK
    BY SegmentLogAssumption DEF Init, NoIndex, CutsOK, Cut, PhaseOK, FilesOK
  <1>5. WasServed(<<>>)
    BY <1>2 DEF WasServed, Prefix
  <1>6. ServedOK /\ StreamOK
    BY <1>5 DEF Init, NoIndex, ServedOK, StreamOK, Streamed
  <1> QED BY <1>1, <1>3, <1>4, <1>6 DEF Inv

\* The leader's steps leave a follower as it is, and what it was served still stands.
LEMMA InvLeader ==
  ASSUME Inv, Leader
  PROVE  Inv'
  <1> USE DEF Leader, fetchVars, cacheVars, localVars
  <1>1. LogOK'
    BY LeaderOK DEF Inv
  <1>2. TypeOK'
    BY <1>1 DEF Inv, TypeOK, LogOK, SegsType
  <1>3. CutsOK' /\ PhaseOK' /\ StreamOK'
    BY DEF Inv, CutsOK, Cut, PhaseOK, StreamOK, Streamed
  <1>4. FilesOK'
    BY DEF Inv, FilesOK, Seg, StartOf
  <1>5. last.bytes \in Seq(Record) /\ want.bytes \in Seq(Record)
    BY DEF Inv, TypeOK, SegsType
  <1>6. ServedOK'
    <2>1. \E e \in 1..Len(lives') : Prefix(last.bytes, lives'[e])
      BY <1>5, WasServedStays DEF Inv, ServedOK
    <2>2. \E e \in 1..Len(lives') : Prefix(want.bytes, lives'[e])
      BY <1>5, WasServedStays DEF Inv, ServedOK
    <2> QED BY <2>1, <2>2 DEF ServedOK, WasServed, Prefix
  <1> QED BY <1>1, <1>2, <1>3, <1>4, <1>6 DEF Inv

\* What is left of the invariant to check when neither the leader nor the indexes move.
LEMMA InvOfUnchanged ==
  ASSUME Inv, UNCHANGED <<logVars, last, want>>
  PROVE  LogOK' /\ CutsOK' /\ ServedOK'
  <1>1. LogOK'
    BY DEF Inv, LogOK, logVars, Served
  <1>2. CutsOK'
    BY DEF Inv, CutsOK, Cut
  <1>3. ServedOK'
    BY DEF Inv, ServedOK, WasServed, Prefix, logVars
  <1> QED BY <1>1, <1>2, <1>3

\* Ending a call of GetMutations, with or without a report, before anything was
\* accepted: the locals are gone, what is verified and applied stays.
LEMMA InvLocalsGone ==
  ASSUME Inv, LocalsGone, UNCHANGED <<logVars, cacheVars, last, chan, applied, faults>>,
         pc' \in {"index", "split", "failed"},
         Streamed = Len(last.bytes), chan = <<>>
  PROVE  Inv'
  <1> USE DEF LocalsGone, NoIndex, cacheVars
  <1>1. LogOK'
    BY DEF Inv, LogOK, logVars, Served
  <1>2. TypeOK'
    <2>0. LeaderType /\ CacheType /\ FetchType /\ StreamType
      BY TypeParts DEF Inv
    <2>1. LeaderType'
      BY <2>0 DEF LeaderType, logVars
    <2>2. CacheType'
      BY <2>0 DEF CacheType
    <2>3. FetchType'
      BY <2>0 DEF FetchType, SegsType, Phases
    <2>4. StreamType'
      BY <2>0 DEF StreamType
    <2> QED BY <2>1, <2>2, <2>3, <2>4, TypePartsNext
  <1>3. CutsOK' /\ PhaseOK'
    BY SegmentLogAssumption DEF Inv, CutsOK, Cut, PhaseOK
  <1>4. FilesOK'
    BY DEF Inv, FilesOK
  <1>5. WasServed(<<>>)' /\ WasServed(last.bytes)'
    <2>1. lives' = lives /\ last' = last
      BY DEF logVars
    <2>2. 1 \in 1..Len(lives) /\ Len(lives[1]) \in Nat
      BY ServedType DEF Inv, LogOK
    <2>3. WasServed(<<>>)'
      BY <2>1, <2>2 DEF WasServed, Prefix
    <2>4. WasServed(last.bytes)
      BY DEF Inv, ServedOK
    <2>5. WasServed(last.bytes)'
      BY <2>1, <2>4 DEF WasServed, Prefix
    <2> QED BY <2>3, <2>5
  <1>6. ServedOK'
    BY <1>5 DEF ServedOK
  <1>7. StreamOK'
    BY DEF Inv, StreamOK, Streamed
  <1> QED BY <1>1, <1>2, <1>3, <1>4, <1>6, <1>7 DEF Inv

\* The calls of GetMutations that end by themselves before they stream: a refused or
\* corrupt download, ErrSplit, an unchanged index; and the one that ends because
\* everything has been streamed.
LEMMA InvEnd ==
  ASSUME Inv,
         \/ SyncFails \/ EndOfStream
         \/ \E k \in 0..Both : ReportSplit(k) \/ UnchangedSegments(k)
  PROVE  Inv'
  <1>2. CASE EndOfStream
    <2>1. Streamed = Len(last.bytes) /\ chan = <<>>
      BY <1>2 DEF EndOfStream, Inv, PhaseOK, Streamed
    <2> QED BY <1>2, <2>1, InvLocalsGone DEF EndOfStream
  <1>3. CASE \/ SyncFails
             \/ \E k \in 0..Both : ReportSplit(k) \/ UnchangedSegments(k)
    <2>1. /\ pc # "send" /\ pc' \in {"split", "failed"}
          /\ LocalsGone /\ UNCHANGED <<logVars, cacheVars, last, chan, applied, faults>>
      BY <1>3 DEF SyncFails, ReportSplit, UnchangedSegments, Synced
    <2>2. Streamed = Len(last.bytes) /\ chan = <<>>
      BY <2>1 DEF Inv, StreamOK, Streamed
    <2> QED BY <2>1, <2>2, InvLocalsGone
  <1> QED BY <1>2, <1>3

\* A sequence with n marks after it.
LEMMA WithSkips ==
  ASSUME NEW s \in Seq(Record \union {Skipped}), NEW n \in Nat
  PROVE  LET t == s \o [p \in 1..n |-> Skipped]
         IN  /\ t \in Seq(Record \union {Skipped}) /\ Len(t) = Len(s) + n
             /\ \A p \in 1..Len(s) : t[p] = s[p]
             /\ \A p \in 1..Len(t) : p \notin 1..Len(s) => t[p] = Skipped
  <1> DEFINE m == [p \in 1..n |-> Skipped]
             t == s \o m
  <1>1. m \in Seq(Record \union {Skipped}) /\ Len(m) = n /\ \A p \in 1..n : m[p] = Skipped
    OBVIOUS
  <1> HIDE DEF m
  <1>2. t \in Seq(Record \union {Skipped}) /\ Len(t) = Len(s) + Len(m)
    BY <1>1
  <1>3. \A p \in 1..(Len(s) + Len(m)) : t[p] = IF p <= Len(s) THEN s[p] ELSE m[p - Len(s)]
    BY <1>1
  <1>4. Len(s) \in Nat
    OBVIOUS
  <1> HIDE DEF t
  <1>5. \A p \in 1..Len(s) : t[p] = s[p]
    BY <1>1, <1>3, <1>4
  <1>6. ASSUME NEW p \in 1..Len(t), p \notin 1..Len(s)
        PROVE  t[p] = Skipped
    <2>1. ~(p <= Len(s)) /\ p - Len(s) \in 1..n
      BY <1>1, <1>2, <1>4, <1>6
    <2> QED BY <1>1, <1>2, <1>3, <2>1
  <1> QED BY <1>1, <1>2, <1>5, <1>6 DEF t, m

\* When a call is cut short, the corpus has processed no more than is verified; the rest
\* of that gets its marks, so that corpus and verified log agree on how far they are.
LEMMA InvCallCut ==
  ASSUME Inv, CallCut
  PROVE  Inv'
  <1> DEFINE n == Len(last.bytes) - Len(applied)
  <1>1. /\ pc' = "failed" /\ chan' = <<>> /\ faults' = faults + 1 /\ LocalsGone
        /\ UNCHANGED <<logVars, cacheVars, last>>
        /\ applied' = applied \o [p \in 1..n |-> Skipped]
    BY DEF CallCut
  <1>2. /\ last.bytes \in Seq(Record) /\ applied \in Seq(Record \union {Skipped})
        /\ Len(last.bytes) \in Nat /\ Len(applied) \in Nat /\ Len(chan) \in Nat
        /\ faults \in Nat
    BY Lengths DEF Inv, TypeOK
  <1>3. n \in Nat
    BY <1>2 DEF Inv, StreamOK, Streamed, PhaseOK
  <1>4. Len(applied) + n = Len(last.bytes)
    BY <1>2
  <1> HIDE DEF n
  <1>5. /\ applied' \in Seq(Record \union {Skipped}) /\ Len(applied') = Len(applied) + n
        /\ \A p \in 1..Len(applied) : applied'[p] = applied[p]
        /\ \A p \in 1..Len(applied') : p \notin 1..Len(applied) => applied'[p] = Skipped
    BY <1>1, <1>2, <1>3, WithSkips
  <1>6. LogOK'
    BY <1>1 DEF Inv, LogOK, logVars, Served
  <1>7. TypeOK'
    <2>0. LeaderType /\ CacheType /\ FetchType /\ StreamType
      BY TypeParts DEF Inv
    <2>1. LeaderType'
      BY <1>1, <2>0 DEF LeaderType, logVars
    <2>2. CacheType'
      BY <1>1, <2>0 DEF CacheType, cacheVars
    <2>3. FetchType'
      BY <1>1, <2>0 DEF FetchType, SegsType, Phases, LocalsGone, NoIndex
    <2>4. chan' \in Seq(Record) /\ Len(chan') <= ChanCap
      BY <1>1, NetSourceAssumption
    <2>5. faults' \in Nat
      BY <1>1, <1>2
    <2>6. StreamType'
      BY <1>5, <2>4, <2>5 DEF StreamType
    <2> QED BY <2>1, <2>2, <2>3, <2>6, TypePartsNext
  <1>8. CutsOK' /\ PhaseOK'
    BY <1>1, SegmentLogAssumption DEF Inv, CutsOK, Cut, PhaseOK, LocalsGone, NoIndex
  <1>9. FilesOK'
    BY <1>1 DEF Inv, FilesOK, LocalsGone, cacheVars
  <1>10. ServedOK'
    <2>1. lives' = lives /\ last' = last /\ want'.bytes = <<>>
      BY <1>1 DEF logVars, LocalsGone, NoIndex
    <2>2. 1 \in 1..Len(lives) /\ Len(lives[1]) \in Nat
      BY ServedType DEF Inv, LogOK
    <2>3. WasServed(<<>>)
      BY <2>2 DEF WasServed, Prefix
    <2>4. WasServed(last.bytes)
      BY DEF Inv, ServedOK
    <2> QED BY <2>1, <2>3, <2>4 DEF ServedOK, WasServed, Prefix
  <1>11. StreamOK'
    <2>1. Len(applied') + Len(chan') = Streamed'
      <3>1. Streamed' = Len(last.bytes)
        BY <1>1 DEF Streamed
      <3>2. Len(applied') = Len(last.bytes) /\ Len(chan') = 0
        BY <1>1, <1>4, <1>5
      <3> QED BY <1>2, <3>1, <3>2
    <2>2. ASSUME NEW p \in 1..Len(applied')
          PROVE  applied'[p] \in {last'.bytes[p], Skipped}
      <3>1. CASE p \in 1..Len(applied)
        BY <1>1, <1>5, <3>1 DEF Inv, StreamOK
      <3>2. CASE p \notin 1..Len(applied)
        BY <1>5, <3>2
      <3> QED BY <3>1, <3>2
    <2>3. faults' # 0
      BY <1>1, <1>2
    <2>4. \A p \in 1..Len(chan') : chan'[p] = last'.bytes[Len(applied') + p]
      BY <1>1
    <2> QED BY <1>1, <2>1, <2>2, <2>3, <2>4 DEF StreamOK
  <1> QED BY <1>6, <1>7, <1>8, <1>9, <1>10, <1>11 DEF Inv

\* Asking the leader for its index, and calling RunUpdateLoop again.
LEMMA InvAsk ==
  ASSUME Inv, LongPoll \/ RunAgain
  PROVE  Inv'
  <1> USE DEF LongPoll, RunAgain, cacheVars, fetchVars, localVars
  <1>1. LogOK' /\ CutsOK' /\ ServedOK'
    BY InvOfUnchanged
  <1>2. TypeOK'
    BY DEF Inv, TypeOK, SegsType, logVars, Phases
  <1>3. PhaseOK' /\ StreamOK'
    BY DEF Inv, PhaseOK, StreamOK, Streamed
  <1>4. FilesOK'
    BY DEF Inv, FilesOK, Seg, StartOf
  <1> QED BY <1>1, <1>2, <1>3, <1>4 DEF Inv

\* The index the leader answers is one it serves, and no file belongs to it yet.
LEMMA InvGetServerSegments ==
  ASSUME Inv, GetServerSegments
  PROVE  Inv'
  <1> USE DEF GetServerSegments, cacheVars
  <1>1. /\ SegsType(Index) /\ Cut(Index) /\ Index.frozen \in Nat
        /\ Len(Index.ends) <= MaxSegs /\ Index.bytes = Served
    BY IndexOK DEF Inv
  <1>2. files = <<>>
    BY DEF Inv, PhaseOK
  <1>3. LogOK'
    BY DEF Inv, LogOK, logVars, Served
  <1>4. TypeOK'
    <2>0. LeaderType /\ CacheType /\ FetchType /\ StreamType
      BY TypeParts DEF Inv
    <2>1. Len(Index.ends) \in Nat
      BY <1>1 DEF SegsType
    <2>2. LeaderType'
      BY <2>0 DEF LeaderType, logVars
    <2>3. CacheType'
      BY <2>0 DEF CacheType
    <2>4. FetchType'
      BY <1>1, <1>2, <2>0, <2>1 DEF FetchType, SegsType, Phases
    <2>5. StreamType'
      BY <2>0 DEF StreamType
    <2> QED BY <2>2, <2>3, <2>4, <2>5, TypePartsNext
  <1>5. CutsOK'
    BY <1>1 DEF Inv, CutsOK, Cut
  <1>6. PhaseOK' /\ StreamOK'
    BY DEF PhaseOK, Inv, StreamOK, Streamed
  <1>7. FilesOK'
    BY <1>2 DEF Inv, FilesOK
  <1>8. ServedOK'
    <2>1. Len(lives) \in 1..Len(lives) /\ Len(Served) \in Nat /\ lives[Len(lives)] = Served
      BY ServedType DEF Inv, Served
    <2>2. Prefix(Served, lives[Len(lives)])
      BY <2>1 DEF Prefix
    <2>3. lives' = lives /\ last' = last /\ want'.bytes = Served
      BY <1>1 DEF logVars
    <2>4. WasServed(Served)
      BY <2>1, <2>2 DEF WasServed
    <2>5. WasServed(last.bytes)
      BY DEF Inv, ServedOK
    <2> QED BY <2>3, <2>4, <2>5 DEF ServedOK, WasServed, Prefix
  <1> QED BY <1>3, <1>4, <1>5, <1>6, <1>7, <1>8 DEF Inv

\* A restart forgets what was applied and what was verified, never more.
LEMMA InvFollowerRestart ==
  ASSUME Inv, FollowerRestart
  PROVE  Inv'
  <1> USE DEF FollowerRestart, LocalsGone, NoIndex, cacheVars
  <1>1. LogOK'
    BY DEF Inv, LogOK, logVars, Served
  <1>2. TypeOK'
    <2>0. LeaderType /\ CacheType /\ FetchType /\ StreamType
      BY TypeParts DEF Inv
    <2>1. LeaderType'
      BY <2>0 DEF LeaderType, logVars
    <2>2. CacheType'
      BY <2>0 DEF CacheType
    <2>3. FetchType'
      BY <2>0 DEF FetchType, SegsType, Phases
    <2>4. StreamType'
      BY <2>0, NetSourceAssumption DEF StreamType
    <2> QED BY <2>1, <2>2, <2>3, <2>4, TypePartsNext
  <1>3. CutsOK' /\ PhaseOK'
    BY SegmentLogAssumption DEF CutsOK, Cut, PhaseOK
  <1>4. FilesOK'
    BY DEF Inv, FilesOK
  <1>5. WasServed(<<>>)'
    <2>1. 1 \in 1..Len(lives) /\ Len(lives[1]) \in Nat
      BY ServedType DEF Inv, LogOK
    <2> QED BY <2>1 DEF WasServed, Prefix, logVars
  <1>6. ServedOK'
    BY <1>5 DEF ServedOK
  <1>7. StreamOK'
    BY DEF StreamOK, Streamed
  <1> QED BY <1>1, <1>2, <1>3, <1>4, <1>6, <1>7 DEF Inv

-----------------------------------------------------------------------------
\* The segment that is synced next has its place in the cache directory.
LEMMA TargetType ==
  ASSUME Inv, Next1 <= Len(want.ends)
  PROVE  /\ Next1 \in 1..Len(want.ends) /\ Next1 \in 1..MaxSegs
         /\ Next1 = Len(files) + 1 /\ Len(files) \in Nat
         /\ Target \in Seq(Record) /\ Target = Seg(want, Next1)
         /\ FinalName \in (1..MaxSegs) \X Seq(Record)
  <1>1. Len(files) \in Nat /\ Len(want.ends) \in Nat /\ SegsType(want)
    BY DEF Inv, TypeOK, SegsType
  <1>2. Next1 \in 1..Len(want.ends) /\ Next1 \in 1..MaxSegs
    BY <1>1, SegmentLogAssumption DEF Next1, Inv, CutsOK
  <1>3. Target \in Seq(Record)
    BY <1>1, <1>2, SegFacts DEF Target, Inv, CutsOK
  <1> QED BY <1>1, <1>2, <1>3 DEF Next1, Target, FinalName

\* One more segment is synced, from a file that has its content.
LEMMA InvSynced ==
  ASSUME Inv, NEW kind \in {"growing", "frozen"}, Next1 <= Len(want.ends),
         pc \in {"sync", "download"}, pc' = "sync", have' \in Seq(Record),
         files' = Append(files, kind),
         UNCHANGED <<logVars, last, want, sent, chan, applied, faults>>,
         partial' \in [1..MaxSegs -> Seq(Record)],
         DOMAIN final \subseteq DOMAIN final',
         DOMAIN final' \subseteq (1..MaxSegs) \X Seq(Record),
         \A name \in DOMAIN final' : final'[name] = name[2],
         \A i \in 1..MaxSegs : i # Next1 => partial'[i] = partial[i],
         IF kind = "growing" THEN partial'[Next1] = Target ELSE FinalName \in DOMAIN final'
  PROVE  Inv'
  <1>1. LogOK' /\ CutsOK' /\ ServedOK'
    BY InvOfUnchanged
  <1>2. /\ Next1 \in 1..Len(want.ends) /\ Next1 \in 1..MaxSegs
        /\ Next1 = Len(files) + 1 /\ Len(files) \in Nat
        /\ Target = Seg(want, Next1)
    BY TargetType
  <1>3. /\ files \in Seq({"growing", "frozen"}) /\ files' \in Seq({"growing", "frozen"})
        /\ Len(files') = Next1 /\ files'[Next1] = kind
        /\ \A i \in 1..Len(files) : files'[i] = files[i]
    BY <1>2 DEF Inv, TypeOK
  <1>4. TypeOK'
    <2>1. \A name \in DOMAIN final' : final'[name] \in Seq(Record)
      OBVIOUS
    <2>2. Len(files') <= Len(want'.ends)
      BY <1>2, <1>3
    <2> QED BY <1>3, <2>1, <2>2 DEF Inv, TypeOK, SegsType, logVars, Phases
  <1>5. PhaseOK' /\ StreamOK'
    BY DEF PhaseOK, Inv, StreamOK, Streamed
  <1>6. FilesOK'
    <2>1. ASSUME NEW i \in 1..Len(files')
          PROVE  IF files'[i] = "growing"
                 THEN partial'[i] = Seg(want, i)
                 ELSE <<i, Seg(want, i)>> \in DOMAIN final'
      <3>1. CASE i = Next1
        BY <1>2, <1>3, <3>1 DEF FinalName
      <3>2. CASE i \in 1..Len(files)
        <4>1. i # Next1 /\ i \in 1..MaxSegs
          BY <1>2, <3>2, SegmentLogAssumption
        <4> QED BY <1>3, <3>2, <4>1 DEF Inv, FilesOK
      <3> QED BY <1>2, <1>3, <3>1, <3>2
    <2> QED BY <2>1 DEF FilesOK, Seg, StartOf
  <1> QED BY <1>1, <1>4, <1>5, <1>6 DEF Inv

\* syncSeg's ways to a file: it was there, the growing one is promoted or kept, or new
\* contents with the right sum are renamed into place.
LEMMA InvSyncedSteps ==
  ASSUME Inv, SyncCached \/ SyncPromote \/ SyncKeep \/ SyncCommit
  PROVE  Inv'
  <1> USE DEF cacheVars
  <1>1. /\ partial \in [1..MaxSegs -> Seq(Record)] /\ have \in Seq(Record)
        /\ DOMAIN final \subseteq (1..MaxSegs) \X Seq(Record)
        /\ \A name \in DOMAIN final : final[name] = name[2]
    BY DEF Inv, TypeOK, FilesOK
  <1>2. Next1 <= Len(want.ends)
    <2>1. Len(files) \in Nat /\ Len(want.ends) \in Nat
      BY DEF Inv, TypeOK, SegsType
    <2> QED BY <2>1 DEF SyncCached, SyncPromote, SyncKeep, SyncCommit, Syncing, Next1, Inv, PhaseOK
  <1>3. /\ Next1 \in 1..MaxSegs /\ Target \in Seq(Record)
        /\ FinalName \in (1..MaxSegs) \X Seq(Record) /\ FinalName[2] = Target
    BY <1>2, TargetType DEF FinalName
  <1>4. <<>> \in Seq(Record)
    OBVIOUS
  <1>5. CASE SyncCached
    BY <1>1, <1>2, <1>5, InvSynced DEF SyncCached, Syncing, Cached
  <1>6. CASE SyncKeep
    BY <1>1, <1>2, <1>6, InvSynced DEF SyncKeep, Syncing
  <1>7. CASE SyncPromote
    <2>1. final' = Renamed(final, FinalName, Target)
      BY <1>7 DEF SyncPromote
    <2>2. /\ DOMAIN final' = DOMAIN final \union {FinalName}
          /\ \A name \in DOMAIN final' : final'[name] = name[2]
      BY <1>1, <1>3, <2>1 DEF Renamed
    <2>3. /\ partial' \in [1..MaxSegs -> Seq(Record)]
          /\ \A i \in 1..MaxSegs : i # Next1 => partial'[i] = partial[i]
      BY <1>1, <1>3, <1>4, <1>7 DEF SyncPromote
    <2>4. DOMAIN final' \subseteq (1..MaxSegs) \X Seq(Record)
      BY <1>1, <1>3, <2>2
    <2> HIDE DEF cacheVars
    <2>5. /\ pc = "sync" /\ pc' = pc /\ have' = have /\ files' = Append(files, "frozen")
          /\ UNCHANGED <<logVars, last, want, sent, chan, applied, faults>>
      BY <1>7 DEF SyncPromote, Syncing
    <2> QED BY <1>1, <1>2, <2>2, <2>3, <2>4, <2>5, InvSynced
  <1>8. CASE SyncCommit
    <2>0. /\ pc = "download" /\ pc' = "sync" /\ have' = <<>>
          /\ UNCHANGED <<logVars, last, want, sent, chan, applied, faults>>
      BY <1>8 DEF SyncCommit
    <2>1. NewContents(Downloaded) = Target
      BY <1>8 DEF SyncCommit, GoodSum
    <2>2. CASE Next1 <= want.frozen
      <3>1. /\ final' = Renamed(final, FinalName, Target)
            /\ files' = Append(files, "frozen") /\ partial' = partial
        BY <1>8, <2>1, <2>2 DEF SyncCommit
      <3>2. /\ DOMAIN final' = DOMAIN final \union {FinalName}
            /\ \A name \in DOMAIN final' : final'[name] = name[2]
        BY <1>1, <1>3, <3>1 DEF Renamed
      <3>3. DOMAIN final' \subseteq (1..MaxSegs) \X Seq(Record)
        BY <1>1, <1>3, <3>2
      <3> QED BY <1>1, <1>2, <1>4, <2>0, <3>1, <3>2, <3>3, InvSynced
    <2>3. CASE ~(Next1 <= want.frozen)
      <3>1. /\ partial' = [partial EXCEPT ![Next1] = Target]
            /\ files' = Append(files, "growing") /\ final' = final
        BY <1>8, <2>1, <2>3 DEF SyncCommit
      <3>2. /\ partial' \in [1..MaxSegs -> Seq(Record)] /\ partial'[Next1] = Target
            /\ \A i \in 1..MaxSegs : i # Next1 => partial'[i] = partial[i]
        BY <1>1, <1>3, <3>1
      <3> QED BY <1>1, <1>2, <1>4, <2>0, <3>1, <3>2, InvSynced
    <2> QED BY <2>2, <2>3
  <1> QED BY <1>5, <1>6, <1>7, <1>8

\* syncSeg before it has a file: the partial file read, or dropped to start over.
LEMMA InvUnsynced ==
  ASSUME Inv, SyncStale \/ SyncDrop
  PROVE  Inv'
  <1> USE DEF cacheVars
  <1>1. LogOK' /\ CutsOK' /\ ServedOK'
    BY InvOfUnchanged DEF SyncStale, SyncDrop
  <1>2. Next1 <= Len(want.ends)
    <2>1. Len(files) \in Nat /\ Len(want.ends) \in Nat
      BY Lengths DEF Inv
    <2> QED BY <2>1 DEF SyncStale, SyncDrop, Syncing, Next1, Inv, PhaseOK
  <1>3. Next1 \in 1..MaxSegs /\ Next1 = Len(files) + 1 /\ Len(files) \in Nat
        /\ Len(want.ends) \in Nat
    <2>1. Len(files) \in Nat /\ Len(want.ends) \in Nat
      BY Lengths DEF Inv
    <2> QED BY <1>2, <2>1, TargetType DEF Next1, Inv
  <1>4. /\ partial' \in [1..MaxSegs -> Seq(Record)] /\ have' \in Seq(Record)
        /\ \A i \in 1..MaxSegs : i # Next1 => partial'[i] = partial[i]
    <2>1. partial \in [1..MaxSegs -> Seq(Record)] /\ <<>> \in Seq(Record)
      BY DEF Inv, TypeOK
    <2> QED BY <1>3, <2>1 DEF SyncStale, SyncDrop
  <1>5. TypeOK'
    BY <1>4 DEF SyncStale, SyncDrop, Inv, TypeOK, SegsType, logVars, Phases
  <1>6. PhaseOK' /\ StreamOK'
    BY <1>2, <1>3 DEF SyncStale, SyncDrop, Syncing, Inv, PhaseOK, StreamOK, Streamed
  <1>7. FilesOK'
    <2>1. files' = files /\ want' = want /\ final' = final
      BY DEF SyncStale, SyncDrop
    <2>2. \A i \in 1..Len(files) : partial'[i] = partial[i]
      <3>1. Len(want.ends) <= MaxSegs
        BY DEF Inv, CutsOK
      <3>2. \A i \in 1..Len(files) : i \in 1..MaxSegs /\ i # Next1
        BY <1>2, <1>3, <3>1, SegmentLogAssumption
      <3> QED BY <1>4, <3>2
    <2> QED BY <2>1, <2>2 DEF Inv, FilesOK, Seg, StartOf
  <1> QED BY <1>1, <1>5, <1>6, <1>7 DEF Inv

-----------------------------------------------------------------------------
\* What is accepted begins with what was verified before, so what the corpus has
\* processed stays the beginning of what is verified.
LEMMA InvAcceptSegments ==
  ASSUME Inv, NEW k \in 0..Both, AcceptSegments(k)
  PROVE  Inv'
  <1>1. Prefix(last.bytes, want.bytes)
    BY CommonIsPrefix DEF AcceptSegments
  <1>2. /\ last' = [bytes |-> want.bytes, ends |-> want.ends, files |-> files]
        /\ sent' = Len(last.bytes) /\ pc = "sync" /\ pc' = "send"
        /\ Len(files) = Len(want.ends)
        /\ UNCHANGED <<logVars, partial, final, want, files, have, chan, applied, faults>>
    BY DEF AcceptSegments, Synced, cacheVars
  <1>3. /\ last.bytes \in Seq(Record) /\ want.bytes \in Seq(Record)
        /\ Len(last.bytes) \in Nat /\ Len(want.bytes) \in Nat
    BY Lengths DEF Inv
  <1>4. LogOK'
    BY <1>2 DEF Inv, LogOK, logVars, Served
  <1>5. TypeOK'
    <2>0. LeaderType /\ CacheType /\ FetchType /\ StreamType
      BY TypeParts DEF Inv
    <2>1. LeaderType'
      BY <1>2, <2>0 DEF LeaderType, logVars
    <2>2. CacheType'
      BY <1>2, <2>0 DEF CacheType
    <2>3. FetchType'
      BY <1>2, <1>3, <2>0 DEF FetchType, SegsType, Phases
    <2>4. StreamType'
      BY <1>2, <2>0 DEF StreamType
    <2> QED BY <2>1, <2>2, <2>3, <2>4, TypePartsNext
  <1>6. CutsOK' /\ PhaseOK'
    BY <1>1, <1>2 DEF Inv, CutsOK, Cut, PhaseOK, Prefix
  <1>7. FilesOK'
    BY <1>2 DEF Inv, FilesOK, Seg, StartOf
  <1>8. ServedOK'
    <2>1. WasServed(want.bytes)
      BY DEF Inv, ServedOK
    <2>2. last'.bytes = want.bytes /\ want' = want /\ lives' = lives
      BY <1>2 DEF logVars
    <2> QED BY <2>1, <2>2 DEF ServedOK, WasServed, Prefix
  <1>9. StreamOK'
    <2>1. /\ Len(applied) + Len(chan) = Len(last.bytes) /\ chan = <<>>
          /\ \A p \in 1..Len(applied) : applied[p] \in {last.bytes[p], Skipped}
          /\ faults = 0 => \A p \in 1..Len(applied) : applied[p] # Skipped
          /\ Len(applied) \in Nat
      BY <1>2 DEF Inv, TypeOK, StreamOK, Streamed
    <2>2. \A p \in 1..Len(applied) : applied[p] \in {want.bytes[p], Skipped}
      BY <1>1, <2>1 DEF Prefix
    <2> QED BY <1>2, <2>1, <2>2 DEF StreamOK, Streamed
  <1> QED BY <1>4, <1>5, <1>6, <1>7, <1>8, <1>9 DEF Inv

\* The record that is sent is the one that follows what the channel holds: the file
\* has it, at the place the index says.
LEMMA InvSendMutation ==
  ASSUME Inv, NEW i \in 1..Len(want.ends), SendMutation(i)
  PROVE  Inv'
  <1>1. /\ pc = "send" /\ pc' = pc /\ sent' = sent + 1
        /\ UNCHANGED <<logVars, partial, final, last, want, files, have, applied, faults>>
    BY DEF SendMutation, cacheVars
  <1>2. /\ Len(files) = Len(want.ends) /\ last.bytes = want.bytes /\ sent <= Len(want.bytes)
        /\ sent \in Nat /\ SegsType(want) /\ Cut(want)
    BY <1>1 DEF Inv, PhaseOK, TypeOK, CutsOK
  <1>3. /\ want.ends[i] \in Nat /\ StartOf(want, i) \in Nat
        /\ want.ends[i] <= Len(want.bytes) /\ SizeOf(want, i) \in Nat
        /\ StartOf(want, i) + SizeOf(want, i) = want.ends[i]
        /\ Seg(want, i) \in Seq(Record) /\ Len(Seg(want, i)) = SizeOf(want, i)
        /\ \A p \in 1..SizeOf(want, i) : Seg(want, i)[p] = want.bytes[StartOf(want, i) + p]
    BY <1>2, SegFacts
  <1>a. Len(want.bytes) \in Nat
    BY <1>2 DEF SegsType
  <1>4. FileOf(want, i, files[i]) = Seg(want, i)
    BY <1>2, FileIsSeg DEF Inv
  <1> DEFINE q == sent + 1 - StartOf(want, i)
             r == want.bytes[sent + 1]
  <1>5. q \in 1..SizeOf(want, i) /\ StartOf(want, i) + q = sent + 1
    <2> DEFINE b == StartOf(want, i)
               z == SizeOf(want, i)
    <2>1. b <= sent /\ sent < b + z
      BY <1>3 DEF SendMutation
    <2>2. b \in Nat /\ z \in Nat /\ sent \in Nat
      BY <1>2, <1>3
    <2> HIDE DEF b, z
    <2>3. sent + 1 - b \in 1..z /\ b + (sent + 1 - b) = sent + 1
      BY <2>1, <2>2
    <2> QED BY <2>3 DEF b, z
  <1>6. chan' = Append(chan, r) /\ r \in Record /\ sent + 1 <= Len(want.bytes)
    <2>1. Seg(want, i)[q] = r /\ q <= Len(Seg(want, i))
      BY <1>3, <1>5
    <2>2. Seg(want, i)[q] \in Record
      BY <1>3, <1>5
    <2>3. sent + 1 <= Len(want.bytes)
      BY <1>2, <1>3, <1>a DEF SendMutation
    <2> QED BY <1>4, <2>1, <2>2, <2>3 DEF SendMutation
  <1> HIDE DEF q, r
  <1>7. LogOK' /\ CutsOK' /\ ServedOK'
    BY <1>1, InvOfUnchanged
  <1>8. TypeOK'
    <2>1. Len(chan) < ChanCap /\ chan \in Seq(Record) /\ Len(chan) \in Nat /\ ChanCap \in Nat
      BY NetSourceAssumption DEF SendMutation, Inv, TypeOK
    <2>2. chan' \in Seq(Record) /\ Len(chan') <= ChanCap
      BY <1>6, <2>1
    <2>0. LeaderType /\ CacheType /\ FetchType /\ StreamType
      BY TypeParts DEF Inv
    <2>3. LeaderType'
      BY <1>1, <2>0 DEF LeaderType, logVars
    <2>4. CacheType'
      BY <1>1, <2>0 DEF CacheType
    <2>5. FetchType'
      BY <1>1, <1>2, <2>0 DEF FetchType, SegsType, Phases
    <2>6. StreamType'
      BY <1>1, <2>0, <2>2 DEF StreamType
    <2> QED BY <2>3, <2>4, <2>5, <2>6, TypePartsNext
  <1>9. PhaseOK'
    BY <1>1, <1>2, <1>6 DEF PhaseOK
  <1>10. FilesOK'
    BY <1>1 DEF Inv, FilesOK, Seg, StartOf
  <1>11. StreamOK'
    <2>1. /\ chan \in Seq(Record) /\ Len(chan) \in Nat /\ Len(applied) \in Nat
          /\ Len(applied) + Len(chan) = sent
          /\ \A p \in 1..Len(applied) : applied[p] \in {last.bytes[p], Skipped}
          /\ \A p \in 1..Len(chan) : chan[p] = last.bytes[Len(applied) + p]
          /\ faults = 0 => \A p \in 1..Len(applied) : applied[p] # Skipped
      BY <1>1 DEF Inv, TypeOK, StreamOK, Streamed
    <2>2. /\ Len(chan') = Len(chan) + 1 /\ chan'[Len(chan) + 1] = r
          /\ \A p \in 1..Len(chan) : chan'[p] = chan[p]
      BY <1>6, <2>1
    <2>3. r = last.bytes[Len(applied) + (Len(chan) + 1)]
      BY <1>2, <2>1 DEF r
    <2>4. \A p \in 1..Len(chan') : chan'[p] = last.bytes[Len(applied) + p]
      <3> SUFFICES ASSUME NEW p \in 1..Len(chan')
                   PROVE  chan'[p] = last.bytes[Len(applied) + p]
        OBVIOUS
      <3>1. CASE p = Len(chan) + 1
        BY <2>2, <2>3, <3>1
      <3>2. CASE p \in 1..Len(chan)
        BY <2>1, <2>2, <3>2
      <3> QED BY <2>1, <2>2, <3>1, <3>2
    <2>5. Streamed' = sent + 1 /\ Len(applied') + Len(chan') = Streamed'
      <3>1. Streamed' = sent'
        BY <1>1 DEF Streamed
      <3>2. Len(applied') = Len(applied) /\ Len(chan') = Len(chan) + 1
        BY <1>1, <2>2
      <3>3. Len(applied) \in Nat /\ Len(chan) \in Nat /\ Len(applied) + Len(chan) = sent
        BY <2>1
      <3> QED BY <1>1, <1>2, <3>1, <3>2, <3>3
    <2>6. /\ \A p \in 1..Len(applied') : applied'[p] \in {last'.bytes[p], Skipped}
          /\ \A p \in 1..Len(chan') : chan'[p] = last'.bytes[Len(applied') + p]
          /\ faults' = 0 => \A p \in 1..Len(applied') : applied'[p] # Skipped
      BY <1>1, <2>1, <2>4
    <2> QED BY <1>1, <2>5, <2>6 DEF StreamOK
  <1> QED BY <1>7, <1>8, <1>9, <1>10, <1>11 DEF Inv

\* The corpus processes the record that follows what it has processed.
LEMMA InvApplyMutation ==
  ASSUME Inv, ApplyMutation
  PROVE  Inv'
  <1> USE DEF cacheVars, fetchVars, localVars
  <1>1. /\ chan # <<>> /\ applied' = Append(applied, Head(chan)) /\ chan' = Tail(chan)
        /\ UNCHANGED <<logVars, pc, partial, final, last, want, files, have, sent, faults>>
    BY DEF ApplyMutation
  <1>2. /\ chan \in Seq(Record) /\ applied \in Seq(Record \union {Skipped})
        /\ Len(chan) \in Nat \ {0} /\ Len(applied) \in Nat
        /\ \A p \in 1..Len(applied) : applied[p] \in {last.bytes[p], Skipped}
        /\ \A p \in 1..Len(chan) : chan[p] = last.bytes[Len(applied) + p]
        /\ faults = 0 => \A p \in 1..Len(applied) : applied[p] # Skipped
    <2>1. /\ chan \in Seq(Record) /\ applied \in Seq(Record \union {Skipped})
          /\ Len(chan) \in Nat /\ Len(applied) \in Nat
      BY Lengths DEF Inv
    <2>2. Len(chan) # 0
      BY <1>1, <2>1
    <2> QED BY <2>1, <2>2 DEF Inv, StreamOK
  <1>3. /\ Head(chan) = chan[1] /\ Head(chan) \in Record
        /\ Tail(chan) \in Seq(Record) /\ Len(Tail(chan)) = Len(chan) - 1
        /\ \A p \in 1..(Len(chan) - 1) : Tail(chan)[p] = chan[p + 1]
    BY <1>1, <1>2
  <1>4. LogOK' /\ CutsOK' /\ ServedOK'
    BY <1>1, InvOfUnchanged
  <1>5. TypeOK'
    <2>1. Len(chan') <= ChanCap
      BY <1>1, <1>2, <1>3, NetSourceAssumption DEF Inv, TypeOK
    <2>0. LeaderType /\ CacheType /\ FetchType /\ StreamType
      BY TypeParts DEF Inv
    <2>2. chan' \in Seq(Record) /\ applied' \in Seq(Record \union {Skipped})
      BY <1>1, <1>2, <1>3
    <2>3. LeaderType'
      BY <1>1, <2>0 DEF LeaderType, logVars
    <2>4. CacheType'
      BY <1>1, <2>0 DEF CacheType
    <2>5. FetchType'
      BY <1>1, <2>0 DEF FetchType, SegsType, Phases
    <2>6. StreamType'
      BY <1>1, <2>0, <2>1, <2>2 DEF StreamType
    <2> QED BY <2>3, <2>4, <2>5, <2>6, TypePartsNext
  <1>6. PhaseOK'
    BY <1>1 DEF Inv, PhaseOK
  <1>7. FilesOK'
    BY <1>1 DEF Inv, FilesOK, Seg, StartOf
  <1>8. StreamOK'
    <2>1. /\ Len(applied') = Len(applied) + 1 /\ applied'[Len(applied) + 1] = chan[1]
          /\ \A p \in 1..Len(applied) : applied'[p] = applied[p]
          /\ Len(chan') = Len(chan) - 1
      BY <1>1, <1>2, <1>3
    <2>2. Streamed' = Streamed /\ Len(applied') + Len(chan') = Streamed'
      BY <1>1, <1>2, <2>1 DEF Inv, StreamOK, Streamed
    <2>3. pc # "send" => FALSE
      BY <1>1 DEF Inv, StreamOK
    <2>4. chan[1] = last.bytes[Len(applied) + 1]
      BY <1>2
    <2>5. \A p \in 1..Len(applied') : applied'[p] \in {last'.bytes[p], Skipped}
      BY <1>1, <1>2, <2>1, <2>4
    <2>7. faults' = 0 => \A p \in 1..Len(applied') : applied'[p] # Skipped
      BY <1>1, <1>2, <1>3, <2>1, NetSourceAssumption
    <2>6. \A p \in 1..Len(chan') : chan'[p] = last'.bytes[Len(applied') + p]
      <3> SUFFICES ASSUME NEW p \in 1..Len(chan')
                   PROVE  chan'[p] = last.bytes[Len(applied') + p]
        BY <1>1
      <3>1. p + 1 \in 1..Len(chan) /\ Len(applied) + (p + 1) = Len(applied') + p
        BY <1>2, <2>1
      <3>2. chan'[p] = chan[p + 1]
        BY <1>1, <1>2, <1>3, <2>1
      <3> QED BY <1>2, <3>1, <3>2
    <2> QED BY <1>1, <2>2, <2>3, <2>5, <2>6, <2>7 DEF StreamOK
  <1> QED BY <1>4, <1>5, <1>6, <1>7, <1>8 DEF Inv

-----------------------------------------------------------------------------
\* Every step keeps the invariant.
LEMMA InvNext ==
  ASSUME Inv, [Next]_vars
  PROVE  Inv'
  <1>1. CASE UNCHANGED vars
    <2> USE <1>1 DEF vars, cacheVars, fetchVars, localVars
    <2>1. LogOK' /\ CutsOK' /\ ServedOK'
      BY InvOfUnchanged
    <2>2. TypeOK'
      BY DEF Inv, TypeOK, SegsType, logVars
    <2>3. PhaseOK' /\ StreamOK'
      BY DEF Inv, PhaseOK, StreamOK, Streamed
    <2>4. FilesOK'
      BY DEF Inv, FilesOK, Seg, StartOf
    <2> QED BY <2>1, <2>2, <2>3, <2>4 DEF Inv
  <1>2. CASE LongPoll \/ RunAgain
    BY <1>2, InvAsk
  <1>3. CASE GetServerSegments
    BY <1>3, InvGetServerSegments
  <1>4. CASE SyncSeg
    BY <1>4, InvSyncedSteps, InvUnsynced, InvEnd DEF SyncSeg
  <1>5. CASE CheckSegments
    BY <1>5, InvAcceptSegments, InvEnd DEF CheckSegments
  <1>6. CASE \E i \in 1..Len(want.ends) : SendMutation(i)
    BY <1>6, InvSendMutation
  <1>7. CASE ApplyMutation
    BY <1>7, InvApplyMutation
  <1>8. CASE EndOfStream
    BY <1>8, InvEnd
  <1>11. CASE CallCut
    BY <1>11, InvCallCut
  <1>9. CASE FollowerRestart
    BY <1>9, InvFollowerRestart
  <1>10. CASE Leader
    BY <1>10, InvLeader
  <1> QED BY <1>1, <1>2, <1>3, <1>4, <1>5, <1>6, <1>7, <1>8, <1>9, <1>10, <1>11
          DEF Next, FollowerStep

\* The inductive invariant holds in every behaviour.
THEOREM Invariant == Spec => []Inv
  BY InvInit, InvNext, PTL DEF Spec

\* Every variable of a follower and of its leader keeps its type, whatever the order
\* of growth, restarts, downloads and deliveries (netsource.go, RunUpdateLoop).
THEOREM TypeCorrect == Spec => []TypeOK
  <1>1. Inv => TypeOK
    BY DEF Inv
  <1> QED BY <1>1, Invariant, PTL

\* What the corpus has processed are records of one history of the leader, each in its
\* place, and without a fault all of its beginning: what is applied goes along what is
\* verified, and what is verified one life has served (netsource.go, getNewSegments and
\* fetchAndSendMutations).
THEOREM AppliedWasServed == Spec => []AppliedIsServed
  <1>1. ASSUME Inv
        PROVE  AppliedIsServed
    <2>1. PICK e \in 1..Len(lives) : Prefix(last.bytes, lives[e])
      BY <1>1 DEF Inv, ServedOK, WasServed
    <2>2. /\ Len(applied) \in Nat /\ Len(chan) \in Nat /\ Len(last.bytes) \in Nat
          /\ Len(lives[e]) \in Nat
      <3>1. lives[e] \in Seq(Record)
        BY <1>1 DEF Inv, TypeOK
      <3> QED BY <1>1, <3>1, Lengths DEF Inv
    <2>3. Len(applied) <= Len(last.bytes)
      BY <1>1, <2>2 DEF Inv, StreamOK, Streamed, PhaseOK
    <2>4. \A p \in 1..Len(applied) : applied[p] \in {last.bytes[p], Skipped}
      BY <1>1 DEF Inv, StreamOK
    <2>5. Along(applied, lives[e])
      BY <2>1, <2>2, <2>3, <2>4 DEF Prefix, Along
    <2>6. faults = 0 => \A p \in 1..Len(applied) : applied[p] # Skipped
      BY <1>1 DEF Inv, StreamOK
    <2> QED BY <2>5, <2>6 DEF AppliedIsServed
  <1> QED BY <1>1, Invariant, PTL

-----------------------------------------------------------------------------
\* No segment is empty.
Rising(cuts) == \A i \in 1..Len(cuts) : (IF i = 1 THEN 0 ELSE cuts[i - 1]) < cuts[i]

\* The segments of a list are not empty and are all of its bytes.
Full(L) == Rising(L.ends) /\ Len(L.bytes) = EndOf(L.ends)

\* A restart of the leader lost some of L.
Lost(L, k) == \E e \in 2..Len(k) : k[e] < Len(L.bytes)

\* A leader that serves s, cut at cuts, has all of L, and has not cut again what
\* comes before the last segment of L.
Grew(L, s, cuts) ==
  /\ Prefix(L.bytes, s)
  /\ \A i \in 1..Len(L.ends) : i < Len(L.ends) => i <= Len(cuts) /\ cuts[i] = L.ends[i]
  /\ L.ends # <<>> /\ Len(L.ends) <= Len(cuts) => Len(L.bytes) <= cuts[Len(L.ends)]

\* The same of an index that it answers.
Follows(L, M) ==
  /\ Prefix(L.bytes, M.bytes)
  /\ Len(L.ends) <= Len(M.ends)
  /\ \A i \in 1..Len(L.ends) : i < Len(L.ends) => M.ends[i] = L.ends[i]
  /\ L.ends # <<>> => Len(L.bytes) <= M.ends[Len(L.ends)]

\* What a follower has, the leader has in the same segments, or it has lost it; and so
\* has the index that is compared with what the follower has.
Intact(L) == Full(L) /\ (Lost(L, kept) \/ Grew(L, Served, bounds))
Comparable ==
  pc \in {"sync", "download"} => Lost(last, kept) \/ Follows(last, want)

SplitInv ==
  /\ kept # <<>> /\ Rising(bounds)
  /\ Intact(last) /\ Intact(want) /\ Comparable /\ SplitIsReal

-----------------------------------------------------------------------------
\* No step of the leader makes an empty segment: it freezes only records, and takes up
\* again only the last segment.
LEMMA RisingStays ==
  ASSUME LogOK, Rising(bounds), LeaderNext
  PROVE  Rising(bounds')
  <1>1. /\ bounds \in Seq(Nat) /\ Len(bounds) \in Nat /\ committed \in Nat
        /\ Len(Served) \in Nat
    BY ServedType DEF LogOK
  <1>2. ASSUME NEW end \in Nat, end > EndOf(bounds), bounds' = Append(bounds, end)
        PROVE  Rising(bounds')
    <2>1. /\ Len(bounds') = Len(bounds) + 1 /\ bounds'[Len(bounds) + 1] = end
          /\ \A i \in 1..Len(bounds) : bounds'[i] = bounds[i]
      BY <1>1, <1>2
    <2> SUFFICES ASSUME NEW i \in 1..Len(bounds')
                 PROVE  (IF i = 1 THEN 0 ELSE bounds'[i - 1]) < bounds'[i]
      BY DEF Rising
    <2>2. CASE i \in 1..Len(bounds)
      <3>1. i = 1 \/ i - 1 \in 1..Len(bounds)
        BY <1>1, <2>2
      <3> QED BY <2>1, <2>2, <3>1 DEF Rising
    <2>3. CASE i = Len(bounds) + 1
      <3>1. CASE bounds = <<>>
        <4>1. Len(bounds) = 0 /\ EndOf(bounds) = 0
          BY <3>1 DEF EndOf
        <4> QED BY <1>2, <2>1, <2>3, <4>1
      <3>2. CASE bounds # <<>>
        <4>1. Len(bounds) \in 1..Len(bounds) /\ EndOf(bounds) = bounds[Len(bounds)]
          BY <1>1, <3>2 DEF EndOf
        <4>2. i # 1 /\ i - 1 = Len(bounds)
          BY <1>1, <2>3, <4>1
        <4> QED BY <1>2, <2>1, <2>3, <4>1, <4>2
      <3> QED BY <3>1, <3>2
    <2> QED BY <1>1, <2>1, <2>2, <2>3
  <1>3. CASE bounds' = SubSeq(bounds, 1, Len(bounds) - 1) /\ bounds # <<>>
    <2>1. Len(bounds) - 1 \in 0..Len(bounds)
      BY <1>1, <1>3
    <2>2. /\ Len(bounds') = Len(bounds) - 1
          /\ \A i \in 1..(Len(bounds) - 1) : bounds'[i] = bounds[i]
      BY <1>1, <1>3, <2>1, FrontType
    <2> QED BY <1>1, <2>2 DEF Rising
  <1>4. CASE bounds' = bounds
    BY <1>4
  <1> QED BY <1>1, <1>2, <1>3, <1>4 DEF LeaderNext, Log, Flush, Restart

\* The leader grows what a follower has, in the same segments, or loses some of it.
LEMMA IntactStays ==
  ASSUME LogOK, kept # <<>>, LeaderNext, NEW L, SegsType(L), Full(L),
         Lost(L, kept) \/ Grew(L, Served, bounds)
  PROVE  Lost(L, kept') \/ Grew(L, Served', bounds')
  <1> DEFINE n == Len(L.bytes)
             g == Len(L.ends)
  <1>1. /\ bounds \in Seq(Nat) /\ Len(bounds) \in Nat /\ committed \in Nat
        /\ Served \in Seq(Record) /\ Len(Served) \in Nat /\ committed <= Len(Served)
        /\ kept \in Seq(Nat) /\ Len(kept) \in Nat /\ Len(lives) \in Nat \ {0}
        /\ lives \in Seq(Seq(Record))
    BY ServedType DEF LogOK
  <1>2. n \in Nat /\ g \in Nat /\ L.ends \in Seq(Nat)
    BY DEF SegsType
  <1>3. kept' = kept \/ kept' = Append(kept, committed)
    BY DEF LeaderNext, Log, Flush, Restart
  <1>4. CASE Lost(L, kept)
    <2>1. PICK e \in 2..Len(kept) : kept[e] < n
      BY <1>4 DEF Lost
    <2>2. CASE kept' = Append(kept, committed)
      <3>1. Len(kept') = Len(kept) + 1 /\ kept'[e] = kept[e]
        BY <1>1, <2>2
      <3>2. e \in 2..Len(kept')
        BY <1>1, <3>1
      <3> QED BY <2>1, <3>1, <3>2 DEF Lost
    <2> QED BY <1>3, <1>4, <2>2
  <1>5. CASE Grew(L, Served, bounds)
    <2>1. /\ n <= Len(Served) /\ (\A p \in 1..n : L.bytes[p] = Served[p])
          /\ \A i \in 1..g : i < g => i <= Len(bounds) /\ bounds[i] = L.ends[i]
          /\ L.ends # <<>> /\ g <= Len(bounds) => n <= bounds[g]
      BY <1>5 DEF Grew, Prefix
    <2>2. CASE \E r \in Record, roll, synced \in BOOLEAN : Log(r, roll, synced)
      <3> PICK r \in Record, roll \in BOOLEAN, synced \in BOOLEAN : Log(r, roll, synced)
        BY <2>2
      <3>1. Served' = Append(Served, r)
        BY <1>1 DEF Log, Served
      <3>2. Len(Served') = Len(Served) + 1 /\ \A p \in 1..n : Served'[p] = L.bytes[p]
        BY <1>1, <1>2, <2>1, <3>1
      <3>3. Prefix(L.bytes, Served')
        BY <1>1, <1>2, <2>1, <3>2 DEF Prefix
      <3>4. bounds' = bounds \/ bounds' = Append(bounds, Len(Served))
        BY DEF Log
      <3>5. /\ Len(bounds) <= Len(bounds') /\ Len(bounds') <= Len(bounds) + 1
            /\ \A i \in 1..Len(bounds) : bounds'[i] = bounds[i]
            /\ Len(bounds') # Len(bounds) => bounds'[Len(bounds')] = Len(Served)
        <4>1. CASE bounds' = bounds
          BY <1>1, <4>1
        <4>2. CASE bounds' = Append(bounds, Len(Served))
          <5> DEFINE end == Len(Served)
          <5>1. end \in Nat /\ bounds' = Append(bounds, end)
            BY <1>1, <4>2
          <5> HIDE DEF end
          <5>2. /\ Len(bounds') = Len(bounds) + 1 /\ bounds'[Len(bounds) + 1] = end
                /\ \A i \in 1..Len(bounds) : bounds'[i] = bounds[i]
            BY <1>1, <5>1
          <5> QED BY <1>1, <5>2 DEF end
        <4> QED BY <3>4, <4>1, <4>2
      <3> HIDE DEF n, g
      <3>6. \A i \in 1..g : i < g => i <= Len(bounds') /\ bounds'[i] = L.ends[i]
        BY <1>1, <1>2, <2>1, <3>4, <3>5
      <3>7. L.ends # <<>> /\ g <= Len(bounds') => n <= bounds'[g]
        <4> SUFFICES ASSUME L.ends # <<>>, g <= Len(bounds') PROVE n <= bounds'[g]
          OBVIOUS
        <4>1. g \in 1..Len(bounds')
          BY <1>2, <3>4, <1>1 DEF g
        <4>2. CASE g <= Len(bounds)
          <5>1. g \in 1..Len(bounds)
            BY <1>1, <4>1, <4>2
          <5> QED BY <2>1, <3>5, <5>1
        <4>3. CASE g > Len(bounds)
          <5>1. g = Len(bounds') /\ Len(bounds') # Len(bounds)
            BY <1>1, <1>2, <3>4, <3>5, <4>1, <4>3
          <5> QED BY <2>1, <3>5, <5>1
        <4> QED BY <1>1, <1>2, <4>2, <4>3
      <3> QED BY <3>3, <3>6, <3>7 DEF Grew, n, g
    <2>3. CASE Flush
      <3>1. Served' = Served /\ bounds' = bounds
        BY <2>3 DEF Flush, Served
      <3> QED BY <1>5, <3>1
    <2>4. CASE \E cut \in {"same", "reopen", "freeze"} : Restart(cut)
      <3> PICK cut \in {"same", "reopen", "freeze"} : Restart(cut)
        BY <2>4
      <3>1. kept' = Append(kept, committed) /\ lives' = Append(lives, SubSeq(Served, 1, committed))
        BY DEF Restart
      <3>2. CASE committed < n
        <4>1. Len(kept) # 0
          BY <1>1
        <4>2. Len(kept) + 1 \in 2..Len(kept') /\ kept'[Len(kept) + 1] = committed
          BY <1>1, <3>1, <4>1
        <4> QED BY <3>2, <4>2 DEF Lost
      <3>3. CASE committed >= n
        <4>1. Served' = SubSeq(Served, 1, committed)
          BY <1>1, <3>1 DEF Served
        <4>2. Len(Served') = committed /\ \A p \in 1..committed : Served'[p] = Served[p]
          BY <1>1, <4>1, FrontType
        <4>3. Prefix(L.bytes, Served')
          <5>1. \A p \in 1..n : p \in 1..committed
            BY <1>1, <1>2, <3>3
          <5>2. \A p \in 1..n : L.bytes[p] = Served'[p]
            BY <2>1, <4>2, <5>1
          <5> QED BY <3>3, <4>2, <5>2 DEF Prefix
        <4>4. CASE bounds' = bounds
          BY <2>1, <4>3, <4>4 DEF Grew
        <4>5. CASE bounds' = Append(bounds, committed)
          <5>1. /\ Len(bounds') = Len(bounds) + 1 /\ bounds'[Len(bounds) + 1] = committed
                /\ \A i \in 1..Len(bounds) : bounds'[i] = bounds[i]
            BY <1>1, <4>5
          <5> HIDE DEF n
          <5>2. \A i \in 1..g : i < g => i <= Len(bounds') /\ bounds'[i] = L.ends[i]
            BY <1>1, <1>2, <2>1, <5>1
          <5>3. L.ends # <<>> => g \in Nat \ {0}
            BY <1>2
          <5> HIDE DEF g
          <5>4. L.ends # <<>> /\ g <= Len(bounds') => n <= bounds'[g]
            <6> SUFFICES ASSUME L.ends # <<>>, g <= Len(bounds') PROVE n <= bounds'[g]
              OBVIOUS
            <6>1. g \in 1..Len(bounds) \/ g = Len(bounds) + 1
              BY <1>1, <5>1, <5>3
            <6>2. CASE g \in 1..Len(bounds)
              <7>1. g <= Len(bounds) /\ bounds'[g] = bounds[g]
                BY <1>1, <5>1, <6>2
              <7> QED BY <2>1, <7>1
            <6>3. CASE g = Len(bounds) + 1
              BY <3>3, <5>1, <6>3
            <6> QED BY <6>1, <6>2, <6>3
          <5> QED BY <4>3, <5>2, <5>4 DEF Grew, n, g
        <4>6. CASE /\ bounds' = SubSeq(bounds, 1, Len(bounds) - 1) /\ bounds # <<>>
                   /\ committed = EndOf(bounds)
          <5>1. Len(bounds) - 1 \in 0..Len(bounds) /\ Len(bounds) \in 1..Len(bounds)
            BY <1>1, <4>6
          <5>2. /\ Len(bounds') = Len(bounds) - 1
                /\ \A i \in 1..(Len(bounds) - 1) : bounds'[i] = bounds[i]
            BY <1>1, <4>6, <5>1, FrontType
          <5>3. committed = bounds[Len(bounds)]
            BY <4>6 DEF EndOf
          <5>4. ASSUME NEW i \in 1..g, i < g PROVE i # Len(bounds)
            <6>1. i + 1 \in 1..g /\ i + 1 <= g
              BY <1>2, <5>4
            <6>2. n = L.ends[g] /\ L.ends # <<>>
              BY <1>2, <5>4 DEF Full, EndOf
            <6> SUFFICES ASSUME i = Len(bounds) PROVE FALSE
              OBVIOUS
            <6>3. L.ends[i] = committed /\ L.ends[i] >= n
              BY <2>1, <3>3, <5>3, <5>4
            <6>4. g = i + 1
              <7> SUFFICES ASSUME g # i + 1 PROVE FALSE
                OBVIOUS
              <7>1. i + 1 < g /\ i + 1 \in 1..g
                BY <1>2, <6>1
              <7>2. i + 1 <= Len(bounds)
                BY <2>1, <7>1
              <7> QED BY <1>1, <7>2
            <6>5. L.ends[i] < L.ends[i + 1]
              <7>1. i + 1 # 1 /\ (i + 1) - 1 = i
                BY <1>2
              <7> QED BY <6>1, <7>1 DEF Full, Rising
            <6> QED BY <1>2, <6>2, <6>3, <6>4, <6>5
          <5> HIDE DEF n, g
          <5>5. \A i \in 1..g : i < g => i <= Len(bounds') /\ bounds'[i] = L.ends[i]
            <6> SUFFICES ASSUME NEW i \in 1..g, i < g
                         PROVE  i <= Len(bounds') /\ bounds'[i] = L.ends[i]
              OBVIOUS
            <6>1. i <= Len(bounds) /\ bounds[i] = L.ends[i] /\ i # Len(bounds)
              BY <2>1, <5>4
            <6>2. i \in 1..(Len(bounds) - 1)
              BY <1>1, <1>2, <6>1
            <6> QED BY <1>1, <5>2, <6>1, <6>2
          <5>6. L.ends # <<>> => g \in Nat \ {0}
            BY <1>2 DEF g
          <5>7. L.ends # <<>> /\ g <= Len(bounds') => n <= bounds'[g]
            <6> SUFFICES ASSUME L.ends # <<>>, g <= Len(bounds') PROVE n <= bounds'[g]
              OBVIOUS
            <6>1. g \in 1..(Len(bounds) - 1) /\ g <= Len(bounds)
              BY <1>1, <5>2, <5>6
            <6> QED BY <2>1, <5>2, <6>1
          <5> QED BY <4>3, <5>5, <5>7 DEF Grew, n, g
        <4> QED BY <4>4, <4>5, <4>6 DEF Restart
      <3> QED BY <1>1, <1>2, <3>2, <3>3
    <2> QED BY <2>2, <2>3, <2>4 DEF LeaderNext
  <1> QED BY <1>4, <1>5

-----------------------------------------------------------------------------
\* The index that the leader answers is all of its log, in segments that it keeps.
LEMMA IndexIsIntact ==
  ASSUME LogOK, Rising(bounds)
  PROVE  Full(Index) /\ Grew(Index, Served, bounds)
  <1>1. /\ bounds \in Seq(Nat) /\ Len(bounds) \in Nat /\ Len(Served) \in Nat
        /\ Index.bytes = Served /\ Prefix(Served, Served)
    BY ServedType DEF LogOK, Index, Prefix
  <1>2. EndOf(bounds) \in Nat /\ EndOf(bounds) <= Len(Served)
    <2>1. bounds # <<>> => Len(bounds) \in 1..Len(bounds)
      BY <1>1
    <2>2. committed \in Nat /\ committed <= Len(Served)
      BY DEF LogOK
    <2>3. bounds # <<>> => bounds[Len(bounds)] \in Nat /\ bounds[Len(bounds)] <= committed
      BY <1>1, <2>1 DEF LogOK
    <2> QED BY <1>1, <2>2, <2>3 DEF EndOf
  <1>3. CASE Len(Served) > EndOf(bounds)
    <2> DEFINE E == Append(bounds, Len(Served))
               end == Len(Served)
    <2>1. Index.ends = E
      BY <1>3 DEF Index
    <2>2. end \in Nat /\ end > EndOf(bounds) /\ E = Append(bounds, end)
      BY <1>1, <1>3
    <2> HIDE DEF end
    <2>3. /\ Len(E) = Len(bounds) + 1 /\ E[Len(bounds) + 1] = end
          /\ (\A i \in 1..Len(bounds) : E[i] = bounds[i]) /\ E # <<>>
      BY <1>1, <2>2
    <2> HIDE DEF E
    <2>4. EndOf(E) = end
      BY <2>3 DEF EndOf
    <2>5. ASSUME NEW i \in 1..Len(E) PROVE (IF i = 1 THEN 0 ELSE E[i - 1]) < E[i]
      <3>1. CASE i \in 1..Len(bounds)
        <4>1. i = 1 \/ i - 1 \in 1..Len(bounds)
          BY <1>1, <3>1
        <4> QED BY <2>3, <3>1, <4>1 DEF Rising
      <3>2. CASE i = Len(bounds) + 1 /\ bounds = <<>>
        <4>1. Len(bounds) = 0 /\ EndOf(bounds) = 0
          BY <3>2 DEF EndOf
        <4> QED BY <2>2, <2>3, <3>2, <4>1
      <3>3. CASE i = Len(bounds) + 1 /\ bounds # <<>>
        <4>1. Len(bounds) \in 1..Len(bounds) /\ EndOf(bounds) = bounds[Len(bounds)]
          BY <1>1, <3>3 DEF EndOf
        <4>2. i # 1 /\ i - 1 = Len(bounds)
          BY <1>1, <3>3, <4>1
        <4> QED BY <2>2, <2>3, <3>3, <4>1, <4>2
      <3> QED BY <1>1, <2>3, <3>1, <3>2, <3>3
    <2>6. \A i \in 1..Len(E) : i < Len(E) => i <= Len(bounds) /\ bounds[i] = E[i]
      BY <1>1, <2>3
    <2>7. ~(Len(E) <= Len(bounds))
      BY <1>1, <2>3
    <2> QED BY <1>1, <2>1, <2>4, <2>5, <2>6, <2>7 DEF Full, Rising, Grew, end
  <1>4. CASE ~(Len(Served) > EndOf(bounds))
    <2>1. Index.ends = bounds /\ Len(Served) = EndOf(bounds)
      BY <1>1, <1>2, <1>4 DEF Index
    <2>2. bounds # <<>> => EndOf(bounds) = bounds[Len(bounds)]
      BY DEF EndOf
    <2>3. \A i \in 1..Len(bounds) : i <= Len(bounds)
      BY <1>1
    <2> QED BY <1>1, <2>1, <2>2, <2>3 DEF Full, Grew
  <1> QED BY <1>3, <1>4

\* An index of a leader that has all of L follows L.
LEMMA IndexFollows ==
  ASSUME LogOK, NEW L, SegsType(L), Full(L), Grew(L, Served, bounds)
  PROVE  Follows(L, Index)
  <1> DEFINE n == Len(L.bytes)
             g == Len(L.ends)
             E == Index.ends
             end == Len(Served)
  <1>1. /\ bounds \in Seq(Nat) /\ Len(bounds) \in Nat /\ end \in Nat
        /\ n \in Nat /\ g \in Nat /\ L.ends \in Seq(Nat)
    BY ServedType DEF LogOK, SegsType
  <1>2. /\ Prefix(L.bytes, Served) /\ n <= end
        /\ \A i \in 1..g : i < g => i <= Len(bounds) /\ bounds[i] = L.ends[i]
        /\ L.ends # <<>> /\ g <= Len(bounds) => n <= bounds[g]
    BY DEF Grew, Prefix
  <1>3. /\ E = bounds \/ E = Append(bounds, end)
        /\ end > EndOf(bounds) => E = Append(bounds, end)
        /\ Index.bytes = Served
    BY DEF Index
  <1>4. /\ Len(bounds) <= Len(E) /\ Len(E) \in Nat
        /\ \A i \in 1..Len(bounds) : E[i] = bounds[i]
        /\ end > EndOf(bounds) => Len(E) = Len(bounds) + 1 /\ E[Len(bounds) + 1] = end
    <2> HIDE DEF E, end
    <2>1. CASE E = bounds /\ ~(end > EndOf(bounds))
      BY <1>1, <2>1
    <2>2. CASE E = Append(bounds, end)
      BY <1>1, <2>2
    <2> QED BY <1>3, <2>1, <2>2
  <1> HIDE DEF E, end
  <1>5. L.ends = <<>> <=> g = 0
    BY <1>1
  <1>6. ASSUME L.ends # <<>>, ~(g <= Len(bounds))
        PROVE  g = Len(bounds) + 1 /\ end > EndOf(bounds)
    <2>1. g = Len(bounds) + 1
      <3> SUFFICES ASSUME g # Len(bounds) + 1 PROVE FALSE
        OBVIOUS
      <3>1. Len(bounds) + 1 \in 1..g /\ Len(bounds) + 1 < g
        BY <1>1, <1>6
      <3>2. Len(bounds) + 1 <= Len(bounds)
        BY <1>2, <3>1
      <3> QED BY <1>1, <3>2
    <2>2. n = L.ends[g]
      BY <1>6 DEF Full, EndOf
    <2>3. (IF g = 1 THEN 0 ELSE L.ends[g - 1]) < L.ends[g]
      <3>1. g \in 1..g
        BY <1>1, <2>1
      <3> QED BY <3>1 DEF Full, Rising
    <2>4. CASE bounds = <<>>
      <3>1. g = 1 /\ EndOf(bounds) = 0
        BY <2>1, <2>4 DEF EndOf
      <3> QED BY <1>1, <1>2, <2>1, <2>2, <2>3, <3>1
    <2>5. CASE bounds # <<>>
      <3>1. /\ g # 1 /\ g - 1 = Len(bounds) /\ EndOf(bounds) = bounds[Len(bounds)]
            /\ g - 1 \in 1..g /\ g - 1 < g
        BY <1>1, <2>1, <2>5 DEF EndOf
      <3>2. bounds[g - 1] = L.ends[g - 1] /\ bounds[g - 1] \in Nat
        <4>1. bounds[g - 1] = L.ends[g - 1]
          BY <1>2, <3>1
        <4>2. g - 1 \in 1..Len(bounds)
          BY <1>1, <3>1
        <4>3. \A j \in 1..Len(bounds) : bounds[j] \in Nat
          BY <1>1
        <4> QED BY <4>1, <4>2, <4>3
      <3>3. L.ends[g] \in Nat
        BY <1>1, <2>1
      <3> HIDE DEF n, g
      <3> QED BY <1>1, <1>2, <2>1, <2>2, <2>3, <3>1, <3>2, <3>3
    <2> QED BY <2>1, <2>4, <2>5
  <1>7. g <= Len(E) /\ (L.ends # <<>> => n <= E[g])
    <2>1. CASE L.ends # <<>> /\ ~(g <= Len(bounds))
      <3>1. g = Len(bounds) + 1 /\ end > EndOf(bounds)
        BY <1>6, <2>1
      <3>2. Len(E) = Len(bounds) + 1 /\ E[Len(bounds) + 1] = end
        BY <1>4, <3>1
      <3> HIDE DEF g, n
      <3> QED BY <1>1, <1>2, <3>1, <3>2
    <2>2. CASE L.ends # <<>> /\ g <= Len(bounds)
      <3>1. g \in 1..Len(bounds)
        BY <1>1, <1>5, <2>2
      <3>2. E[g] = bounds[g]
        BY <1>4, <3>1
      <3> HIDE DEF g, n
      <3> QED BY <1>1, <1>2, <1>4, <2>2, <3>2
    <2>3. CASE L.ends = <<>>
      BY <1>1, <1>4, <1>5, <2>3
    <2> QED BY <2>1, <2>2, <2>3
  <1>8. ASSUME NEW i \in 1..g, i < g PROVE E[i] = L.ends[i]
    <2>1. i \in 1..Len(bounds) /\ bounds[i] = L.ends[i]
      BY <1>1, <1>2, <1>8
    <2> QED BY <1>4, <2>1
  <1> QED BY <1>2, <1>3, <1>7, <1>8 DEF Follows, E

-----------------------------------------------------------------------------
\* The check of getNewSegments finds all that a follower has in an index that follows
\* it: if the last segment has grown, its file begins with what there was of it.
LEMMA FollowedIsCommon ==
  ASSUME Inv, Synced, Full(last), Full(want), Follows(last, want),
         NEW k \in 0..Both, CommonSegs(k)
  PROVE  SumCommon(k) = Len(last.bytes)
  <1> DEFINE n == Len(last.bytes)
             g == Len(last.ends)
             h == Len(want.ends)
  <1>1. /\ SegsType(last) /\ SegsType(want) /\ Cut(last) /\ Cut(want) /\ Len(files) = h
        /\ last.ends \in Seq(Nat) /\ want.ends \in Seq(Nat)
        /\ last.bytes \in Seq(Record) /\ want.bytes \in Seq(Record)
        /\ n \in Nat /\ g \in Nat /\ h \in Nat /\ Len(want.bytes) \in Nat
    <2>1. SegsType(last) /\ SegsType(want) /\ Cut(last) /\ Cut(want) /\ Len(files) = h
      BY DEF Inv, TypeOK, CutsOK, Synced
    <2>2. /\ last.ends \in Seq(Nat) /\ want.ends \in Seq(Nat)
          /\ last.bytes \in Seq(Record) /\ want.bytes \in Seq(Record)
      BY <2>1 DEF SegsType
    <2> QED BY <2>1, <2>2
  <1>2. /\ n <= Len(want.bytes) /\ \A p \in 1..n : last.bytes[p] = want.bytes[p]
        /\ g <= h
        /\ \A i \in 1..g : i < g => want.ends[i] = last.ends[i]
        /\ last.ends # <<>> => n <= want.ends[g]
    BY DEF Follows, Prefix
  <1>3. Both = g /\ k \in Nat /\ k <= g
    <2> HIDE DEF n
    <2>1. Both = g
      BY <1>1, <1>2 DEF Both, Smaller
    <2> QED BY <1>1, <2>1
  <1>4. /\ last.ends = <<>> <=> g = 0
        /\ last.ends = <<>> => n = 0
        /\ last.ends # <<>> => n = last.ends[g]
    BY <1>1 DEF Full, EndOf
  <1>5. CASE k = g
    <2>1. SumCommon(k) = StartOf(want, k + 1)
      BY <1>3, <1>5 DEF SumCommon
    <2>2. CASE k = 0
      BY <1>4, <1>5, <2>1, <2>2 DEF StartOf
    <2>3. CASE k # 0
      <3>1. /\ k + 1 # 1 /\ (k + 1) - 1 = k /\ k \in 1..k
            /\ k \in 0..Len(want.ends) /\ k \in 0..Len(last.ends)
        BY <1>1, <1>2, <1>3, <2>3
      <3>2. SubSeq(want.ends, 1, k) = SubSeq(last.ends, 1, k)
        BY DEF CommonSegs, Leading
      <3>3. want.ends[k] = SubSeq(want.ends, 1, k)[k] /\ last.ends[k] = SubSeq(last.ends, 1, k)[k]
        BY <1>1, <3>1, FrontType
      <3> QED BY <1>4, <1>5, <2>1, <2>3, <3>1, <3>2, <3>3 DEF StartOf
    <2> QED BY <2>2, <2>3
  <1>6. CASE k # g
    <2> DEFINE i == k + 1
               start == StartOf(want, i)
               v == SizeOf(last, i)
               w == SizeOf(want, i)
    <2>1. i \in 1..g /\ i \in 1..h /\ k < Both /\ last.ends # <<>>
      BY <1>1, <1>2, <1>3, <1>4, <1>6
    <2>2. StartOf(last, i) = start
      <3>1. CASE k = 0
        BY <3>1 DEF StartOf
      <3>2. CASE k # 0
        <4>1. k \in 1..g /\ k < g /\ i # 1 /\ i - 1 = k
          BY <1>1, <1>3, <1>6, <3>2
        <4> QED BY <1>2, <4>1 DEF StartOf
      <3> QED BY <3>1, <3>2
    <2>3. /\ v \in Nat /\ start \in Nat /\ start + v = last.ends[i] /\ last.ends[i] <= n
          /\ Seg(last, i) \in Seq(Record) /\ Len(Seg(last, i)) = v /\ last.ends[i] \in Nat
          /\ \A p \in 1..v : Seg(last, i)[p] = last.bytes[start + p]
      BY <1>1, <2>1, <2>2, SegFacts
    <2>4. /\ w \in Nat /\ start + w = want.ends[i] /\ want.ends[i] \in Nat
          /\ Seg(want, i) \in Seq(Record) /\ Len(Seg(want, i)) = w
          /\ \A p \in 1..w : Seg(want, i)[p] = want.bytes[start + p]
      <3>1. SegsType(want) /\ Cut(want) /\ i \in 1..Len(want.ends)
        BY <1>1, <2>1
      <3> HIDE DEF i
      <3> QED BY <3>1, SegFacts
    <2>5. Seg(want, i) # Seg(last, i)
      BY <2>1 DEF CommonSegs
    <2> HIDE DEF n, g, h, i, start, v, w
    <2>6. v <= w /\ (i < g => v = w)
      <3>1. CASE i < g
        BY <1>2, <2>1, <2>3, <2>4, <3>1
      <3>2. CASE i = g
        BY <1>2, <1>4, <2>1, <2>3, <2>4, <3>2
      <3> QED BY <1>1, <2>1, <3>1, <3>2
    <2>7. \A p \in 1..v : Seg(last, i)[p] = Seg(want, i)[p]
      <3> SUFFICES ASSUME NEW p \in 1..v PROVE Seg(last, i)[p] = Seg(want, i)[p]
        OBVIOUS
      <3>1. p \in 1..w /\ start + p \in 1..n
        BY <1>1, <2>3, <2>4, <2>6
      <3> QED BY <1>2, <2>3, <2>4, <3>1
    <2> DEFINE begin == SubSeq(Seg(want, i), 1, v)
    <2>8. begin = Seg(last, i)
      <3>1. v \in 0..Len(Seg(want, i))
        BY <2>3, <2>4, <2>6
      <3>2. begin \in Seq(Record) /\ Len(begin) = v /\ \A p \in 1..v : begin[p] = Seg(want, i)[p]
        BY <2>4, <3>1, FrontType
      <3> HIDE DEF begin
      <3> QED BY <2>3, <2>7, <3>2, SeqEqual
    <2>9. v # w
      <3> SUFFICES ASSUME v = w PROVE FALSE
        OBVIOUS
      <3>1. Seg(want, i) = Seg(last, i)
        BY <2>3, <2>4, <2>7, SeqEqual
      <3> QED BY <2>5, <3>1
    <2>10. i = g /\ v < w
      BY <1>1, <2>1, <2>3, <2>4, <2>6, <2>9
    <2>11. FileOf(want, i, files[i]) = Seg(want, i)
      BY <1>1, <2>1, FileIsSeg DEF Inv, h
    <2>12. Extends(i)
      <3>1. BeginsWith(Seg(want, i), Seg(last, i))
        BY <2>3, <2>4, <2>6, <2>8 DEF BeginsWith
      <3>2. ~(SizeOf(want, i) < SizeOf(last, i))
        BY <2>3, <2>4, <2>10 DEF v, w
      <3> QED BY <2>11, <3>1, <3>2 DEF Extends
    <2>13. SumCommon(k) = start + Smaller(w, v)
      BY <1>3, <1>6, <2>9, <2>12 DEF SumCommon, i, start, v, w
    <2>14. Smaller(w, v) = v
      BY <2>3, <2>4, <2>10 DEF Smaller
    <2> QED BY <1>4, <2>1, <2>3, <2>10, <2>13, <2>14 DEF n
  <1> QED BY <1>5, <1>6

-----------------------------------------------------------------------------
\* A list without segments is intact whatever the leader does.
LEMMA EmptyIsIntact ==
  ASSUME NEW L, L.bytes = <<>>, L.ends = <<>>, NEW s, Len(s) \in Nat, NEW cuts
  PROVE  Full(L) /\ Grew(L, s, cuts)
  BY DEF Full, Rising, EndOf, Grew, Prefix

\* Of what is intact, SplitInv looks at the bytes and the ends only.
LEMMA IntactOfSame ==
  ASSUME NEW L, NEW M, M.bytes = L.bytes, M.ends = L.ends, NEW s, NEW cuts, NEW k
  PROVE  /\ Full(L) => Full(M)
         /\ Grew(L, s, cuts) => Grew(M, s, cuts)
         /\ Lost(L, k) => Lost(M, k)
  BY DEF Full, Grew, Lost

\* Steps that end a call, or only restart the follower, leave nothing to compare.
LEMMA SplitNothingWanted ==
  ASSUME Inv, SplitInv, UNCHANGED logVars, want' = NoIndex,
         last' = last \/ (last'.bytes = <<>> /\ last'.ends = <<>>),
         pc' \notin {"sync", "download"},
         pc' = "split" => last' = last /\ Lost(last, kept)
  PROVE  SplitInv'
  <1>1. lives' = lives /\ bounds' = bounds /\ kept' = kept /\ Served' = Served
    BY DEF logVars, Served
  <1>2. Len(Served) \in Nat
    BY ServedType DEF Inv
  <1>3. Full(want') /\ Grew(want', Served, bounds)
    BY <1>2, EmptyIsIntact DEF NoIndex
  <1>4. Full(last') /\ (Lost(last', kept) \/ Grew(last', Served, bounds))
    <2>1. CASE last' = last
      BY <2>1 DEF SplitInv, Intact
    <2>2. CASE last'.bytes = <<>> /\ last'.ends = <<>>
      BY <1>2, <2>2, EmptyIsIntact
    <2> QED BY <2>1, <2>2
  <1>5. SplitIsReal'
    BY <1>1 DEF SplitIsReal, Lost
  <1> QED BY <1>1, <1>3, <1>4, <1>5 DEF SplitInv, Intact, Comparable

\* Steps that move neither the leader nor the lists.
LEMMA SplitNothingMoved ==
  ASSUME SplitInv, UNCHANGED <<logVars, last, want>>, pc' # "split" \/ pc' = pc,
         pc' \in {"sync", "download"} => pc \in {"sync", "download"}
  PROVE  SplitInv'
  <1>1. lives' = lives /\ bounds' = bounds /\ kept' = kept /\ Served' = Served
    BY DEF logVars, Served
  <1>2. SplitIsReal'
    BY <1>1 DEF SplitInv, SplitIsReal
  <1> QED BY <1>1, <1>2 DEF SplitInv, Intact, Comparable

\* Growing, freezing, and restarting with what a follower has keep it intact.
LEMMA SplitLeader ==
  ASSUME Inv, SplitInv, Leader
  PROVE  SplitInv'
  <1>1. LogOK /\ LeaderNext /\ kept # <<>> /\ SegsType(last) /\ SegsType(want)
        /\ UNCHANGED <<pc, last, want>>
    BY DEF Inv, TypeOK, SplitInv, Leader, fetchVars, localVars
  <1>2. Rising(bounds')
    BY <1>1, RisingStays DEF SplitInv
  <1>3. Lost(last, kept') \/ Grew(last, Served', bounds')
    BY <1>1, IntactStays DEF SplitInv, Intact
  <1>4. Lost(want, kept') \/ Grew(want, Served', bounds')
    BY <1>1, IntactStays DEF SplitInv, Intact
  <1>5. /\ kept' # <<>>
        /\ Len(kept) <= Len(kept') /\ \A e \in 2..Len(kept) : e \in 2..Len(kept') /\ kept'[e] = kept[e]
    <2>1. kept \in Seq(Nat) /\ committed \in Nat /\ Len(kept) \in Nat
      BY <1>1 DEF LogOK
    <2>2. CASE kept' = kept
      BY <1>1, <2>1, <2>2
    <2>3. CASE kept' = Append(kept, committed)
      <3>1. Len(kept') = Len(kept) + 1 /\ \A e \in 1..Len(kept) : kept'[e] = kept[e]
        BY <2>1, <2>3
      <3>2. kept' # <<>>
        BY <2>1, <3>1
      <3> QED BY <2>1, <3>1, <3>2
    <2> QED BY <1>1, <2>2, <2>3 DEF LeaderNext, Log, Flush, Restart
  <1>6. Lost(last, kept) => Lost(last, kept')
    BY <1>5 DEF Lost
  <1>7. SplitIsReal'
    BY <1>1, <1>5 DEF SplitInv, SplitIsReal
  <1> QED BY <1>1, <1>2, <1>3, <1>4, <1>5, <1>6, <1>7 DEF SplitInv, Intact, Comparable

\* The index that is answered follows what the follower has, unless that is lost.
LEMMA SplitGetServerSegments ==
  ASSUME Inv, SplitInv, GetServerSegments
  PROVE  SplitInv'
  <1>1. lives' = lives /\ bounds' = bounds /\ kept' = kept /\ Served' = Served
    BY DEF GetServerSegments, logVars, Served
  <1>2. want' = Index /\ last' = last /\ pc' = "sync"
    BY DEF GetServerSegments
  <1>3. Full(Index) /\ Grew(Index, Served, bounds)
    BY IndexIsIntact DEF Inv, SplitInv
  <1>4. Grew(last, Served, bounds) => Follows(last, Index)
    BY IndexFollows DEF Inv, TypeOK, SplitInv, Intact
  <1> QED BY <1>1, <1>2, <1>3, <1>4 DEF SplitInv, Intact, Comparable, SplitIsReal

\* What is accepted was intact as an index; ErrSplit is reported of what was lost.
LEMMA SplitCheckSegments ==
  ASSUME Inv, SplitInv, CheckSegments
  PROVE  SplitInv'
  <1> PICK k \in 0..Both : AcceptSegments(k) \/ ReportSplit(k) \/ UnchangedSegments(k)
    BY DEF CheckSegments
  <1>1. CASE AcceptSegments(k)
    <2>1. lives' = lives /\ bounds' = bounds /\ kept' = kept /\ Served' = Served
      BY <1>1 DEF AcceptSegments, logVars, Served
    <2>2. want' = want /\ pc' = "send" /\ last'.bytes = want.bytes /\ last'.ends = want.ends
      BY <1>1 DEF AcceptSegments
    <2>3. Full(last') /\ (Lost(last', kept) \/ Grew(last', Served, bounds))
      BY <2>2, IntactOfSame DEF SplitInv, Intact
    <2> QED BY <2>1, <2>2, <2>3 DEF SplitInv, Intact, Comparable, SplitIsReal
  <1>2. CASE ReportSplit(k)
    <2>1. Lost(last, kept)
      <3> SUFFICES ASSUME ~Lost(last, kept) PROVE FALSE
        OBVIOUS
      <3>1. Synced /\ CommonSegs(k) /\ SumCommon(k) # Len(last.bytes) /\ pc = "sync"
        BY <1>2 DEF ReportSplit, Synced
      <3>2. Follows(last, want) /\ Full(last) /\ Full(want)
        BY <3>1 DEF SplitInv, Intact, Comparable
      <3> QED BY <3>1, <3>2, FollowedIsCommon
    <2> QED BY <1>2, <2>1, SplitNothingWanted DEF ReportSplit, LocalsGone
  <1>3. CASE UnchangedSegments(k)
    BY <1>3, SplitNothingWanted DEF UnchangedSegments, LocalsGone
  <1> QED BY <1>1, <1>2, <1>3

\* An empty log, and a follower that has nothing.
LEMMA SplitInit == Init => SplitInv
  <1> SUFFICES ASSUME Init PROVE SplitInv
    OBVIOUS
  <1>1. bounds = <<>> /\ kept = <<0>> /\ lives = << <<>> >> /\ pc = "index"
    BY DEF Init, LogInit
  <1>2. Served = <<>> /\ Len(Served) \in Nat /\ kept # <<>>
    BY <1>1 DEF Served
  <1>3. last.bytes = <<>> /\ last.ends = <<>> /\ want.bytes = <<>> /\ want.ends = <<>>
    BY DEF Init, NoIndex
  <1>4. Full(last) /\ Grew(last, Served, bounds)
    BY <1>2, <1>3, EmptyIsIntact
  <1>5. Full(want) /\ Grew(want, Served, bounds)
    BY <1>2, <1>3, EmptyIsIntact
  <1> QED BY <1>1, <1>2, <1>4, <1>5 DEF SplitInv, Rising, Intact, Comparable, SplitIsReal

\* Every step keeps it.
LEMMA SplitNext ==
  ASSUME Inv, SplitInv, [Next]_vars
  PROVE  SplitInv'
  <1>1. CASE \/ UNCHANGED vars \/ LongPoll \/ RunAgain \/ ApplyMutation
             \/ \E i \in 1..Len(want.ends) : SendMutation(i)
    <2>1. /\ UNCHANGED <<logVars, last, want>>
          /\ pc' = pc \/ pc' \in {"answered", "index"}
      BY <1>1 DEF vars, LongPoll, RunAgain, ApplyMutation, SendMutation, fetchVars, localVars
    <2> QED BY <2>1, SplitNothingMoved
  <1>2. CASE SyncSeg /\ ~SyncFails
    <2>1. /\ UNCHANGED <<logVars, last, want>>
          /\ pc \in {"sync", "download"} /\ pc' \in {"sync", "download"}
      BY <1>2 DEF SyncSeg, SyncCached, SyncPromote, SyncKeep, SyncStale, SyncCommit,
                  SyncDrop, Syncing
    <2> QED BY <2>1, SplitNothingMoved
  <1>3. CASE SyncFails \/ CallCut \/ EndOfStream \/ FollowerRestart
    <2>1. /\ UNCHANGED logVars /\ want' = NoIndex /\ pc' \in {"failed", "index"}
          /\ last' = last \/ (last'.bytes = <<>> /\ last'.ends = <<>>)
      BY <1>3 DEF SyncFails, CallCut, EndOfStream, FollowerRestart, LocalsGone
    <2> QED BY <2>1, SplitNothingWanted
  <1>4. CASE GetServerSegments
    BY <1>4, SplitGetServerSegments
  <1>5. CASE CheckSegments
    BY <1>5, SplitCheckSegments
  <1>6. CASE Leader
    BY <1>6, SplitLeader
  <1> QED BY <1>1, <1>2, <1>3, <1>4, <1>5, <1>6 DEF Next, FollowerStep

\* A follower stops with ErrSplit only if a restart of the leader lost records that
\* the follower has: growth, freezing or taking up the last segment again, and records
\* that repeat, are never taken for another history (netsource.go, getNewSegments).
THEOREM SplitsAreReal == Spec => []SplitIsReal
  <1>1. SplitInv => SplitIsReal
    BY DEF SplitInv
  <1>2. Inv /\ SplitInv /\ [Next]_vars => SplitInv'
    BY SplitNext
  <1>3. Spec => []SplitInv
    BY <1>2, SplitInit, Invariant, PTL DEF Spec
  <1> QED BY <1>1, <1>3, PTL

-----------------------------------------------------------------------------
\* What a step of replication may be in the abstract log, or nothing.
AbstractStep == Abstract!AbsNext \/ UNCHANGED Abstract!absVars

\* Replication begins as the abstract log does.
LEMMA AbstractInit == Init => Abstract!AbsInit
  BY DEF Init, LogInit, Abstract!AbsInit

\* A step that moves no history, applies nothing and neither stops a follower nor
\* starts one that had stopped is nothing to the abstract log.
LEMMA AbstractStutter ==
  ASSUME UNCHANGED <<lives, kept, applied, faults>>, pc' = "split" <=> pc = "split"
  PROVE  AbstractStep
  BY DEF AbstractStep, Abstract!absVars

\* The leader logs a record, makes it stable or restarts from what is stable.
LEMMA AbstractLeader ==
  ASSUME Inv, Leader
  PROVE  AbstractStep
  <1>1. applied' = applied /\ pc' = pc /\ faults' = faults
    BY DEF Leader
  <1>2. CASE \E r \in Record, roll, synced \in BOOLEAN : Log(r, roll, synced)
    <2> PICK r \in Record, roll \in BOOLEAN, synced \in BOOLEAN : Log(r, roll, synced)
      BY <1>2
    <2>1. lives' = [lives EXCEPT ![Len(lives)] = Append(@, r)] /\ kept' = kept
      BY DEF Log
    <2>2. Abstract!LeaderLogs
      BY <1>1, <2>1 DEF Abstract!LeaderLogs
    <2> QED BY <2>2 DEF AbstractStep, Abstract!AbsNext
  <1>3. CASE Flush
    BY <1>1, <1>3, AbstractStutter DEF Flush
  <1>4. CASE \E cut \in {"same", "reopen", "freeze"} : Restart(cut)
    <2>1. /\ lives' = Append(lives, SubSeq(Served, 1, committed))
          /\ kept' = Append(kept, committed)
      BY <1>4 DEF Restart
    <2>2. committed \in 0..Len(Abstract!Current) /\ Served = Abstract!Current
      <3>1. Served \in Seq(Record) /\ committed \in Nat /\ committed <= Len(Served)
        BY ServedType DEF Inv, LogOK
      <3> QED BY <3>1 DEF Served, Abstract!Current
    <2>3. Abstract!LeaderRestarts
      BY <1>1, <2>1, <2>2 DEF Abstract!LeaderRestarts
    <2> QED BY <2>3 DEF AbstractStep, Abstract!AbsNext
  <1> QED BY <1>2, <1>3, <1>4 DEF Leader, LeaderNext

\* The record at the head of the channel continues, in one history of the leader, what
\* the corpus has processed; and the channel is empty once the follower has stopped.
LEMMA AbstractApplies ==
  ASSUME Inv, ApplyMutation
  PROVE  AbstractStep
  <1>1. /\ chan # <<>> /\ applied' = Append(applied, Head(chan))
        /\ UNCHANGED <<lives, kept, pc, faults>>
    BY DEF ApplyMutation, logVars
  <1>2. pc = "send"
    BY <1>1 DEF Inv, StreamOK
  <1>3. /\ chan \in Seq(Record) /\ last.bytes \in Seq(Record)
        /\ Len(applied) \in Nat /\ Len(chan) \in Nat /\ Len(last.bytes) \in Nat
    BY Lengths DEF Inv
  <1>4. Len(chan) > 0 /\ Head(chan) = chan[1]
    BY <1>1, <1>3
  <1>5. Len(applied) + Len(chan) <= Len(last.bytes)
    BY <1>2, <1>3 DEF Inv, StreamOK, Streamed, PhaseOK
  <1>6. /\ Head(chan) = last.bytes[Len(applied) + 1]
        /\ \A p \in 1..Len(applied) : applied[p] \in {last.bytes[p], Skipped}
    <2>1. chan[1] = last.bytes[Len(applied) + 1]
      BY <1>3, <1>4 DEF Inv, StreamOK
    <2> QED BY <1>4, <2>1 DEF Inv, StreamOK
  <1> PICK e \in 1..Len(lives) : Prefix(last.bytes, lives[e])
    BY DEF Inv, ServedOK, WasServed
  <1>7. /\ Len(lives[e]) \in Nat /\ Len(last.bytes) <= Len(lives[e])
        /\ \A p \in 1..Len(last.bytes) : last.bytes[p] = lives[e][p]
    <2>1. lives[e] \in Seq(Record)
      BY DEF Inv, LogOK
    <2> QED BY <2>1 DEF Prefix
  <1>8. Abstract!Along(applied, lives[e])
    <2>1. Len(applied) <= Len(last.bytes)
      BY <1>3, <1>5
    <2>2. \A p \in 1..Len(applied) : applied[p] \in {lives[e][p], Skipped}
      BY <1>3, <1>6, <1>7, <2>1
    <2> QED BY <1>3, <1>7, <2>1, <2>2 DEF Abstract!Along
  <1>9. Len(applied) < Len(lives[e]) /\ Head(chan) = lives[e][Len(applied) + 1]
    <2>1. Len(applied) + 1 \in 1..Len(last.bytes)
      BY <1>3, <1>4, <1>5
    <2>2. last.bytes[Len(applied) + 1] = lives[e][Len(applied) + 1]
      BY <1>7, <2>1
    <2>3. Len(applied) < Len(lives[e])
      BY <1>3, <1>7, <2>1
    <2> QED BY <1>6, <2>2, <2>3
  <1>10. Abstract!FollowerApplies
    BY <1>1, <1>2, <1>8, <1>9 DEF Abstract!FollowerApplies
  <1> QED BY <1>10 DEF AbstractStep, Abstract!AbsNext

\* When the follower stops with ErrSplit, its corpus has processed all it verified,
\* and a restart of the leader has lost some of that.
LEMMA AbstractSplits ==
  ASSUME Inv, SplitInv, SplitInv', NEW k \in 0..Both, ReportSplit(k)
  PROVE  AbstractStep
  <1>1. pc = "sync" /\ pc' = "split" /\ UNCHANGED <<lives, kept, applied, last, faults>>
    BY DEF ReportSplit, Synced, logVars
  <1>2. Len(applied) = Len(last.bytes)
    <2>1. chan = <<>> /\ Len(applied) + Len(chan) = Len(last.bytes) /\ Len(applied) \in Nat
      BY <1>1, Lengths DEF Inv, StreamOK, Streamed
    <2> QED BY <2>1
  <1>3. \E e \in 2..Len(kept) : kept[e] < Len(applied)
    BY <1>1, <1>2 DEF SplitInv, SplitIsReal
  <1>4. Abstract!FollowerSplits
    BY <1>1, <1>3 DEF Abstract!FollowerSplits
  <1> QED BY <1>4 DEF AbstractStep, Abstract!AbsNext

\* When a call is cut short, what the corpus misses of what was verified follows, in one
\* history of the leader, what it has processed.
LEMMA AbstractCut ==
  ASSUME Inv, CallCut
  PROVE  AbstractStep
  <1> DEFINE n == Len(last.bytes) - Len(applied)
  <1>1. /\ pc # "split" /\ pc' = "failed" /\ faults' = faults + 1
        /\ UNCHANGED <<lives, kept>>
        /\ applied' = applied \o [p \in 1..n |-> Skipped]
    BY DEF CallCut, logVars
  <1>2. PICK e \in 1..Len(lives) : Prefix(last.bytes, lives[e])
    BY DEF Inv, ServedOK, WasServed
  <1>3. /\ Len(applied) \in Nat /\ Len(chan) \in Nat /\ Len(last.bytes) \in Nat
        /\ Len(lives[e]) \in Nat
    <2>1. lives[e] \in Seq(Record)
      BY DEF Inv, TypeOK
    <2> QED BY <2>1, Lengths DEF Inv
  <1>4. Len(applied) <= Len(last.bytes)
    BY <1>3 DEF Inv, StreamOK, Streamed, PhaseOK
  <1>5. \A p \in 1..Len(applied) : applied[p] \in {last.bytes[p], Skipped}
    BY DEF Inv, StreamOK
  <1>6. Abstract!Along(applied, lives[e])
    BY <1>2, <1>3, <1>4, <1>5 DEF Prefix, Abstract!Along
  <1>7. n \in 0..(Len(lives[e]) - Len(applied))
    BY <1>2, <1>3, <1>4 DEF Prefix
  <1> HIDE DEF n
  <1>8. Abstract!CallCutShort
    BY <1>1, <1>6, <1>7 DEF Abstract!CallCutShort
  <1> QED BY <1>8 DEF AbstractStep, Abstract!AbsNext

\* Every step of replication is a step of the abstract log, or nothing to it.
LEMMA AbstractNext ==
  ASSUME Inv, SplitInv, SplitInv', [Next]_vars
  PROVE  AbstractStep
  <1>1. CASE UNCHANGED vars
    BY <1>1, AbstractStutter DEF vars, logVars
  <1>2. CASE LongPoll \/ GetServerSegments \/ RunAgain \/ EndOfStream
    BY <1>2, AbstractStutter
       DEF LongPoll, GetServerSegments, RunAgain, EndOfStream, logVars
  <1>3. CASE \E i \in 1..Len(want.ends) : SendMutation(i)
    BY <1>3, AbstractStutter DEF SendMutation, logVars
  <1>4. CASE SyncSeg
    BY <1>4, AbstractStutter
       DEF SyncSeg, SyncCached, SyncPromote, SyncKeep, SyncStale, SyncCommit, SyncDrop,
           SyncFails, Syncing, logVars
  <1>5. CASE CheckSegments
    <2> PICK k \in 0..Both : AcceptSegments(k) \/ ReportSplit(k) \/ UnchangedSegments(k)
      BY <1>5 DEF CheckSegments
    <2>1. CASE AcceptSegments(k) \/ UnchangedSegments(k)
      BY <2>1, AbstractStutter DEF AcceptSegments, UnchangedSegments, Synced, logVars
    <2>2. CASE ReportSplit(k)
      BY <2>2, AbstractSplits
    <2> QED BY <2>1, <2>2
  <1>6. CASE ApplyMutation
    BY <1>6, AbstractApplies
  <1>7. CASE FollowerRestart
    <2>1. applied' = <<>> /\ pc' = "index" /\ faults' = faults + 1 /\ UNCHANGED <<lives, kept>>
      BY <1>7 DEF FollowerRestart, logVars
    <2>2. Abstract!FollowerRestarts
      BY <2>1 DEF Abstract!FollowerRestarts
    <2> QED BY <2>2 DEF AbstractStep, Abstract!AbsNext
  <1>8. CASE Leader
    BY <1>8, AbstractLeader
  <1>9. CASE CallCut
    BY <1>9, AbstractCut
  <1> QED BY <1>1, <1>2, <1>3, <1>4, <1>5, <1>6, <1>7, <1>8, <1>9 DEF Next, FollowerStep

\* Replication through segments, files, a cache and a channel, with restarts on both
\* sides and calls cut short, is the abstract log: a follower applies, in order and at
\* most once, the records of one history of the leader, misses some only when a call was
\* cut short, and stops only when a restart of the leader lost what it has been given
\* (maintner.go, ErrSplit and RunUpdateLoop).
THEOREM ImplementsLog == Spec => ImplementsMutationLog
  <1>1. Init => Abstract!AbsInit
    BY AbstractInit
  <1>2. Inv /\ SplitInv /\ SplitInv' /\ [Next]_vars => [Abstract!AbsNext]_(Abstract!absVars)
    BY AbstractNext DEF AbstractStep
  <1>3. Inv /\ SplitInv /\ [Next]_vars => SplitInv'
    BY SplitNext
  <1>4. Spec => []SplitInv
    BY <1>3, SplitInit, Invariant, PTL DEF Spec
  <1> QED BY <1>1, <1>2, <1>4, Invariant, PTL DEF Spec, ImplementsMutationLog, Abstract!AbsSpec
=============================================================================
