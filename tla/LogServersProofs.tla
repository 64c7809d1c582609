-------------------------- MODULE LogServersProofs --------------------------
(***************************************************************************)
(* The two logs a leader may serve, for every value of the constants.  A   *)
(* GCSLog none of whose records is bigger than an object has in its bucket *)
(* the beginning of what it serves, and implements the log that followers  *)
(* rely on (SegmentLog).  A DiskLog lists what can be downloaded, and      *)
(* serves a log that only grows, but for the slips that its module names.  *)
(* In both, no long poll sleeps through a growth of the log (LongPoll).    *)
(*                                                                         *)
(* The logs serve their segments one after another (FlattenSeq), so that   *)
(* the first lemmas are about that; what they have of induction over the   *)
(* number of segments is the least number for which something fails.       *)
(***************************************************************************)
EXTENDS GCSLog, DiskLog, LongPoll, SequenceTheorems, FiniteSetTheorems, WellFoundedInduction, TLAPS

-----------------------------------------------------------------------------
\* A set of naturals that is not empty has a least element.
LEMMA LeastIsThere ==
  ASSUME NEW T \in SUBSET Nat, T # {}
  PROVE  \E m \in T : \A n \in T : m <= n
  <1>1. PICK m \in T : \A n \in T : ~ (<<n, m>> \in OpToRel(<, Nat))
    BY NatLessThanWellFounded, WFMin
  <1>2. \A n \in T : m <= n
    <2> SUFFICES ASSUME NEW n \in T, ~ (m <= n) PROVE FALSE
      OBVIOUS
    <2>1. m \in Nat /\ n \in Nat /\ n < m
      OBVIOUS
    <2>2. <<n, m>> \in OpToRel(<, Nat)
      BY <2>1 DEF OpToRel
    <2> QED BY <1>1, <2>2
  <1> QED BY <1>2

\* flat puts the first n segments one after another, as FlattenSeq does.
Flattens(flat, segments, n) ==
  flat = [i \in 1..n |-> IF i = 1 THEN segments[i] ELSE flat[i - 1] \o segments[i]]

\* There is one such function.
LEMMA FlattensExists ==
  ASSUME NEW segments, NEW n \in Nat
  PROVE  \E flat : Flattens(flat, segments, n)
  <1> DEFINE T == {k \in Nat : ~ \E flat : Flattens(flat, segments, k)}
  <1> SUFFICES ASSUME T # {} PROVE FALSE
    OBVIOUS
  <1>1. PICK m \in T : \A k \in T : m <= k
    <2> HIDE DEF T
    <2>1. T \in SUBSET Nat
      BY DEF T
    <2> QED BY <2>1, LeastIsThere
  <1>2. m \in Nat /\ ~ \E flat : Flattens(flat, segments, m)
    OBVIOUS
  <1>3. CASE m = 0
    <2>1. Flattens([i \in 1..0 |-> <<>>], segments, 0)
      BY DEF Flattens
    <2> QED BY <1>2, <1>3, <2>1
  <1>4. CASE m # 0
    <2>1. m - 1 \in Nat /\ m - 1 \notin T
      BY <1>1, <1>2, <1>4
    <2>2. PICK flat : Flattens(flat, segments, m - 1)
      BY <2>1
    <2> DEFINE longer == [i \in 1..m |-> IF i = m
                                         THEN IF i = 1 THEN segments[i] ELSE flat[i - 1] \o segments[i]
                                         ELSE flat[i]]
    <2>3. \A i \in 1..m :
            longer[i] = IF i = 1 THEN segments[i] ELSE longer[i - 1] \o segments[i]
      <3> SUFFICES ASSUME NEW i \in 1..m
                   PROVE  longer[i] = IF i = 1 THEN segments[i] ELSE longer[i - 1] \o segments[i]
        OBVIOUS
      <3>1. CASE i = m
        <4>1. CASE i = 1
          BY <3>1, <4>1
        <4>2. CASE i # 1
          <5>1. i - 1 \in 1..m /\ i - 1 # m
            BY <1>2, <4>2
          <5>2. longer[i - 1] = flat[i - 1]
            BY <5>1
          <5>3. longer[i] = flat[i - 1] \o segments[i]
            BY <3>1, <4>2
          <5> QED BY <4>2, <5>2, <5>3
        <4> QED BY <4>1, <4>2
      <3>2. CASE i # m
        <4>1. i \in 1..(m - 1) /\ longer[i] = flat[i]
          BY <1>2, <3>2
        <4>2. flat[i] = IF i = 1 THEN segments[i] ELSE flat[i - 1] \o segments[i]
          BY <2>2, <4>1 DEF Flattens
        <4>3. CASE i = 1
          BY <4>1, <4>2, <4>3
        <4>4. CASE i # 1
          <5>1. i - 1 \in 1..m /\ i - 1 # m
            BY <1>2, <4>4
          <5>2. longer[i - 1] = flat[i - 1]
            BY <5>1
          <5> QED BY <4>1, <4>2, <4>4, <5>2
        <4> QED BY <4>3, <4>4
      <3> QED BY <3>1, <3>2
    <2>4. longer = [i \in 1..m |-> longer[i]]
      OBVIOUS
    <2> HIDE DEF longer
    <2>5. Flattens(longer, segments, m)
      BY <2>3, <2>4 DEF Flattens
    <2> QED BY <1>2, <2>5
  <1> QED BY <1>3, <1>4

\* It is what FlattenSeq ends with.
LEMMA FlattenIs ==
  ASSUME NEW segments, Len(segments) \in Nat \ {0}
  PROVE  \E flat : /\ Flattens(flat, segments, Len(segments))
                   /\ FlattenSeq(segments) = flat[Len(segments)]
  <1> DEFINE flat == CHOOSE flat : Flattens(flat, segments, Len(segments))
  <1>1. Len(segments) \in Nat
    OBVIOUS
  <1>2. Flattens(flat, segments, Len(segments))
    BY <1>1, FlattensExists
  <1>3. FlattenSeq(segments) = flat[Len(segments)]
    BY DEF FlattenSeq, Flattens
  <1> QED BY <1>2, <1>3

\* Two such functions agree as far as their segments do.
LEMMA FlattensAgree ==
  ASSUME NEW f, NEW g, NEW s, NEW t, NEW m \in Nat, NEW n \in Nat,
         Flattens(f, s, m), Flattens(g, t, n), m <= n,
         \A i \in 1..m : s[i] = t[i]
  PROVE  \A i \in 1..m : f[i] = g[i]
  <1> DEFINE T == {i \in 1..m : f[i] # g[i]}
  <1> SUFFICES ASSUME T # {} PROVE FALSE
    OBVIOUS
  <1>1. PICK i \in T : \A j \in T : i <= j
    <2>1. T \in SUBSET Nat
      OBVIOUS
    <2> HIDE DEF T
    <2> QED BY <2>1, LeastIsThere
  <1>2. i \in 1..m /\ f[i] # g[i] /\ i \in 1..n
    OBVIOUS
  <1>3. /\ f[i] = IF i = 1 THEN s[i] ELSE f[i - 1] \o s[i]
        /\ g[i] = IF i = 1 THEN t[i] ELSE g[i - 1] \o t[i]
    BY <1>2 DEF Flattens
  <1>4. CASE i = 1
    BY <1>2, <1>3, <1>4
  <1>5. CASE i # 1
    <2>1. i - 1 \in 1..m /\ i - 1 \notin T
      BY <1>1, <1>2, <1>5
    <2>2. f[i - 1] = g[i - 1]
      BY <2>1
    <2>3. f[i - 1] \o s[i] = g[i - 1] \o t[i]
      BY <1>2, <2>2
    <2> QED BY <1>2, <1>3, <1>5, <2>3
  <1> QED BY <1>4, <1>5

\* And they are sequences of the elements of the segments.
LEMMA FlattensType ==
  ASSUME NEW S, NEW s, NEW f, NEW n \in Nat, Flattens(f, s, n),
         \A i \in 1..n : s[i] \in Seq(S)
  PROVE  \A i \in 1..n : f[i] \in Seq(S)
  <1> DEFINE T == {i \in 1..n : f[i] \notin Seq(S)}
  <1> SUFFICES ASSUME T # {} PROVE FALSE
    OBVIOUS
  <1>1. PICK i \in T : \A j \in T : i <= j
    <2>1. T \in SUBSET Nat
      OBVIOUS
    <2> HIDE DEF T
    <2> QED BY <2>1, LeastIsThere
  <1>2. i \in 1..n /\ f[i] \notin Seq(S) /\ s[i] \in Seq(S)
    OBVIOUS
  <1>3. f[i] = IF i = 1 THEN s[i] ELSE f[i - 1] \o s[i]
    BY <1>2 DEF Flattens
  <1>4. i # 1
    BY <1>2, <1>3
  <1>5. i - 1 \in 1..n /\ i - 1 \notin T
    BY <1>1, <1>2, <1>4
  <1>6. f[i - 1] \in Seq(S)
    BY <1>5
  <1>7. f[i - 1] \o s[i] \in Seq(S)
    BY <1>2, <1>6, ConcatProperties
  <1> QED BY <1>2, <1>3, <1>4, <1>7

\* No segments, no records.
LEMMA FlattenEmpty == FlattenSeq(<<>>) = <<>>
  BY DEF FlattenSeq

\* The records of segments are a sequence of the elements that the segments have.
LEMMA FlattenType ==
  ASSUME NEW S, NEW s \in Seq(Seq(S))
  PROVE  FlattenSeq(s) \in Seq(S) /\ Len(FlattenSeq(s)) \in Nat
  <1> SUFFICES FlattenSeq(s) \in Seq(S)
    OBVIOUS
  <1>0. Len(s) \in Nat /\ \A i \in 1..Len(s) : s[i] \in Seq(S)
    OBVIOUS
  <1>1. CASE Len(s) = 0
    <2>1. s = <<>>
      BY <1>1
    <2>2. FlattenSeq(s) = <<>>
      BY <2>1, FlattenEmpty
    <2>3. <<>> \in Seq(S)
      OBVIOUS
    <2> QED BY <2>2, <2>3
  <1>2. CASE Len(s) # 0
    <2>1. PICK f : Flattens(f, s, Len(s)) /\ FlattenSeq(s) = f[Len(s)]
      BY <1>0, <1>2, FlattenIs
    <2>2. f[Len(s)] \in Seq(S)
      BY <1>0, <1>2, <2>1, FlattensType
    <2> QED BY <2>1, <2>2
  <1> QED BY <1>1, <1>2

\* One more segment comes after those before.
LEMMA FlattenAppend ==
  ASSUME NEW S, NEW s \in Seq(Seq(S)), NEW x \in Seq(S)
  PROVE  FlattenSeq(Append(s, x)) = FlattenSeq(s) \o x
  <1> DEFINE t == Append(s, x)
             n == Len(s)
             m == Len(t)
  <1>1. /\ n \in Nat /\ m = n + 1 /\ t[m] = x
        /\ \A i \in 1..n : t[i] = s[i]
    OBVIOUS
  <1>2. m \in Nat \ {0} /\ m \in 1..m /\ m - 1 = n /\ n <= m
    BY <1>1
  <1> HIDE DEF t, n, m
  <1>3. PICK g : Flattens(g, t, m) /\ FlattenSeq(t) = g[m]
    BY <1>2, FlattenIs DEF m
  <1>4. g[m] = IF m = 1 THEN t[m] ELSE g[m - 1] \o t[m]
    BY <1>2, <1>3 DEF Flattens
  <1>5. g[m] = IF n = 0 THEN x ELSE g[n] \o x
    BY <1>1, <1>2, <1>4
  <1>6. CASE n = 0
    <2>1. s = <<>>
      BY <1>6 DEF n
    <2>2. FlattenSeq(s) = <<>>
      BY <2>1, FlattenEmpty
    <2>3. FlattenSeq(t) = x /\ x = <<>> \o x
      BY <1>3, <1>5, <1>6
    <2> QED BY <2>2, <2>3 DEF t
  <1>7. CASE n # 0
    <2>1. PICK f : Flattens(f, s, n) /\ FlattenSeq(s) = f[n]
      BY <1>1, <1>7, FlattenIs DEF n
    <2>2. n \in 1..n /\ n \in Nat /\ m \in Nat
      BY <1>1, <1>2, <1>7
    <2>3. \A i \in 1..n : f[i] = g[i]
      <3>1. Flattens(g, t, m) /\ Flattens(f, s, n) /\ n <= m
        BY <1>2, <1>3, <2>1, <2>2
      <3>2. \A i \in 1..n : s[i] = t[i]
        BY <1>1
      <3> QED BY <2>2, <3>1, <3>2, FlattensAgree, SMTT(60)
    <2>4. g[n] = f[n]
      BY <2>2, <2>3
    <2> QED BY <1>3, <1>5, <1>7, <2>1, <2>4 DEF t
  <1> QED BY <1>6, <1>7

\* A prefix, element by element.
LEMMA PrefixIs ==
  ASSUME NEW S, NEW s \in Seq(S), NEW t \in Seq(S)
  PROVE  IsPrefix(s, t) <=> Len(s) <= Len(t) /\ \A i \in 1..Len(s) : s[i] = t[i]
  <1>0. Len(s) \in Nat /\ Len(t) \in Nat
    OBVIOUS
  <1>1. SubSeq(s, 1, Len(s)) = s
    BY SubSeqFull
  <1>2. CASE Len(s) <= Len(t)
    <2>1. /\ SubSeq(t, 1, Len(s)) \in Seq(S) /\ Len(SubSeq(t, 1, Len(s))) = Len(s)
          /\ \A i \in 1..Len(s) : SubSeq(t, 1, Len(s))[i] = t[i]
      <3>1. 1 \in 1..Len(t) + 1 /\ Len(s) \in 1 - 1 .. Len(t)
        BY <1>0, <1>2
      <3>2. /\ SubSeq(t, 1, Len(s)) \in Seq(S)
            /\ Len(SubSeq(t, 1, Len(s))) = Len(s) - 1 + 1
            /\ \A i \in 1..(Len(s) - 1 + 1) : SubSeq(t, 1, Len(s))[i] = t[1 + i - 1]
        BY <3>1, SubSeqProperties
      <3> QED BY <1>0, <3>2
    <2> DEFINE u == SubSeq(t, 1, Len(s))
    <2>2. s = u <=> \A i \in 1..Len(s) : s[i] = u[i]
      <3> HIDE DEF u
      <3>1. u \in Seq(S) /\ Len(u) = Len(s)
        BY <2>1 DEF u
      <3> QED BY <3>1, SeqEqual
    <2> QED BY <1>1, <1>2, <2>1, <2>2 DEF IsPrefix
  <1>3. CASE ~ (Len(s) <= Len(t))
    BY <1>3 DEF IsPrefix
  <1> QED BY <1>2, <1>3

\* Prefixes are ordered; those of one sequence that are of one length are equal.
LEMMA PrefixOrder ==
  ASSUME NEW S
  PROVE  /\ \A s \in Seq(S) : IsPrefix(<<>>, s) /\ IsPrefix(s, s)
         /\ \A s, t \in Seq(S) : IsPrefix(s, t) /\ IsPrefix(t, s) => s = t
         /\ \A s, t, u \in Seq(S) : IsPrefix(s, t) /\ IsPrefix(t, u) => IsPrefix(s, u)
  <1>1. ASSUME NEW s \in Seq(S) PROVE IsPrefix(<<>>, s) /\ IsPrefix(s, s)
    <2> DEFINE e == <<>>
    <2>1. e \in Seq(S) /\ Len(e) = 0 /\ Len(s) \in Nat
      OBVIOUS
    <2> HIDE DEF e
    <2>2. IsPrefix(e, s)
      <3>1. Len(e) <= Len(s) /\ \A i \in 1..Len(e) : e[i] = s[i]
        BY <2>1
      <3>2. e \in Seq(S)
        BY <2>1
      <3> QED BY <3>1, <3>2, PrefixIs
    <2>3. IsPrefix(s, s)
      BY <2>1, PrefixIs
    <2> QED BY <2>2, <2>3 DEF e
  <1>2. ASSUME NEW s \in Seq(S), NEW t \in Seq(S), IsPrefix(s, t), IsPrefix(t, s)
        PROVE  s = t
    <2>1. Len(s) \in Nat /\ Len(t) \in Nat
      OBVIOUS
    <2>2. Len(s) = Len(t) /\ \A i \in 1..Len(s) : s[i] = t[i]
      BY <1>2, <2>1, PrefixIs
    <2> QED BY <2>2, SeqEqual
  <1>3. ASSUME NEW s \in Seq(S), NEW t \in Seq(S), NEW u \in Seq(S), IsPrefix(s, t), IsPrefix(t, u)
        PROVE  IsPrefix(s, u)
    <2>1. Len(s) \in Nat /\ Len(t) \in Nat /\ Len(u) \in Nat
      OBVIOUS
    <2>2. /\ Len(s) <= Len(t) /\ \A i \in 1..Len(s) : s[i] = t[i]
          /\ Len(t) <= Len(u) /\ \A i \in 1..Len(t) : t[i] = u[i]
      BY <1>3, PrefixIs
    <2>3. Len(s) <= Len(u) /\ \A i \in 1..Len(s) : s[i] = u[i]
      BY <2>1, <2>2
    <2> QED BY <2>3, PrefixIs
  <1> QED BY <1>1, <1>2, <1>3

\* What is put behind a sequence leaves it a prefix; what is put before both of two
\* keeps one a prefix of the other.
LEMMA PrefixConcat ==
  ASSUME NEW S, NEW s \in Seq(S), NEW t \in Seq(S)
  PROVE  /\ s \o t \in Seq(S) /\ IsPrefix(s, s \o t) /\ Len(s \o t) = Len(s) + Len(t)
         /\ \A u \in Seq(S) : IsPrefix(t, u) => IsPrefix(s \o t, s \o u)
  <1>1. /\ s \o t \in Seq(S) /\ Len(s \o t) = Len(s) + Len(t)
        /\ \A i \in 1..Len(s) + Len(t) :
             (s \o t)[i] = IF i <= Len(s) THEN s[i] ELSE t[i - Len(s)]
    BY ConcatProperties
  <1>2. Len(s) \in Nat /\ Len(t) \in Nat
    OBVIOUS
  <1> DEFINE st == s \o t
  <1>3. IsPrefix(s, st)
    <2>1. st \in Seq(S) /\ Len(s) <= Len(st) /\ \A i \in 1..Len(s) : s[i] = st[i]
      BY <1>1, <1>2
    <2> HIDE DEF st
    <2> QED BY <2>1, PrefixIs
  <1>4. ASSUME NEW u \in Seq(S), IsPrefix(t, u)
        PROVE  IsPrefix(s \o t, s \o u)
    <2>1. /\ s \o u \in Seq(S) /\ Len(s \o u) = Len(s) + Len(u)
          /\ \A i \in 1..Len(s) + Len(u) :
               (s \o u)[i] = IF i <= Len(s) THEN s[i] ELSE u[i - Len(s)]
      BY ConcatProperties
    <2>2. Len(u) \in Nat /\ Len(t) <= Len(u) /\ \A i \in 1..Len(t) : t[i] = u[i]
      BY <1>4, PrefixIs
    <2> DEFINE su == s \o u
    <2>3. st \in Seq(S) /\ su \in Seq(S) /\ Len(st) <= Len(su)
      BY <1>1, <1>2, <2>1, <2>2
    <2>4. \A i \in 1..Len(st) : st[i] = su[i]
      <3> SUFFICES ASSUME NEW i \in 1..Len(st) PROVE st[i] = su[i]
        OBVIOUS
      <3>1. i \in 1..Len(s) + Len(t) /\ i \in 1..Len(s) + Len(u)
        BY <1>1, <1>2, <2>2
      <3>2. CASE i <= Len(s)
        BY <1>1, <2>1, <3>1, <3>2
      <3>3. CASE ~ (i <= Len(s))
        <4>1. i - Len(s) \in 1..Len(t)
          BY <1>2, <3>1, <3>3
        <4> QED BY <1>1, <2>1, <2>2, <3>1, <3>3, <4>1
      <3> QED BY <3>2, <3>3
    <2> HIDE DEF st, su
    <2>5. IsPrefix(st, su)
      BY <2>3, <2>4, PrefixIs
    <2> QED BY <2>5 DEF st, su
  <1> QED BY <1>1, <1>3, <1>4

\* One more record behind a sequence leaves it a prefix.
LEMMA PrefixAppend ==
  ASSUME NEW S, NEW s \in Seq(S), NEW x \in S
  PROVE  Append(s, x) \in Seq(S) /\ IsPrefix(s, Append(s, x)) /\ Append(s, x) = s \o <<x>>
  <1>1. <<x>> \in Seq(S) /\ Append(s, x) = s \o <<x>>
    BY AppendIsConcat
  <1>2. s \o <<x>> \in Seq(S) /\ IsPrefix(s, s \o <<x>>)
    BY <1>1, PrefixConcat
  <1> QED BY <1>1, <1>2

\* A buffer without records has no size.
LEMMA SizeOfEmpty == SizeOf(<<>>) = 0
  <1> DEFINE Sums(sums) ==
        sums = [s \in SUBSET DOMAIN <<>> |->
                  IF s = {} THEN 0
                  ELSE LET x == CHOOSE x \in s : TRUE
                       IN  Weight[<<>>[x]] + sums[s \ {x}]]
  <1>1. DOMAIN <<>> = {}
    OBVIOUS
  <1>2. Sums([s \in SUBSET DOMAIN <<>> |-> 0])
    BY <1>1
  <1>3. SizeOf(<<>>) = (CHOOSE sums : Sums(sums))[DOMAIN <<>>]
    BY DEF SizeOf, FoldFunction, FoldFunctionOnSet, MapThenFoldSet
  <1>4. Sums(CHOOSE sums : Sums(sums))
    <2> HIDE DEF Sums
    <2> QED BY <1>2
  <1>5. (CHOOSE sums : Sums(sums))[{}] = 0
    <2> DEFINE c == CHOOSE sums : Sums(sums)
    <2>1. c = [s \in SUBSET DOMAIN <<>> |->
                  IF s = {} THEN 0
                  ELSE LET x == CHOOSE x \in s : TRUE
                       IN  Weight[<<>>[x]] + c[s \ {x}]]
      BY <1>4
    <2> HIDE DEF c
    <2>2. c[{}] = 0
      BY <1>1, <2>1
    <2> QED BY <2>2 DEF c
  <1> QED BY <1>1, <1>3, <1>5

-----------------------------------------------------------------------------
\* Every record fits in an object.  (One that does not may leave a number without an
\* object: the run gcslog_oversize.)
RecordsFit == \A r \in Record : Weight[r] <= Target

\* An object, and whether it is the one created last of its number.
Object == [num : Nat, bytes : Seq(Record) \ {<<>>}, created : Nat]
IsNewest(o) == \A p \in objects : p.num = o.num => p.created <= o.created

\* The bucket has objects created one after another, and the process a buffer.
Typed ==
  /\ objects \in SUBSET Object /\ IsFiniteSet(objects)
  /\ created \in Nat /\ \A o \in objects : o.created <= created
  /\ \A o, p \in objects : o.created = p.created => o = p
  /\ curNum \in 0 .. MaxSegs - 1 /\ logBuf \in Seq(Record)
  /\ \A n \in DOMAIN seg : seg[n] \in Seq(Record)
  /\ past \in Seq(Seq(Record)) /\ kept \in Seq(Nat)

\* Which steps a process may be between.
Phased ==
  /\ proc \in {"up", "flushing", "down"}
  /\ proc = "flushing" => logBuf # <<>>
  /\ pending # <<>> =>
       /\ proc = "flushing" /\ Len(Served) < MaxLog /\ curNum + 1 < MaxSegs
       /\ \E r \in Record : pending = <<r>>
  /\ Len(past) \in 0 .. MaxRestarts
  /\ proc = "down" => Len(past) < MaxRestarts

\* Of the segments before the buffer the newest objects are what was logged; objects
\* of the buffer's number are what it held when they were created.
Kept ==
  /\ \A n \in 0 .. curNum - 1 : n \in Numbers /\ n \in DOMAIN seg
  /\ \A o \in objects : IsNewest(o) /\ o.num < curNum => o.bytes = seg[o.num]
Buffered ==
  \A o \in objects : o.num <= curNum /\ (o.num = curNum => IsPrefix(o.bytes, logBuf))
Grown ==
  \A o, p \in objects :
    o.num = p.num /\ o.created <= p.created => IsPrefix(o.bytes, p.bytes)

\* The inductive invariant.
GCSInv == Typed /\ Phased /\ Kept /\ Buffered /\ Grown

-----------------------------------------------------------------------------
\* What a process serves is a sequence of records, in as many segments as its number
\* says, and the buffer.
LEMMA ServedIs ==
  ASSUME Typed
  PROVE  /\ Frozen \in Seq(Seq(Record)) /\ Len(Frozen) = curNum /\ curNum \in Nat
         /\ \A i \in 1..curNum : Frozen[i] = SegOf(i - 1)
         /\ FlattenSeq(Frozen) \in Seq(Record) /\ Served \in Seq(Record)
  <1>1. curNum \in Nat
    BY GCSLogAssumption DEF Typed
  <1>2. \A i \in 1..curNum : SegOf(i - 1) \in Seq(Record)
    BY DEF Typed, SegOf
  <1>3. Frozen \in [1..curNum -> Seq(Record)]
    BY <1>2 DEF Frozen
  <1>4. Frozen \in Seq(Seq(Record)) /\ Len(Frozen) = curNum
    <2> HIDE DEF Frozen
    <2> QED BY <1>1, <1>3
  <1>5. \A i \in 1..curNum : Frozen[i] = SegOf(i - 1)
    BY DEF Frozen
  <1>6. FlattenSeq(Frozen) \in Seq(Record)
    BY <1>4, FlattenType
  <1>7. Served \in Seq(Record)
    BY <1>6, PrefixConcat DEF Served, Typed
  <1> QED BY <1>1, <1>4, <1>5, <1>6, <1>7

\* Of the objects with a number one was created last.
LEMMA NewestIs ==
  ASSUME Typed, NEW n \in Numbers
  PROVE  /\ Newest(n) \in objects /\ Newest(n).num = n /\ IsNewest(Newest(n))
         /\ Newest(n).bytes \in Seq(Record) \ {<<>>}
         /\ \A o \in objects : o.num = n /\ IsNewest(o) => o = Newest(n)
  <1> DEFINE IsLast(o) == o.num = n /\ \A p \in objects : p.num = n => p.created <= o.created
             Ages == {created - o.created : o \in {p \in objects : p.num = n}}
  <1>1. \A o \in objects : o.created \in Nat /\ o.created <= created /\ created \in Nat
    BY DEF Typed, Object
  <1>2. Ages \in SUBSET Nat /\ Ages # {}
    BY <1>1 DEF Numbers
  <1>3. PICK a \in Ages : \A b \in Ages : a <= b
    <2> HIDE DEF Ages
    <2> QED BY <1>2, LeastIsThere
  <1>4. PICK o \in objects : o.num = n /\ a = created - o.created
    OBVIOUS
  <1>5. IsLast(o)
    <2> SUFFICES ASSUME NEW p \in objects, p.num = n PROVE p.created <= o.created
      BY <1>4
    <2>1. created - p.created \in Ages
      OBVIOUS
    <2>2. a <= created - p.created
      BY <1>3, <2>1
    <2> QED BY <1>1, <1>4, <2>2
  <1>6. Newest(n) \in objects /\ IsLast(Newest(n))
    <2>1. Newest(n) = CHOOSE x \in objects : IsLast(x)
      BY DEF Newest
    <2> HIDE DEF IsLast
    <2> QED BY <1>5, <2>1
  <1>7. Newest(n).num = n /\ IsNewest(Newest(n))
    BY <1>6 DEF IsNewest
  <1>8. Newest(n).bytes \in Seq(Record) \ {<<>>}
    BY <1>6 DEF Typed, Object
  <1>9. ASSUME NEW p \in objects, p.num = n, IsNewest(p) PROVE p = Newest(n)
    <2>1. p.created <= Newest(n).created /\ Newest(n).created <= p.created
      BY <1>6, <1>7, <1>9 DEF IsNewest
    <2>2. p.created = Newest(n).created
      BY <1>1, <1>6, <2>1
    <2> QED BY <1>6, <2>2 DEF Typed
  <1> QED BY <1>6, <1>7, <1>8, <1>9

\* An empty bucket, and nothing logged.
LEMMA GCSInit == Init => GCSInv
  <1> SUFFICES ASSUME Init PROVE GCSInv
    OBVIOUS
  <1>1. /\ objects = {} /\ created = 0 /\ seg = <<>> /\ curNum = 0 /\ logBuf = <<>>
        /\ proc = "up" /\ pending = <<>> /\ past = <<>> /\ kept = <<0>>
    BY DEF Init
  <1>2. Typed
    <2>1. IsFiniteSet(objects) /\ objects \in SUBSET Object
      BY <1>1, FS_EmptySet
    <2>2. curNum \in 0 .. MaxSegs - 1
      BY <1>1, GCSLogAssumption
    <2>3. DOMAIN seg = {}
      BY <1>1
    <2> QED BY <1>1, <2>1, <2>2, <2>3 DEF Typed
  <1>3. Phased
    BY <1>1, GCSLogAssumption DEF Phased
  <1>4. Kept /\ Buffered /\ Grown
    BY <1>1 DEF Kept, Buffered, Grown
  <1> QED BY <1>2, <1>3, <1>4 DEF GCSInv

\* Steps that leave the bucket and what is stored alone, and let the buffer only grow.
LEMMA GCSNothingStored ==
  ASSUME GCSInv, UNCHANGED <<objects, created, seg, curNum, past, kept>>,
         logBuf' \in Seq(Record), IsPrefix(logBuf, logBuf'), Phased'
  PROVE  GCSInv'
  <1>1. Typed'
    BY DEF GCSInv, Typed
  <1>2. Kept'
    BY DEF GCSInv, Kept, Numbers, IsNewest
  <1>3. Buffered'
    <2> SUFFICES ASSUME NEW o \in objects, o.num = curNum PROVE IsPrefix(o.bytes, logBuf')
      BY DEF GCSInv, Buffered
    <2>1. o.bytes \in Seq(Record) /\ logBuf \in Seq(Record) /\ IsPrefix(o.bytes, logBuf)
      BY DEF GCSInv, Buffered, Typed, Object
    <2> QED BY <2>1, PrefixOrder
  <1>4. Grown'
    BY DEF GCSInv, Grown
  <1> QED BY <1>1, <1>2, <1>3, <1>4 DEF GCSInv

\* A record is put in the buffer, or waits for an upload of what is in it.
LEMMA GCSLogging ==
  ASSUME RecordsFit, GCSInv, NEW r \in Record, Log(r) \/ LogFull(r)
  PROVE  GCSInv'
  <1>1. logBuf \in Seq(Record) /\ Len(past) \in 0 .. MaxRestarts /\ proc = "up"
    BY DEF GCSInv, Typed, Phased, Log, LogFull
  <1>2. CASE Log(r)
    <2>1. logBuf' \in Seq(Record) /\ IsPrefix(logBuf, logBuf')
      BY <1>1, <1>2, PrefixAppend DEF Log
    <2>2. pending = <<>>
      BY <1>1 DEF GCSInv, Phased
    <2>3. Phased'
      BY <1>1, <1>2, <2>2 DEF Log, Phased
    <2> QED BY <1>2, <2>1, <2>3, GCSNothingStored DEF Log
  <1>3. CASE LogFull(r)
    <2>1. logBuf # <<>>
      <3> SUFFICES ASSUME logBuf = <<>> PROVE FALSE
        OBVIOUS
      <3>1. SizeOf(logBuf) + Weight[r] > Target /\ SizeOf(logBuf) = 0
        BY <1>3, SizeOfEmpty DEF LogFull
      <3>2. Weight[r] \in Nat /\ Target \in Nat /\ Weight[r] <= Target
        BY GCSLogAssumption DEF RecordsFit
      <3> QED BY <3>1, <3>2
    <2>2. /\ UNCHANGED <<objects, created, seg, curNum, logBuf, past, kept>>
          /\ proc' = "flushing" /\ pending' = <<r>>
          /\ Len(Served) < MaxLog /\ curNum + 1 < MaxSegs
      BY <1>3 DEF LogFull, mem
    <2>3. Served' = Served
      BY <2>2 DEF Served, Frozen, SegOf
    <2>4. Phased'
      BY <1>1, <2>1, <2>2, <2>3 DEF Phased
    <2>5. IsPrefix(logBuf, logBuf')
      BY <1>1, <2>2, PrefixOrder
    <2> QED BY <1>1, <2>2, <2>4, <2>5, GCSNothingStored
  <1> QED BY <1>2, <1>3

\* The timer fires, an upload is given up, or the process dies.
LEMMA GCSWaiting ==
  ASSUME GCSInv, FlushTimer \/ FlushFails \/ Die
  PROVE  GCSInv'
  <1>1. /\ UNCHANGED <<objects, created, seg, curNum, logBuf, past, kept>>
        /\ logBuf \in Seq(Record)
    BY DEF GCSInv, Typed, FlushTimer, FlushFails, Die
  <1>2. IsPrefix(logBuf, logBuf')
    BY <1>1, PrefixOrder
  <1>3. Phased'
    <2>1. pending' = <<>>
      BY DEF GCSInv, Phased, FlushTimer, FlushFails, Die
    <2>2. Len(past) \in 0 .. MaxRestarts
      BY DEF GCSInv, Phased
    <2>3. CASE FlushTimer
      BY <1>1, <2>1, <2>2, <2>3 DEF Phased, FlushTimer
    <2>4. CASE FlushFails
      BY <1>1, <2>1, <2>2, <2>4 DEF Phased, FlushFails
    <2>5. CASE Die
      BY <1>1, <2>1, <2>2, <2>5 DEF Phased, Die
    <2> QED BY <2>3, <2>4, <2>5
  <1> QED BY <1>1, <1>2, <1>3, GCSNothingStored

\* An object with all of the buffer is the newest of its number.
LEMMA GCSUpload ==
  ASSUME GCSInv, Upload
  PROVE  GCSInv'
  <1>1. /\ proc = "flushing" /\ objects' = objects \union {Uploading} /\ created' = created + 1
        /\ UNCHANGED <<seg, curNum, logBuf, proc, pending, past, kept>>
    BY DEF Upload, mem
  <1>2. /\ Uploading.num = curNum /\ Uploading.bytes = logBuf
        /\ Uploading.created = created + 1
    BY DEF Uploading
  <1>3. created \in Nat /\ \A o \in objects : o.created \in Nat /\ o.created <= created
    BY DEF GCSInv, Typed, Object
  <1>4. Uploading \in Object
    <2>1. curNum \in Nat /\ logBuf \in Seq(Record) \ {<<>>}
      BY <1>1, ServedIs DEF GCSInv, Phased, Typed
    <2> QED BY <1>3, <2>1 DEF Uploading, Object
  <1>5. Typed'
    <2>1. objects' \in SUBSET Object /\ IsFiniteSet(objects')
      BY <1>1, <1>4, FS_AddElement DEF GCSInv, Typed
    <2>2. created' \in Nat /\ \A o \in objects' : o.created <= created'
      BY <1>1, <1>2, <1>3
    <2>3. \A o, p \in objects' : o.created = p.created => o = p
      <3> SUFFICES ASSUME NEW o \in objects', NEW p \in objects', o.created = p.created
                   PROVE  o = p
        OBVIOUS
      <3>1. CASE o \in objects /\ p \in objects
        BY <3>1 DEF GCSInv, Typed
      <3>2. CASE o \notin objects \/ p \notin objects
        BY <1>1, <1>2, <1>3, <3>2
      <3> QED BY <3>1, <3>2
    <2> QED BY <1>1, <2>1, <2>2, <2>3 DEF GCSInv, Typed
  <1>6. Phased'
    <2>1. Served' = Served
      BY <1>1 DEF Served, Frozen, SegOf
    <2> QED BY <1>1, <2>1 DEF GCSInv, Phased
  <1>7. Kept'
    <2>1. Numbers \subseteq Numbers'
      BY <1>1 DEF Numbers
    <2>2. ASSUME NEW o \in objects', IsNewest(o)', o.num < curNum
          PROVE  o.bytes = seg[o.num]
      <3>1. curNum \in Nat
        BY ServedIs DEF GCSInv
      <3>2. o \in objects
        BY <1>1, <1>2, <2>2, <3>1
      <3>3. IsNewest(o)
        BY <1>1, <2>2, <3>2 DEF IsNewest
      <3> QED BY <2>2, <3>2, <3>3 DEF GCSInv, Kept
    <2> QED BY <1>1, <2>1, <2>2 DEF GCSInv, Kept
  <1>8. logBuf \in Seq(Record) /\ IsPrefix(logBuf, logBuf) /\ curNum \in Nat
    BY PrefixOrder, ServedIs DEF GCSInv, Typed
  <1>9. Buffered'
    BY <1>1, <1>2, <1>8 DEF GCSInv, Buffered
  <1>10. Grown'
    <2> SUFFICES ASSUME NEW o \in objects', NEW p \in objects',
                        o.num = p.num, o.created <= p.created
                 PROVE  IsPrefix(o.bytes, p.bytes)
      BY DEF Grown
    <2>1. CASE o \in objects /\ p \in objects
      BY <2>1 DEF GCSInv, Grown
    <2>2. CASE p \notin objects
      <3>1. p = Uploading
        BY <1>1, <2>2
      <3>2. o = Uploading \/ o \in objects
        BY <1>1
      <3> QED BY <1>2, <1>8, <3>1, <3>2 DEF GCSInv, Buffered
    <2>3. CASE o \notin objects /\ p \in objects
      <3>1. o.created = created + 1 /\ p.created <= created
        BY <1>1, <1>2, <1>3, <2>3
      <3> QED BY <1>3, <2>3, <3>1
    <2> QED BY <2>1, <2>2, <2>3
  <1> QED BY <1>5, <1>6, <1>7, <1>9, <1>10 DEF GCSInv

\* Once the buffer is stored, what is deleted is an older object of its number.
LEMMA OlderIsDeleted ==
  ASSUME GCSInv, AfterUpload
  PROVE  /\ proc = "flushing" /\ logBuf # <<>>
         /\ objects' \subseteq objects
         /\ \A o \in objects : o \notin objects' => o.num = curNum /\ o.bytes # logBuf
         /\ \E o \in objects' : o.num = curNum /\ o.bytes = logBuf
         /\ seg' = Put(seg, curNum, logBuf)
  <1>1. proc = "flushing" /\ logBuf # <<>> /\ Stored
    BY DEF GCSInv, Phased, AfterUpload
  <1>2. /\ seg' = Put(seg, curNum, logBuf)
        /\ objects' \in IF SegOf(curNum) \in {<<>>, logBuf} THEN {objects}
                        ELSE Deleted([num |-> curNum, bytes |-> seg[curNum]])
    BY <1>1 DEF AfterUpload
  <1>3. PICK o \in objects : o.num = curNum /\ o.bytes = logBuf
    BY <1>1 DEF Stored, SameName, Uploading
  <1>4. /\ objects' \subseteq objects
        /\ \A p \in objects : p \notin objects' => p.num = curNum /\ p.bytes # logBuf
    <2>1. CASE SegOf(curNum) \in {<<>>, logBuf}
      BY <1>2, <2>1
    <2>2. CASE SegOf(curNum) \notin {<<>>, logBuf}
      <3>1. SegOf(curNum) = seg[curNum]
        BY <2>2 DEF SegOf
      <3>2. objects' \in Deleted([num |-> curNum, bytes |-> seg[curNum]])
        BY <1>2, <2>2
      <3> QED BY <2>2, <3>1, <3>2 DEF Deleted, SameName
    <2> QED BY <2>1, <2>2
  <1>5. o \in objects'
    BY <1>3, <1>4
  <1> QED BY <1>1, <1>2, <1>3, <1>4, <1>5

\* The segment is known to be stored, and a record that waited begins the next one.
LEMMA GCSAfterUpload ==
  ASSUME GCSInv, AfterUpload
  PROVE  GCSInv'
  <1>1. /\ proc = "flushing" /\ logBuf # <<>> /\ objects' \subseteq objects
        /\ \A o \in objects : o \notin objects' => o.num = curNum /\ o.bytes # logBuf
        /\ seg' = Put(seg, curNum, logBuf)
    BY OlderIsDeleted
  <1>2. PICK stored \in objects' : stored.num = curNum /\ stored.bytes = logBuf
    BY OlderIsDeleted
  <1>3. /\ proc' = "up" /\ pending' = <<>> /\ UNCHANGED <<created, past, kept>>
        /\ \/ pending = <<>> /\ curNum' = curNum /\ logBuf' = logBuf
           \/ pending # <<>> /\ curNum' = curNum + 1 /\ logBuf' = pending
    BY DEF AfterUpload
  <1>4. curNum \in Nat /\ MaxSegs \in Nat /\ curNum < MaxSegs /\ logBuf \in Seq(Record)
    BY ServedIs, GCSLogAssumption DEF GCSInv, Typed
  <1>5. Typed'
    <2>1. objects' \in SUBSET Object /\ IsFiniteSet(objects')
      BY <1>1, FS_Subset DEF GCSInv, Typed
    <2>2. curNum' \in 0 .. MaxSegs - 1 /\ logBuf' \in Seq(Record)
      <3>1. ASSUME pending # <<>> PROVE curNum + 1 < MaxSegs /\ pending \in Seq(Record)
        <4>1. PICK r \in Record : pending = <<r>>
          BY <3>1 DEF GCSInv, Phased
        <4>2. <<r>> \in Seq(Record)
          OBVIOUS
        <4> QED BY <3>1, <4>1, <4>2 DEF GCSInv, Phased
      <3> QED BY <1>3, <1>4, <3>1
    <2>3. \A n \in DOMAIN seg' : seg'[n] \in Seq(Record)
      BY <1>1, <1>4 DEF GCSInv, Typed, Put
    <2> QED BY <1>1, <1>3, <2>1, <2>2, <2>3 DEF GCSInv, Typed
  <1>6. Phased'
    BY <1>3 DEF GCSInv, Phased
  <1>7. \A o \in objects' : o \in objects /\ o.num \in Nat /\ o.num <= curNum /\ o.created \in Nat
                            /\ stored.created \in Nat
    BY <1>1 DEF GCSInv, Typed, Object, Buffered
  <1>8. ASSUME NEW o \in objects', IsNewest(o)', o.num = curNum
        PROVE  o.bytes = logBuf
    <2>1. stored.created <= o.created
      BY <1>2, <1>8 DEF IsNewest
    <2>2. IsPrefix(logBuf, o.bytes) /\ IsPrefix(o.bytes, logBuf) /\ o.bytes \in Seq(Record)
      BY <1>1, <1>2, <1>8, <2>1 DEF GCSInv, Grown, Buffered, Typed, Object
    <2> QED BY <1>4, <2>2, PrefixOrder
  <1>9. ASSUME NEW o \in objects', IsNewest(o)', o.num < curNum
        PROVE  o.bytes = seg[o.num]
    <2>1. \A p \in objects : p.num = o.num => p \in objects'
      BY <1>1, <1>4, <1>7, <1>9
    <2>2. IsNewest(o) /\ o \in objects
      BY <1>1, <1>9, <2>1 DEF IsNewest
    <2> QED BY <1>9, <2>2 DEF GCSInv, Kept
  <1>10. \A n \in 0 .. curNum - 1 : n \in Numbers' /\ n \in DOMAIN seg' /\ seg'[n] = seg[n]
    <2> SUFFICES ASSUME NEW n \in 0 .. curNum - 1
                 PROVE  n \in Numbers' /\ n \in DOMAIN seg' /\ seg'[n] = seg[n]
      OBVIOUS
    <2>1. n \in Numbers /\ n \in DOMAIN seg /\ n # curNum
      BY <1>4 DEF GCSInv, Kept
    <2>2. PICK o \in objects : o.num = n
      BY <2>1 DEF Numbers
    <2>3. o \in objects'
      BY <1>1, <2>1, <2>2
    <2>4. n \in Numbers'
      BY <2>2, <2>3 DEF Numbers
    <2> QED BY <1>1, <2>1, <2>4 DEF Put
  <1>11. curNum \in Numbers' /\ curNum \in DOMAIN seg' /\ seg'[curNum] = logBuf
    BY <1>1, <1>2 DEF Numbers, Put
  <1>12. Kept'
    <2>1. curNum' = curNum \/ curNum' = curNum + 1
      BY <1>3
    <2>2. \A n \in 0 .. curNum' - 1 : n \in Numbers' /\ n \in DOMAIN seg'
      BY <1>4, <1>10, <1>11, <2>1
    <2>3. ASSUME NEW o \in objects', IsNewest(o)', o.num < curNum'
          PROVE  o.bytes = seg'[o.num]
      <3>1. CASE o.num < curNum
        <4>1. o.num \in 0 .. curNum - 1
          BY <1>4, <1>7, <3>1
        <4> QED BY <1>9, <1>10, <2>3, <3>1, <4>1
      <3>2. CASE o.num = curNum
        BY <1>8, <1>11, <2>3, <3>2
      <3> QED BY <1>4, <1>7, <2>1, <2>3, <3>1, <3>2
    <2> QED BY <2>2, <2>3 DEF Kept
  <1>13. Buffered'
    <2>1. ASSUME NEW o \in objects'
          PROVE  o.num <= curNum' /\ (o.num = curNum' => IsPrefix(o.bytes, logBuf'))
      BY <1>3, <1>4, <1>7 DEF GCSInv, Buffered
    <2> QED BY <2>1 DEF Buffered
  <1>14. Grown'
    BY <1>1 DEF GCSInv, Grown
  <1> QED BY <1>5, <1>6, <1>12, <1>13, <1>14 DEF GCSInv

\* The numbers in the bucket have no gap: all before the buffer's are there, and that
\* of the buffer may be.
LEMMA NumbersAre ==
  ASSUME GCSInv
  PROVE  /\ Numbers = 0 .. Cardinality(Numbers) - 1
         /\ Cardinality(Numbers) = IF curNum \in Numbers THEN curNum + 1 ELSE curNum
         /\ Numbers \subseteq Nat
  <1>1. curNum \in Nat
    BY ServedIs DEF GCSInv
  <1>2. \A n \in Numbers : n \in Nat /\ n <= curNum
    BY DEF GCSInv, Typed, Object, Buffered, Numbers
  <1>3. 0 .. curNum - 1 \subseteq Numbers
    BY DEF GCSInv, Kept
  <1> DEFINE k == IF curNum \in Numbers THEN curNum + 1 ELSE curNum
  <1>4. k \in Nat
    BY <1>1
  <1>5. Numbers = 0 .. k - 1
    <2>1. CASE curNum \in Numbers
      <3>1. Numbers = 0 .. curNum
        <4>1. Numbers \subseteq 0 .. curNum
          BY <1>1, <1>2
        <4>2. ASSUME NEW n \in 0 .. curNum PROVE n \in Numbers
          <5>1. n = curNum \/ n \in 0 .. curNum - 1
            BY <1>1
          <5> QED BY <1>3, <2>1, <5>1
        <4> QED BY <4>1, <4>2
      <3> QED BY <1>1, <2>1, <3>1
    <2>2. CASE curNum \notin Numbers
      <3>1. Numbers = 0 .. curNum - 1
        <4>1. ASSUME NEW n \in Numbers PROVE n \in 0 .. curNum - 1
          <5>1. n # curNum /\ n \in Nat /\ n <= curNum
            BY <1>2, <2>2
          <5> QED BY <1>1, <5>1
        <4> QED BY <1>3, <4>1
      <3> QED BY <1>1, <2>2, <3>1
    <2> QED BY <2>1, <2>2
  <1> HIDE DEF k
  <1>6. Cardinality(0 .. k - 1) = k
    BY <1>4, FS_Interval
  <1> QED BY <1>2, <1>5, <1>6 DEF k

\* A load leaves the newest object of each number.
LEMMA LoadLeaves ==
  ASSUME GCSInv, InitLoad
  PROVE  /\ objects' \subseteq objects /\ Numbers' = Numbers
         /\ \A n \in Numbers : Newest(n) \in objects'
         /\ \A o \in objects' : IsNewest(o)' => o = Newest(o.num)
  <1>1. PICK gone \in SUBSET Superseded : objects' = objects \ gone
    BY DEF InitLoad
  <1>2. objects' \subseteq objects
    BY <1>1
  <1>3. ASSUME NEW n \in Numbers
        PROVE  Newest(n) \in objects' /\ Newest(n).num = n
    <2>1. Newest(n) \in objects /\ Newest(n).num = n
      BY NewestIs DEF GCSInv
    <2>2. Newest(n) \notin Superseded
      BY <2>1 DEF Superseded
    <2> QED BY <1>1, <2>1, <2>2
  <1>4. Numbers' = Numbers
    BY <1>2, <1>3 DEF Numbers
  <1>5. ASSUME NEW o \in objects', IsNewest(o)'
        PROVE  o = Newest(o.num)
    <2>1. o \in objects /\ o.num \in Numbers
      BY <1>2 DEF Numbers
    <2> DEFINE p == Newest(o.num)
    <2>2. p \in objects /\ p.num = o.num /\ IsNewest(p) /\ p \in objects'
      BY <1>3, <2>1, NewestIs DEF GCSInv
    <2> HIDE DEF p
    <2>3. p.created <= o.created
      BY <1>5, <2>2 DEF IsNewest
    <2>4. o.created <= p.created
      BY <2>1, <2>2 DEF IsNewest
    <2>5. o.created = p.created
      BY <2>1, <2>2, <2>3, <2>4 DEF GCSInv, Typed, Object
    <2> QED BY <2>1, <2>2, <2>5 DEF GCSInv, Typed, p
  <1> QED BY <1>2, <1>3, <1>4, <1>5

\* The number that a process takes up, and its buffer.
LEMMA LoadTakes ==
  ASSUME GCSInv, InitLoad
  PROVE  /\ Numbers = {} => curNum' = 0 /\ logBuf' = <<>>
         /\ Numbers # {} =>
              /\ MaxNum \in Numbers /\ MaxNum = Cardinality(Numbers) - 1
              /\ \/ /\ curNum' = MaxNum + 1 /\ logBuf' = <<>>
                    /\ MaxNum + 1 < MaxSegs
                 \/ curNum' = MaxNum /\ logBuf' = Newest(MaxNum).bytes
         /\ \A n \in Numbers : n < curNum' \/ (n = MaxNum /\ n = curNum')
         /\ \A n \in 0 .. curNum' - 1 : n \in Numbers
         /\ curNum' \in 0 .. MaxSegs - 1
         /\ logBuf' \in Seq(Record)
  <1>1. /\ Numbers = 0 .. Cardinality(Numbers) - 1
        /\ Cardinality(Numbers) \in Nat /\ curNum \in Nat /\ MaxSegs \in Nat \ {0}
        /\ Cardinality(Numbers) <= curNum + 1 /\ curNum < MaxSegs
    BY NumbersAre, ServedIs, GCSLogAssumption DEF GCSInv, Typed
  <1>2. CASE Numbers = {}
    <2>1. curNum' = 0 /\ logBuf' = <<>>
      BY <1>2 DEF InitLoad
    <2> QED BY <1>1, <1>2, <2>1
  <1>3. CASE Numbers # {}
    <2> DEFINE k == Cardinality(Numbers)
    <2>1. k \in Nat \ {0}
      BY <1>1, <1>3
    <2>2. MaxNum = k - 1
      <3> DEFINE IsMax(n) == \A m \in Numbers : m <= n
      <3>1. k - 1 \in Numbers /\ IsMax(k - 1)
        BY <1>1, <2>1
      <3>2. ASSUME NEW n \in Numbers, IsMax(n) PROVE n = k - 1
        <4>1. k - 1 <= n
          BY <3>1, <3>2
        <4>2. n \in Nat /\ n <= k - 1
          BY <1>1, <2>1
        <4> QED BY <2>1, <4>1, <4>2
      <3>3. MaxNum = CHOOSE n \in Numbers : IsMax(n)
        BY DEF MaxNum
      <3> HIDE DEF IsMax
      <3> QED BY <3>1, <3>2, <3>3
    <2>3. MaxNum \in Numbers /\ Loaded[MaxNum] = Newest(MaxNum).bytes
      BY <1>1, <2>1, <2>2 DEF Loaded
    <2>4. \/ curNum' = MaxNum + 1 /\ logBuf' = <<>> /\ MaxNum + 1 < MaxSegs
          \/ curNum' = MaxNum /\ logBuf' = Newest(MaxNum).bytes
      BY <1>3, <2>3 DEF InitLoad
    <2>5. Newest(MaxNum).bytes \in Seq(Record)
      BY <2>3, NewestIs DEF GCSInv
    <2> HIDE DEF k
    <2>6. /\ \A n \in Numbers : n < curNum' \/ (n = MaxNum /\ n = curNum')
          /\ \A n \in 0 .. curNum' - 1 : n \in Numbers
          /\ curNum' \in 0 .. MaxSegs - 1
      <3>1. Numbers = 0 .. k - 1 /\ k <= curNum + 1
        BY <1>1 DEF k
      <3> HIDE DEF k
      <3>2. CASE curNum' = k /\ k < MaxSegs
        BY <1>1, <2>1, <3>1, <3>2
      <3>3. CASE curNum' = k - 1
        <4>1. \A n \in Numbers : n < curNum' \/ (n = MaxNum /\ n = curNum')
          BY <1>1, <2>1, <2>2, <3>1, <3>3
        <4> QED BY <1>1, <2>1, <3>1, <3>3, <4>1
      <3> QED BY <2>1, <2>2, <2>4, <3>2, <3>3
    <2>7. logBuf' \in Seq(Record)
      <3>1. <<>> \in Seq(Record)
        OBVIOUS
      <3> QED BY <2>4, <2>5, <3>1
    <2> QED BY <1>3, <2>2, <2>3, <2>4, <2>6, <2>7 DEF k
  <1> QED BY <1>2, <1>3

\* What is stored of a log is a sequence of records, in segments of its own.
LEMMA StoredIs ==
  ASSUME GCSInv
  PROVE  /\ StoredSegs \in Seq(Seq(Record)) /\ Len(StoredSegs) = Cardinality(Numbers)
         /\ \A i \in 1..Cardinality(Numbers) : StoredSegs[i] = Newest(i - 1).bytes
         /\ FlattenSeq(StoredSegs) \in Seq(Record) /\ Committed \in Nat
  <1>1. Numbers = 0 .. Cardinality(Numbers) - 1 /\ Cardinality(Numbers) \in Nat
    BY NumbersAre, ServedIs DEF GCSInv
  <1>2. ASSUME NEW i \in 1..Cardinality(Numbers)
        PROVE  Loaded[i - 1] = Newest(i - 1).bytes /\ Newest(i - 1).bytes \in Seq(Record)
    <2>1. i - 1 \in Numbers
      BY <1>1
    <2> QED BY <2>1, NewestIs DEF GCSInv, Loaded
  <1>3. StoredSegs \in [1..Cardinality(Numbers) -> Seq(Record)]
    BY <1>2 DEF StoredSegs
  <1>4. StoredSegs \in Seq(Seq(Record)) /\ Len(StoredSegs) = Cardinality(Numbers)
    <2> HIDE DEF StoredSegs
    <2> QED BY <1>1, <1>3
  <1>5. \A i \in 1..Cardinality(Numbers) : StoredSegs[i] = Newest(i - 1).bytes
    BY <1>2 DEF StoredSegs
  <1>6. FlattenSeq(StoredSegs) \in Seq(Record) /\ Len(FlattenSeq(StoredSegs)) \in Nat
    BY <1>4, FlattenType
  <1> QED BY <1>4, <1>5, <1>6 DEF Committed

\* The next process takes up what the bucket has.
LEMMA GCSInitLoad ==
  ASSUME GCSInv, InitLoad
  PROVE  GCSInv'
  <1>1. /\ proc = "down" /\ proc' = "up" /\ UNCHANGED <<created, pending>> /\ seg' = Loaded
        /\ past' = Append(past, Served) /\ kept' = Append(kept, Committed)
    BY DEF InitLoad, Committed, StoredSegs
  <1>2. pending = <<>>
    BY <1>1 DEF GCSInv, Phased
  <1>3. DOMAIN seg' = Numbers /\ \A n \in Numbers : seg'[n] = Newest(n).bytes
    BY <1>1 DEF Loaded
  <1>4. \A n \in Numbers : Newest(n).bytes \in Seq(Record)
    BY NewestIs DEF GCSInv
  <1>5. Served \in Seq(Record) /\ Committed \in Nat
        /\ past \in Seq(Seq(Record)) /\ kept \in Seq(Nat) /\ Len(past) \in Nat
    BY ServedIs, StoredIs DEF GCSInv, Typed
  <1>6. /\ past' \in Seq(Seq(Record)) /\ kept' \in Seq(Nat) /\ Len(past') = Len(past) + 1
    BY <1>1, <1>5
  <1>7. Typed'
    <2>1. objects' \in SUBSET Object /\ IsFiniteSet(objects')
      BY LoadLeaves, FS_Subset DEF GCSInv, Typed
    <2>2. \A n \in DOMAIN seg' : seg'[n] \in Seq(Record)
      BY <1>3, <1>4
    <2>3. curNum' \in 0 .. MaxSegs - 1 /\ logBuf' \in Seq(Record)
      BY LoadTakes
    <2>4. /\ created' \in Nat /\ \A o \in objects' : o.created <= created'
          /\ \A o, p \in objects' : o.created = p.created => o = p
      BY <1>1, LoadLeaves DEF GCSInv, Typed
    <2> QED BY <1>6, <2>1, <2>2, <2>3, <2>4 DEF Typed
  <1>8. Phased'
    <2>1. Len(past) < MaxRestarts /\ MaxRestarts \in Nat
      BY <1>1, GCSLogAssumption DEF GCSInv, Phased
    <2>2. Len(past') \in 0 .. MaxRestarts
      BY <1>5, <1>6, <2>1
    <2> QED BY <1>1, <1>2, <2>2 DEF Phased
  <1>9. Kept'
    <2>1. \A n \in 0 .. curNum' - 1 : n \in Numbers' /\ n \in DOMAIN seg'
      BY <1>3, LoadTakes, LoadLeaves
    <2>2. ASSUME NEW o \in objects', IsNewest(o)'
          PROVE  o.bytes = seg'[o.num]
      <3>1. o = Newest(o.num) /\ o.num \in Numbers
        BY <2>2, LoadLeaves DEF Numbers
      <3> QED BY <1>3, <3>1
    <2> QED BY <2>1, <2>2 DEF Kept
  <1>10. Buffered'
    <2> SUFFICES ASSUME NEW o \in objects'
                 PROVE  o.num <= curNum' /\ (o.num = curNum' => IsPrefix(o.bytes, logBuf'))
      BY DEF Buffered
    <2>1. o \in objects /\ o.num \in Numbers /\ o.num \in Nat /\ curNum' \in Nat
      <3>1. curNum' \in Nat
        BY LoadTakes, GCSLogAssumption
      <3> QED BY <3>1, LoadLeaves, NumbersAre DEF Numbers
    <2>2. o.num < curNum' \/ (o.num = MaxNum /\ o.num = curNum')
      BY <2>1, LoadTakes
    <2>3. ASSUME o.num = curNum' PROVE IsPrefix(o.bytes, logBuf')
      <3>1. o.num = MaxNum /\ Numbers # {}
        BY <2>1, <2>2, <2>3
      <3>2. logBuf' = Newest(o.num).bytes
        BY <2>1, <2>3, <3>1, LoadTakes
      <3>3. Newest(o.num) \in objects /\ Newest(o.num).num = o.num /\ IsNewest(Newest(o.num))
        BY <2>1, NewestIs DEF GCSInv
      <3>4. o.created <= Newest(o.num).created
        BY <2>1, <3>3 DEF IsNewest
      <3> QED BY <2>1, <3>2, <3>3, <3>4 DEF GCSInv, Grown
    <2> QED BY <2>1, <2>2, <2>3
  <1>11. Grown'
    BY LoadLeaves DEF GCSInv, Grown
  <1> QED BY <1>7, <1>8, <1>9, <1>10, <1>11 DEF GCSInv

\* Every step keeps the invariant.
LEMMA GCSNext ==
  ASSUME RecordsFit, GCSInv, [Next]_vars
  PROVE  GCSInv'
  <1>1. CASE UNCHANGED vars
    <2>1. /\ UNCHANGED <<objects, created, seg, curNum, logBuf, past, kept, proc, pending>>
          /\ logBuf \in Seq(Record)
      BY <1>1 DEF GCSInv, Typed, vars, mem
    <2>2. Phased'
      BY <2>1 DEF GCSInv, Phased, Served, Frozen, SegOf
    <2> QED BY <2>1, <2>2, PrefixOrder, GCSNothingStored
  <1>2. CASE \E r \in Record : Log(r) \/ LogFull(r)
    BY <1>2, GCSLogging
  <1>3. CASE FlushTimer \/ FlushFails \/ Die
    BY <1>3, GCSWaiting
  <1>4. CASE Upload
    BY <1>4, GCSUpload
  <1>5. CASE AfterUpload
    BY <1>5, GCSAfterUpload
  <1>6. CASE InitLoad
    BY <1>6, GCSInitLoad
  <1> QED BY <1>1, <1>2, <1>3, <1>4, <1>5, <1>6 DEF Next

\* If every record fits in an object, it holds in every behaviour.
LEMMA GCSInvHolds ==
  ASSUME RecordsFit
  PROVE  Spec => []GCSInv
  <1>1. GCSInv /\ [Next]_vars => GCSInv'
    BY GCSNext
  <1> QED BY <1>1, GCSInit, PTL DEF Spec

-----------------------------------------------------------------------------
\* What the bucket has of the buffer.
InBuffer == IF curNum \in Numbers THEN Newest(curNum).bytes ELSE <<>>

\* The segments stored are those before the buffer, and the beginning of the buffer.
LEMMA StoredBegins ==
  GCSInv =>
    /\ InBuffer \in Seq(Record) /\ logBuf \in Seq(Record) /\ IsPrefix(InBuffer, logBuf)
    /\ curNum \in Numbers => InBuffer # <<>>
    /\ StoredSegs = IF curNum \in Numbers THEN Append(Frozen, InBuffer) ELSE Frozen
    /\ FlattenSeq(StoredSegs) = FlattenSeq(Frozen) \o InBuffer
    /\ Committed = Len(FlattenSeq(Frozen)) + Len(InBuffer)
  <1> SUFFICES ASSUME GCSInv
               PROVE  /\ InBuffer \in Seq(Record) /\ logBuf \in Seq(Record)
                      /\ IsPrefix(InBuffer, logBuf)
                      /\ curNum \in Numbers => InBuffer # <<>>
                      /\ StoredSegs = IF curNum \in Numbers THEN Append(Frozen, InBuffer)
                                      ELSE Frozen
                      /\ FlattenSeq(StoredSegs) = FlattenSeq(Frozen) \o InBuffer
                      /\ Committed = Len(FlattenSeq(Frozen)) + Len(InBuffer)
    OBVIOUS
  <1>1. /\ logBuf \in Seq(Record) /\ curNum \in Nat
        /\ Frozen \in Seq(Seq(Record)) /\ Len(Frozen) = curNum
        /\ \A i \in 1..curNum : Frozen[i] = SegOf(i - 1)
        /\ FlattenSeq(Frozen) \in Seq(Record)
    BY ServedIs DEF GCSInv, Typed
  <1>2. /\ InBuffer \in Seq(Record) /\ IsPrefix(InBuffer, logBuf)
        /\ curNum \in Numbers => InBuffer # <<>>
    <2>1. CASE curNum \in Numbers
      <3>1. /\ Newest(curNum) \in objects /\ Newest(curNum).num = curNum
            /\ Newest(curNum).bytes \in Seq(Record) \ {<<>>}
        BY <2>1, NewestIs DEF GCSInv
      <3> QED BY <2>1, <3>1 DEF InBuffer, GCSInv, Buffered
    <2>2. CASE curNum \notin Numbers
      <3>1. <<>> \in Seq(Record) /\ InBuffer = <<>>
        BY <2>2 DEF InBuffer
      <3> QED BY <1>1, <2>2, <3>1, PrefixOrder
    <2> QED BY <2>1, <2>2
  <1>3. /\ StoredSegs \in Seq(Seq(Record)) /\ Len(StoredSegs) = Cardinality(Numbers)
        /\ \A i \in 1..Cardinality(Numbers) : StoredSegs[i] = Newest(i - 1).bytes
        /\ Cardinality(Numbers) = IF curNum \in Numbers THEN curNum + 1 ELSE curNum
    BY StoredIs, NumbersAre
  <1>4. ASSUME NEW i \in 1..curNum PROVE StoredSegs[i] = Frozen[i]
    <2>1. i - 1 \in 0 .. curNum - 1 /\ i \in 1..Cardinality(Numbers)
      BY <1>1, <1>3
    <2>2. i - 1 \in Numbers /\ i - 1 \in DOMAIN seg
      BY <2>1 DEF GCSInv, Kept
    <2>3. /\ Newest(i - 1) \in objects /\ Newest(i - 1).num = i - 1
          /\ IsNewest(Newest(i - 1))
      BY <2>2, NewestIs DEF GCSInv
    <2>4. Newest(i - 1).bytes = seg[i - 1]
      BY <1>1, <2>1, <2>3 DEF GCSInv, Kept
    <2> QED BY <1>1, <1>3, <2>1, <2>2, <2>4 DEF SegOf
  <1>5. StoredSegs = IF curNum \in Numbers THEN Append(Frozen, InBuffer) ELSE Frozen
    <2>1. CASE curNum \in Numbers
      <3> DEFINE longer == Append(Frozen, InBuffer)
      <3>1. /\ longer \in Seq(Seq(Record)) /\ Len(longer) = curNum + 1
            /\ \A i \in 1..curNum : longer[i] = Frozen[i]
            /\ longer[curNum + 1] = InBuffer
        BY <1>1, <1>2
      <3>2. StoredSegs[curNum + 1] = InBuffer
        BY <1>1, <1>3, <2>1 DEF InBuffer
      <3>3. \A i \in 1..curNum + 1 : StoredSegs[i] = longer[i]
        <4> HIDE DEF longer
        <4> SUFFICES ASSUME NEW i \in 1..curNum + 1 PROVE StoredSegs[i] = longer[i]
          OBVIOUS
        <4>1. i = curNum + 1 \/ i \in 1..curNum
          BY <1>1
        <4> QED BY <1>4, <3>1, <3>2, <4>1
      <3> HIDE DEF longer
      <3>4. StoredSegs = longer
        BY <1>1, <1>3, <2>1, <3>1, <3>3, SeqEqual
      <3> QED BY <2>1, <3>4 DEF longer
    <2>2. CASE curNum \notin Numbers
      <3>1. StoredSegs = Frozen
        BY <1>1, <1>3, <1>4, <2>2, SeqEqual
      <3> QED BY <2>2, <3>1
    <2> QED BY <2>1, <2>2
  <1>6. FlattenSeq(StoredSegs) = FlattenSeq(Frozen) \o InBuffer
    <2>1. CASE curNum \in Numbers
      BY <1>1, <1>2, <1>5, <2>1, FlattenAppend
    <2>2. CASE curNum \notin Numbers
      <3>1. InBuffer = <<>> /\ FlattenSeq(Frozen) \o <<>> = FlattenSeq(Frozen)
        BY <1>1, <2>2 DEF InBuffer
      <3> QED BY <1>5, <2>2, <3>1
    <2> QED BY <2>1, <2>2
  <1>7. Committed = Len(FlattenSeq(Frozen)) + Len(InBuffer)
    BY <1>1, <1>2, <1>6, PrefixConcat DEF Committed
  <1> QED BY <1>1, <1>2, <1>5, <1>6, <1>7

\* If the bucket has an object with all of the buffer, it has all that was logged.
LEMMA AllIsStored ==
  GCSInv =>
    ((\E o \in objects : o.num = curNum /\ o.bytes = logBuf) =>
       InBuffer = logBuf /\ Committed = Len(Served))
  <1> SUFFICES ASSUME GCSInv, NEW o \in objects, o.num = curNum, o.bytes = logBuf
               PROVE  InBuffer = logBuf /\ Committed = Len(Served)
    OBVIOUS
  <1>1. curNum \in Numbers
    BY DEF Numbers
  <1>2. Newest(curNum) \in objects /\ Newest(curNum).num = curNum /\ IsNewest(Newest(curNum))
    BY <1>1, NewestIs DEF GCSInv
  <1>3. IsPrefix(logBuf, Newest(curNum).bytes)
    BY <1>2 DEF GCSInv, Grown, IsNewest
  <1>4. InBuffer = logBuf
    BY <1>1, <1>3, StoredBegins, PrefixOrder DEF InBuffer
  <1>5. Len(Served) = Len(FlattenSeq(Frozen)) + Len(logBuf)
    BY ServedIs, PrefixConcat DEF Served, GCSInv, Typed
  <1> QED BY <1>4, <1>5, StoredBegins

\* If every record fits in an object, the bucket has, whenever a process dies, the
\* beginning of what was served, in segments numbered without a gap (gcslog.go, Log,
\* flushLocked and initLoad).
THEOREM BucketHoldsPrefix ==
  ASSUME RecordsFit
  PROVE  Spec => []BucketIsPrefix
  <1>1. GCSInv => BucketIsPrefix
    <2> SUFFICES ASSUME GCSInv PROVE BucketIsPrefix
      OBVIOUS
    <2>1. NoSegmentMissing
      BY NumbersAre DEF NoSegmentMissing
    <2>2. IsPrefix(FlattenSeq(Frozen) \o InBuffer, Served)
      BY StoredBegins, ServedIs, PrefixConcat DEF GCSInv, Served
    <2> QED BY <2>1, <2>2, StoredBegins DEF BucketIsPrefix
  <1> QED BY <1>1, GCSInvHolds, PTL

-----------------------------------------------------------------------------
\* Where the segments of a log end: as many ends, the last at the log's.
LEMMA EndsIs ==
  ASSUME NEW S, NEW s \in Seq(Seq(S))
  PROVE  /\ Ends(s) \in Seq(Nat) /\ Len(Ends(s)) = Len(s)
         /\ LogServed!EndOf(Ends(s)) = Len(FlattenSeq(s))
  <1>1. Len(s) \in Nat
    OBVIOUS
  <1>2. ASSUME NEW i \in 1..Len(s)
        PROVE  SubSeq(s, 1, i) \in Seq(Seq(S)) /\ Len(FlattenSeq(SubSeq(s, 1, i))) \in Nat
    <2>1. 1 \in 1..Len(s) + 1 /\ i \in 1 - 1 .. Len(s)
      BY <1>1
    <2>2. SubSeq(s, 1, i) \in Seq(Seq(S))
      BY <2>1, SubSeqProperties
    <2> QED BY <2>2, FlattenType
  <1>3. Ends(s) \in [1..Len(s) -> Nat]
    BY <1>2 DEF Ends
  <1>4. Ends(s) \in Seq(Nat) /\ Len(Ends(s)) = Len(s)
    <2> DEFINE e == Ends(s)
    <2> HIDE DEF e
    <2>1. e \in [1..Len(s) -> Nat]
      BY <1>3 DEF e
    <2>2. e \in Seq(Nat) /\ Len(e) = Len(s)
      BY <1>1, <2>1
    <2> QED BY <2>2 DEF e
  <1>5. CASE Len(s) = 0
    <2>1. s = <<>>
      BY <1>5
    <2>2. FlattenSeq(s) = <<>> /\ Ends(s) = <<>>
      BY <1>4, <1>5, <2>1, FlattenEmpty
    <2> QED BY <1>4, <2>2 DEF LogServed!EndOf
  <1>6. CASE Len(s) # 0
    <2>1. Ends(s) # <<>> /\ Len(s) \in 1..Len(s)
      BY <1>1, <1>4, <1>6
    <2>2. Ends(s)[Len(s)] = Len(FlattenSeq(SubSeq(s, 1, Len(s))))
      BY <2>1 DEF Ends
    <2>3. SubSeq(s, 1, Len(s)) = s
      BY SubSeqFull
    <2> QED BY <1>4, <2>1, <2>2, <2>3 DEF LogServed!EndOf
  <1> QED BY <1>4, <1>5, <1>6

\* A segment more ends where the log then does, and leaves the ends before it.
LEMMA EndsAppend ==
  ASSUME NEW S, NEW s \in Seq(Seq(S)), NEW x \in Seq(S)
  PROVE  /\ Ends(Append(s, x)) = Append(Ends(s), Len(FlattenSeq(s)) + Len(x))
         /\ Ends(s) = SubSeq(Ends(Append(s, x)), 1, Len(Ends(Append(s, x))) - 1)
  <1> DEFINE t == Append(s, x)
             n == Len(s)
             e == Ends(s)
             f == Ends(t)
             sum == Len(FlattenSeq(s)) + Len(x)
             g == Append(e, sum)
  <1>1. /\ t \in Seq(Seq(S)) /\ n \in Nat /\ Len(t) = n + 1
        /\ \A i \in 1..n : t[i] = s[i]
    OBVIOUS
  <1>2. e \in Seq(Nat) /\ Len(e) = n
    BY EndsIs
  <1>3. f \in Seq(Nat) /\ Len(f) = n + 1
    <2> HIDE DEF t
    <2> QED BY <1>1, EndsIs
  <1>4. f[n + 1] = sum
    <2>1. FlattenSeq(t) = FlattenSeq(s) \o x /\ FlattenSeq(s) \in Seq(S)
      BY FlattenAppend, FlattenType
    <2>2. Len(FlattenSeq(t)) = sum
      BY <2>1, PrefixConcat
    <2>3. SubSeq(t, 1, n + 1) = t
      <3> HIDE DEF t
      <3> QED BY <1>1, SubSeqFull
    <2>4. n + 1 \in 1..Len(t)
      BY <1>1
    <2> HIDE DEF t, sum
    <2>5. f[n + 1] = Len(FlattenSeq(SubSeq(t, 1, n + 1)))
      BY <2>4 DEF Ends
    <2> QED BY <2>2, <2>3, <2>5
  <1>5. ASSUME NEW i \in 1..n PROVE f[i] = e[i]
    <2>1. SubSeq(t, 1, i) = SubSeq(s, 1, i)
      <3> DEFINE u == SubSeq(t, 1, i)
                 v == SubSeq(s, 1, i)
      <3> HIDE DEF t, u, v
      <3>1. /\ 1 \in 1..Len(t) + 1 /\ i \in 1 - 1 .. Len(t)
            /\ 1 \in 1..Len(s) + 1 /\ i \in 1 - 1 .. Len(s)
        BY <1>1
      <3>2. u \in Seq(Seq(S)) /\ Len(u) = i /\ \A j \in 1..i : u[j] = t[j]
        <4>1. /\ u \in Seq(Seq(S)) /\ Len(u) = i - 1 + 1
              /\ \A j \in 1..(i - 1 + 1) : u[j] = t[1 + j - 1]
          BY <1>1, <3>1, SubSeqProperties DEF u
        <4> QED BY <4>1
      <3>3. v \in Seq(Seq(S)) /\ Len(v) = i /\ \A j \in 1..i : v[j] = s[j]
        <4>1. /\ v \in Seq(Seq(S)) /\ Len(v) = i - 1 + 1
              /\ \A j \in 1..(i - 1 + 1) : v[j] = s[1 + j - 1]
          BY <1>1, <3>1, SubSeqProperties DEF v
        <4> QED BY <4>1
      <3>4. ASSUME NEW j \in 1..i PROVE u[j] = v[j]
        <4>1. j \in 1..n
          BY <1>1
        <4>2. t[j] = s[j]
          BY <1>1, <4>1
        <4> QED BY <3>2, <3>3, <4>2
      <3>5. u = v
        BY <3>2, <3>3, <3>4, SeqEqual
      <3> QED BY <3>5 DEF u, v
    <2>2. i \in 1..Len(t) /\ i \in 1..Len(s)
      BY <1>1
    <2> HIDE DEF t
    <2>3. f[i] = Len(FlattenSeq(SubSeq(t, 1, i))) /\ e[i] = Len(FlattenSeq(SubSeq(s, 1, i)))
      BY <2>2 DEF Ends
    <2> QED BY <2>1, <2>3
  <1>6. sum \in Nat
    BY FlattenType
  <1> HIDE DEF t, n, e, f, sum
  <1>7. /\ g \in Seq(Nat) /\ Len(g) = n + 1 /\ g[n + 1] = sum
        /\ \A i \in 1..n : g[i] = e[i]
    <2>1. n \in Nat /\ e \in Seq(Nat) /\ Len(e) = n
      BY <1>1, <1>2
    <2> QED BY <1>6, <2>1, AppendProperties
  <1>8. f = g
    <2> HIDE DEF g
    <2>1. \A i \in 1..n + 1 : f[i] = g[i]
      <3> SUFFICES ASSUME NEW i \in 1..n + 1 PROVE f[i] = g[i]
        OBVIOUS
      <3>1. i = n + 1 \/ i \in 1..n
        BY <1>1
      <3> QED BY <1>4, <1>5, <1>7, <3>1
    <2> QED BY <1>3, <1>7, <2>1, SeqEqual
  <1>9. e = SubSeq(f, 1, Len(f) - 1)
    <2> DEFINE h == SubSeq(f, 1, n)
    <2>1. 1 \in 1..Len(f) + 1 /\ n \in 1 - 1 .. Len(f) /\ Len(f) - 1 = n
      BY <1>1, <1>3
    <2>2. h \in Seq(Nat) /\ Len(h) = n /\ \A i \in 1..n : h[i] = f[i]
      <3>1. /\ h \in Seq(Nat) /\ Len(h) = n - 1 + 1
            /\ \A i \in 1..(n - 1 + 1) : h[i] = f[1 + i - 1]
        BY <1>3, <2>1, SubSeqProperties
      <3> HIDE DEF h
      <3> QED BY <1>1, <3>1
    <2> HIDE DEF h
    <2>3. e = h
      BY <1>2, <1>5, <2>2, SeqEqual
    <2> QED BY <2>1, <2>3 DEF h
  <1> QED BY <1>8, <1>9 DEF e, f, g, t, sum

\* What the bucket has of the buffer, and what is stored, after a step too.
LEMMA StoredNext ==
  GCSInv' =>
    /\ InBuffer' \in Seq(Record) /\ logBuf' \in Seq(Record)
    /\ FlattenSeq(StoredSegs') = FlattenSeq(Frozen') \o InBuffer'
    /\ Committed' = Len(FlattenSeq(Frozen')) + Len(InBuffer')
    /\ (\E o \in objects' : o.num = curNum' /\ o.bytes = logBuf') =>
         InBuffer' = logBuf' /\ Committed' = Len(Served')
  <1>1. (GCSInv =>
           /\ InBuffer \in Seq(Record) /\ logBuf \in Seq(Record)
           /\ FlattenSeq(StoredSegs) = FlattenSeq(Frozen) \o InBuffer
           /\ Committed = Len(FlattenSeq(Frozen)) + Len(InBuffer)
           /\ (\E o \in objects : o.num = curNum /\ o.bytes = logBuf) =>
                InBuffer = logBuf /\ Committed = Len(Served))'
    <2>1. GCSInv =>
           /\ InBuffer \in Seq(Record) /\ logBuf \in Seq(Record)
           /\ FlattenSeq(StoredSegs) = FlattenSeq(Frozen) \o InBuffer
           /\ Committed = Len(FlattenSeq(Frozen)) + Len(InBuffer)
           /\ (\E o \in objects : o.num = curNum /\ o.bytes = logBuf) =>
                InBuffer = logBuf /\ Committed = Len(Served)
      BY StoredBegins, AllIsStored
    <2> QED BY <2>1, PTL
  <1> QED BY <1>1

\* And what is served.
LEMMA ServedNext ==
  GCSInv' =>
    /\ Frozen' \in Seq(Seq(Record)) /\ Len(Frozen') = curNum' /\ curNum' \in Nat
    /\ \A i \in 1..curNum' : Frozen'[i] = SegOf(i - 1)'
    /\ FlattenSeq(Frozen') \in Seq(Record) /\ Served' \in Seq(Record)
    /\ Served' = FlattenSeq(Frozen') \o logBuf'
  <1>1. (GCSInv =>
           /\ Frozen \in Seq(Seq(Record)) /\ Len(Frozen) = curNum /\ curNum \in Nat
           /\ \A i \in 1..curNum : Frozen[i] = SegOf(i - 1)
           /\ FlattenSeq(Frozen) \in Seq(Record) /\ Served \in Seq(Record)
           /\ Served = FlattenSeq(Frozen) \o logBuf)'
    <2>1. GCSInv =>
           /\ Frozen \in Seq(Seq(Record)) /\ Len(Frozen) = curNum /\ curNum \in Nat
           /\ \A i \in 1..curNum : Frozen[i] = SegOf(i - 1)
           /\ FlattenSeq(Frozen) \in Seq(Record) /\ Served \in Seq(Record)
           /\ Served = FlattenSeq(Frozen) \o logBuf
      BY ServedIs DEF GCSInv, Served
    <2> QED BY <2>1, PTL
  <1> QED BY <1>1

\* The lives of the log a GCSLog serves, the present one last.
Lives == Append(past, Served)

\* What a step may be in SegmentLog, or nothing.
SegmentStep == LogServed!LeaderNext \/ UNCHANGED <<Lives, Ends(Frozen), Committed, kept>>

\* The log begins empty.
LEMMA SegmentInit == Init => LogServed!LogInit
  <1> SUFFICES ASSUME Init PROVE LogServed!LogInit
    OBVIOUS
  <1>1. curNum = 0 /\ objects = {} /\ logBuf = <<>> /\ past = <<>> /\ kept = <<0>>
    BY DEF Init
  <1>2. Frozen = <<>> /\ FlattenSeq(Frozen) = <<>>
    BY <1>1, FlattenEmpty DEF Frozen
  <1>3. Append(past, Served) = << <<>> >>
    BY <1>1, <1>2 DEF Served
  <1>4. Ends(Frozen) = <<>>
    BY <1>2 DEF Ends
  <1>5. Committed = 0
    <2>1. GCSInv /\ curNum \notin Numbers
      BY <1>1, GCSInit DEF Numbers
    <2>2. InBuffer = <<>>
      BY <2>1 DEF InBuffer
    <2> QED BY <1>2, <2>1, <2>2, StoredBegins
  <1> QED BY <1>1, <1>3, <1>4, <1>5 DEF LogServed!LogInit

\* Steps that serve nothing else and store nothing else of it.
LEMMA SegmentStutter ==
  ASSUME UNCHANGED <<past, kept, seg, curNum, logBuf>>, Committed' = Committed
  PROVE  SegmentStep
  <1>1. Frozen' = Frozen
    BY DEF Frozen, SegOf
  <1>2. Served' = Served /\ Ends(Frozen)' = Ends(Frozen)
    BY <1>1 DEF Served, Ends
  <1> QED BY <1>2 DEF SegmentStep, Lives

\* One more record in the buffer, or behind it: the present life's log grows by it.
LEMMA LivesLog ==
  ASSUME GCSInv, NEW r \in Record, Served' = Append(Served, r), past' = past
  PROVE  /\ Lives' = [Lives EXCEPT ![Len(Lives)] = Append(@, r)]
         /\ Lives[Len(Lives)] = Served /\ Lives \in Seq(Seq(Record))
  <1>1. past \in Seq(Seq(Record)) /\ Served \in Seq(Record) /\ Append(Served, r) \in Seq(Record)
    BY ServedIs DEF GCSInv, Typed
  <1> DEFINE n == Len(past) + 1
  <1>2. n \in Nat
    BY <1>1
  <1>3. /\ Lives \in Seq(Seq(Record)) /\ Len(Lives) = n /\ Lives[n] = Served
        /\ \A i \in 1..Len(past) : Lives[i] = past[i]
    BY <1>1 DEF Lives
  <1>4. /\ Lives' \in Seq(Seq(Record)) /\ Len(Lives') = n /\ Lives'[n] = Append(Served, r)
        /\ \A i \in 1..Len(past) : Lives'[i] = past[i]
    BY <1>1 DEF Lives
  <1> DEFINE l == [Lives EXCEPT ![n] = Append(@, r)]
  <1>5. n \in 1..Len(Lives)
    BY <1>2, <1>3
  <1> HIDE DEF Lives, n
  <1>6. /\ l \in Seq(Seq(Record)) /\ Len(l) = n /\ l[n] = Append(Served, r)
        /\ \A i \in 1..n : i # n => l[i] = Lives[i]
    BY <1>1, <1>2, <1>3, <1>5
  <1>7. \A i \in 1..n : l[i] = Lives'[i]
    <2> HIDE DEF l
    <2> SUFFICES ASSUME NEW i \in 1..n PROVE l[i] = Lives'[i]
      OBVIOUS
    <2>1. CASE i = n
      BY <1>4, <1>6, <2>1
    <2>2. CASE i # n
      <3>1. i \in 1..Len(past)
        BY <1>1, <2>2 DEF n
      <3> QED BY <1>3, <1>4, <1>6, <2>2, <3>1
    <2> QED BY <2>1, <2>2
  <1>8. l = Lives'
    <2> HIDE DEF l
    <2> QED BY <1>4, <1>6, <1>7, SeqEqual
  <1> QED BY <1>3, <1>8

\* A record that fits is logged, in the growing segment.
LEMMA SegmentLogs ==
  ASSUME GCSInv, NEW r \in Record, Log(r)
  PROVE  SegmentStep
  <1>1. /\ Len(Served) < MaxLog /\ logBuf' = Append(logBuf, r)
        /\ UNCHANGED <<objects, seg, curNum, past, kept>>
    BY DEF Log
  <1>2. Frozen' = Frozen /\ Ends(Frozen)' = Ends(Frozen)
    BY <1>1 DEF Frozen, SegOf, Ends
  <1>3. Committed' = Committed
    BY <1>1 DEF Committed, StoredSegs, Loaded, Numbers, Newest
  <1>4. Served' = Append(Served, r)
    <2>1. /\ FlattenSeq(Frozen) \in Seq(Record) /\ logBuf \in Seq(Record) /\ <<r>> \in Seq(Record)
          /\ Served \in Seq(Record) /\ Served = FlattenSeq(Frozen) \o logBuf
      BY ServedIs DEF GCSInv, Typed, Served
    <2>2. Append(logBuf, r) = logBuf \o <<r>> /\ Append(Served, r) = Served \o <<r>>
      BY <2>1, AppendIsConcat
    <2>3. Served' = FlattenSeq(Frozen) \o (logBuf \o <<r>>)
      BY <1>1, <1>2, <2>2 DEF Served
    <2> QED BY <2>1, <2>2, <2>3, ConcatAssociative
  <1>5. LogServed!Log(r, FALSE, FALSE)
    BY <1>1, <1>2, <1>3, <1>4, LivesLog DEF LogServed!Log, LogServed!Served, Lives
  <1>6. LogServed!LeaderNext
    BY <1>5 DEF LogServed!LeaderNext
  <1> QED BY <1>6 DEF SegmentStep

\* An upload stores all that was logged.
LEMMA SegmentFlushes ==
  ASSUME GCSInv, GCSInv', Upload
  PROVE  SegmentStep
  <1>1. /\ objects' = objects \union {Uploading} /\ UNCHANGED <<seg, curNum, logBuf, past, kept>>
    BY DEF Upload, mem
  <1>2. Frozen' = Frozen /\ Served' = Served /\ Ends(Frozen)' = Ends(Frozen)
    BY <1>1 DEF Frozen, SegOf, Served, Ends
  <1>3. \E o \in objects' : o.num = curNum' /\ o.bytes = logBuf'
    <2>1. Uploading \in objects'
      BY <1>1
    <2>2. Uploading.num = curNum /\ Uploading.bytes = logBuf
      BY DEF Uploading
    <2> HIDE DEF Uploading
    <2> QED BY <1>1, <2>1, <2>2
  <1>4. Committed' = Len(Served)
    BY <1>2, <1>3, StoredNext
  <1>5. Lives' = Lives /\ Lives[Len(Lives)] = Served
    <2>1. past \in Seq(Seq(Record)) /\ Served \in Seq(Record)
      BY ServedIs DEF GCSInv, Typed
    <2> QED BY <1>1, <1>2, <2>1 DEF Lives
  <1>6. Committed <= Len(Served) /\ Committed \in Nat /\ Len(Served) \in Nat
    <2>1. /\ InBuffer \in Seq(Record) /\ logBuf \in Seq(Record) /\ IsPrefix(InBuffer, logBuf)
          /\ Committed = Len(FlattenSeq(Frozen)) + Len(InBuffer)
      BY StoredBegins
    <2>2. FlattenSeq(Frozen) \in Seq(Record) /\ Len(FlattenSeq(Frozen)) \in Nat
          /\ Len(Served) = Len(FlattenSeq(Frozen)) + Len(logBuf)
      BY <2>1, ServedIs, PrefixConcat DEF Served, GCSInv
    <2>3. Len(InBuffer) <= Len(logBuf) /\ Len(InBuffer) \in Nat /\ Len(logBuf) \in Nat
      BY <2>1, PrefixIs
    <2> QED BY <2>1, <2>2, <2>3
  <1>7. CASE Committed = Len(Served)
    BY <1>1, <1>2, <1>4, <1>5, <1>7 DEF SegmentStep
  <1>8. CASE Committed # Len(Served)
    <2>1. LogServed!Flush
      BY <1>1, <1>2, <1>4, <1>5, <1>6, <1>8 DEF LogServed!Flush, LogServed!Served, Lives
    <2> QED BY <2>1 DEF SegmentStep, LogServed!LeaderNext
  <1> QED BY <1>7, <1>8

\* Once an upload was seen, a record that waited for it is logged in the next segment.
LEMMA SegmentRolls ==
  ASSUME GCSInv, GCSInv', AfterUpload
  PROVE  SegmentStep
  <1>1. /\ proc = "flushing" /\ logBuf # <<>> /\ objects' \subseteq objects
        /\ \E o \in objects' : o.num = curNum /\ o.bytes = logBuf
        /\ seg' = Put(seg, curNum, logBuf)
    BY OlderIsDeleted
  <1>2. past' = past /\ kept' = kept
    BY DEF AfterUpload
  <1>3. Committed = Len(Served)
    BY <1>1, AllIsStored
  <1>4. /\ Frozen \in Seq(Seq(Record)) /\ Len(Frozen) = curNum /\ curNum \in Nat
        /\ \A i \in 1..curNum : Frozen[i] = SegOf(i - 1)
        /\ FlattenSeq(Frozen) \in Seq(Record) /\ Served \in Seq(Record)
        /\ Served = FlattenSeq(Frozen) \o logBuf /\ logBuf \in Seq(Record)
    BY ServedIs DEF GCSInv, Typed, Served
  <1>5. /\ Frozen' \in Seq(Seq(Record)) /\ Len(Frozen') = curNum'
        /\ \A i \in 1..curNum' : Frozen'[i] = SegOf(i - 1)'
        /\ FlattenSeq(Frozen') \in Seq(Record)
        /\ Served' = FlattenSeq(Frozen') \o logBuf'
    BY ServedNext
  <1>6. ASSUME NEW i \in 1..curNum PROVE SegOf(i - 1)' = SegOf(i - 1)
    <2>1. i - 1 \in DOMAIN seg /\ i - 1 # curNum
      <3>1. i - 1 \in 0 .. curNum - 1
        BY <1>4
      <3> QED BY <1>4, <3>1 DEF GCSInv, Kept
    <2> QED BY <1>1, <2>1 DEF SegOf, Put
  <1>7. CASE pending = <<>>
    <2>1. curNum' = curNum /\ logBuf' = logBuf
      BY <1>7 DEF AfterUpload
    <2>2. \A i \in 1..curNum : Frozen'[i] = Frozen[i]
      BY <1>4, <1>5, <1>6, <2>1
    <2>3. Frozen' = Frozen
      BY <1>4, <1>5, <2>1, <2>2, SeqEqual
    <2>4. Served' = Served /\ Ends(Frozen)' = Ends(Frozen)
      BY <2>1, <2>3 DEF Served, Ends
    <2>5. Committed' = Len(Served)
      BY <1>1, <2>1, <2>4, StoredNext
    <2> QED BY <1>2, <1>3, <2>4, <2>5 DEF SegmentStep, Lives
  <1>8. CASE pending # <<>>
    <2>1. PICK r \in Record : pending = <<r>>
      BY <1>8 DEF GCSInv, Phased
    <2>2. curNum' = curNum + 1 /\ logBuf' = <<r>> /\ <<r>> \in Seq(Record)
      BY <1>8, <2>1 DEF AfterUpload
    <2>3. Len(Served) < MaxLog /\ curNum + 1 < MaxSegs
      BY <1>8 DEF GCSInv, Phased
    <2> DEFINE longer == Append(Frozen, logBuf)
    <2>4. /\ longer \in Seq(Seq(Record)) /\ Len(longer) = curNum + 1
          /\ \A i \in 1..curNum : longer[i] = Frozen[i]
          /\ longer[curNum + 1] = logBuf
      BY <1>4
    <2>5. ASSUME NEW i \in Nat, i = curNum + 1 PROVE Frozen'[i] = logBuf
      <3>1. i \in 1..curNum' /\ i - 1 = curNum
        BY <1>4, <2>2, <2>5
      <3>2. SegOf(i - 1)' = logBuf
        BY <1>1, <3>1 DEF SegOf, Put
      <3> QED BY <1>5, <3>1, <3>2
    <2>6. Frozen' = longer
      <3> HIDE DEF longer
      <3>1. \A i \in 1..curNum + 1 : Frozen'[i] = longer[i]
        <4> SUFFICES ASSUME NEW i \in 1..curNum + 1 PROVE Frozen'[i] = longer[i]
          OBVIOUS
        <4>1. CASE i = curNum + 1
          BY <1>4, <2>4, <2>5, <4>1
        <4>2. CASE i \in 1..curNum
          <5>1. i \in 1..curNum'
            BY <1>4, <2>2, <4>2
          <5> QED BY <1>4, <1>5, <1>6, <2>4, <4>2, <5>1
        <4> QED BY <1>4, <4>1, <4>2
      <3> QED BY <1>5, <2>2, <2>4, <3>1, SeqEqual
    <2>7. FlattenSeq(Frozen') = Served
      BY <1>4, <2>6, FlattenAppend
    <2>8. Served' = Append(Served, r)
      BY <1>4, <1>5, <2>2, <2>7, AppendIsConcat
    <2>9. Committed' = Len(Served)
      <3>1. curNum' \notin Numbers'
        BY <1>1, <1>4, <2>2 DEF GCSInv, Buffered, Numbers, Typed, Object
      <3>2. InBuffer' = <<>>
        BY <3>1 DEF InBuffer
      <3>3. Len(Served) \in Nat
        BY <1>4
      <3> QED BY <2>7, <3>2, <3>3, StoredNext
    <2>10. Ends(Frozen)' = Append(Ends(Frozen), Len(Served))
      <3>1. Len(Served) = Len(FlattenSeq(Frozen)) + Len(logBuf)
        BY <1>4, PrefixConcat
      <3>2. Ends(Frozen)' = Ends(longer)
        BY <2>6 DEF Ends
      <3> QED BY <1>4, <3>1, <3>2, EndsAppend
    <2>11. Len(Served) > LogServed!EndOf(Ends(Frozen)) /\ Len(Ends(Frozen)) + 1 < MaxSegs
      <3>1. Len(Served) = Len(FlattenSeq(Frozen)) + Len(logBuf) /\ Len(logBuf) > 0
            /\ Len(FlattenSeq(Frozen)) \in Nat /\ Len(logBuf) \in Nat
        BY <1>1, <1>4, PrefixConcat
      <3>2. LogServed!EndOf(Ends(Frozen)) = Len(FlattenSeq(Frozen)) /\ Len(Ends(Frozen)) = curNum
        BY <1>4, EndsIs
      <3> QED BY <2>3, <3>1, <3>2
    <2>12. LogServed!Log(r, TRUE, FALSE)
      BY <1>2, <1>3, <2>3, <2>8, <2>9, <2>10, <2>11, LivesLog
         DEF LogServed!Log, LogServed!Served, Lives
    <2>13. LogServed!LeaderNext
      BY <2>12 DEF LogServed!LeaderNext
    <2> QED BY <2>13 DEF SegmentStep
  <1> QED BY <1>7, <1>8

\* A sequence with one element more.
LEMMA OneMore ==
  ASSUME NEW S, NEW s \in Seq(S), NEW x \in S, NEW t \in Seq(S),
         Len(t) = Len(s) + 1, \A i \in 1..Len(s) : s[i] = t[i], t[Len(t)] = x
  PROVE  t = Append(s, x)
  <1> DEFINE u == Append(s, x)
  <1>1. /\ u \in Seq(S) /\ Len(u) = Len(s) + 1 /\ \A i \in 1..Len(s) : u[i] = s[i]
        /\ u[Len(s) + 1] = x /\ Len(s) \in Nat
    OBVIOUS
  <1> HIDE DEF u
  <1>2. ASSUME NEW i \in 1..Len(t) PROVE u[i] = t[i]
    <2>1. i = Len(s) + 1 \/ i \in 1..Len(s)
      BY <1>1
    <2> QED BY <1>1, <2>1
  <1>3. u = t
    BY <1>1, <1>2, SeqEqual
  <1> QED BY <1>3 DEF u

\* The next process serves what the bucket has: in the segments stored, or with the
\* last of them in the buffer.
LEMMA LoadServes ==
  ASSUME GCSInv, GCSInv', InitLoad
  PROVE  /\ \/ Frozen' = StoredSegs /\ Len(StoredSegs) < MaxSegs
            \/ logBuf' \in Seq(Record) /\ StoredSegs = Append(Frozen', logBuf')
         /\ Frozen' \in Seq(Seq(Record))
         /\ Served' = FlattenSeq(StoredSegs) /\ Committed' = Committed
         /\ FlattenSeq(StoredSegs) = SubSeq(Served, 1, Committed)
  <1> DEFINE k == Cardinality(Numbers)
             flat == FlattenSeq(StoredSegs)
  <1>1. /\ Frozen \in Seq(Seq(Record)) /\ Len(Frozen) = curNum /\ curNum \in Nat
        /\ Served \in Seq(Record) /\ FlattenSeq(Frozen) \in Seq(Record)
        /\ Served = FlattenSeq(Frozen) \o logBuf
    BY ServedIs DEF GCSInv, Served
  <1>2. /\ InBuffer \in Seq(Record) /\ logBuf \in Seq(Record) /\ IsPrefix(InBuffer, logBuf)
        /\ flat = FlattenSeq(Frozen) \o InBuffer
    BY StoredBegins
  <1>3. /\ StoredSegs \in Seq(Seq(Record)) /\ Len(StoredSegs) = k
        /\ \A i \in 1..k : StoredSegs[i] = Newest(i - 1).bytes
        /\ flat \in Seq(Record) /\ Committed = Len(flat) /\ Committed \in Nat
    BY StoredIs DEF Committed
  <1>4. /\ Numbers = 0 .. k - 1 /\ k \in Nat
    BY <1>1, NumbersAre
  <1>5. seg' = [n \in Numbers |-> Newest(n).bytes]
    BY DEF InitLoad, Loaded
  <1>6. /\ Frozen' \in Seq(Seq(Record)) /\ Len(Frozen') = curNum' /\ curNum' \in Nat
        /\ \A i \in 1..curNum' : Frozen'[i] = SegOf(i - 1)'
        /\ FlattenSeq(Frozen') \in Seq(Record)
        /\ Served' = FlattenSeq(Frozen') \o logBuf'
    BY ServedNext
  <1> DEFINE Left == curNum' = k /\ logBuf' = <<>> /\ k < MaxSegs
             TakenUp == k # 0 /\ curNum' = k - 1 /\ logBuf' = Newest(k - 1).bytes
  <1>7. Left \/ TakenUp
    <2>1. CASE Numbers = {}
      <3>1. k = 0 /\ MaxSegs \in Nat \ {0}
        BY <2>1, FS_EmptySet, GCSLogAssumption
      <3> QED BY <2>1, <3>1, LoadTakes
    <2>2. CASE Numbers # {}
      <3>1. MaxNum \in Numbers /\ MaxNum = k - 1
            /\ \/ curNum' = MaxNum + 1 /\ logBuf' = <<>> /\ MaxNum + 1 < MaxSegs
               \/ curNum' = MaxNum /\ logBuf' = Newest(MaxNum).bytes
        BY <2>2, LoadTakes
      <3>2. k # 0
        BY <1>4, <2>2
      <3> HIDE DEF k
      <3>3. k - 1 + 1 = k
        BY <1>4
      <3> QED BY <3>1, <3>2, <3>3 DEF k
    <2> QED BY <2>1, <2>2
  <1>8. ASSUME NEW i \in 1..curNum' PROVE i \in 1..k /\ Frozen'[i] = StoredSegs[i]
    <2>1. i \in 1..k
      <3> HIDE DEF k
      <3> QED BY <1>4, <1>6, <1>7
    <2>2. i - 1 \in Numbers
      <3> HIDE DEF k
      <3> QED BY <1>4, <2>1
    <2>3. SegOf(i - 1)' = Newest(i - 1).bytes
      BY <1>5, <2>2 DEF SegOf
    <2> QED BY <1>3, <1>6, <2>1, <2>3
  <1>9. flat = SubSeq(Served, 1, Committed)
    <2>1. IsPrefix(flat, Served)
      BY <1>1, <1>2, PrefixConcat
    <2>2. SubSeq(flat, 1, Len(flat)) = flat
      BY <1>3, SubSeqFull
    <2> HIDE DEF flat
    <2> QED BY <1>3, <2>1, <2>2 DEF IsPrefix
  <1>10. CASE Left
    <2> HIDE DEF k
    <2>1. Len(Frozen') = Len(StoredSegs) /\ \A i \in 1..Len(StoredSegs) : Frozen'[i] = StoredSegs[i]
      BY <1>3, <1>6, <1>8, <1>10
    <2>2. Frozen' = StoredSegs
      BY <1>3, <1>6, <2>1, SeqEqual
    <2>3. flat \o <<>> = flat
      <3> HIDE DEF flat
      <3> QED BY <1>3
    <2>4. Served' = flat
      BY <1>6, <1>10, <2>2, <2>3
    <2>5. Committed' = Committed
      <3>1. curNum' \notin Numbers'
        BY <1>4, <1>10, LoadLeaves
      <3>2. InBuffer' = <<>>
        BY <3>1 DEF InBuffer
      <3>3. Committed' = Len(flat) + Len(<<>>)
        BY <2>2, <3>2, StoredNext
      <3> HIDE DEF flat
      <3> QED BY <1>3, <3>3
    <2> QED BY <1>3, <1>6, <1>9, <1>10, <2>2, <2>4, <2>5
  <1>11. CASE TakenUp
    <2>1. k \in 1..k /\ logBuf' = StoredSegs[k] /\ StoredSegs[k] \in Seq(Record) /\ k = curNum' + 1
      <3>1. k \in 1..k
        <4> HIDE DEF k
        <4> QED BY <1>4, <1>11
      <3> HIDE DEF k
      <3> QED BY <1>3, <1>4, <1>11, <3>1
    <2>2. StoredSegs = Append(Frozen', logBuf')
      <3> HIDE DEF k
      <3>1. /\ Len(StoredSegs) = Len(Frozen') + 1 /\ StoredSegs[Len(StoredSegs)] = logBuf'
            /\ logBuf' \in Seq(Record)
        BY <1>3, <1>6, <2>1
      <3>2. \A i \in 1..Len(Frozen') : Frozen'[i] = StoredSegs[i]
        BY <1>6, <1>8
      <3> QED BY <1>3, <1>6, <3>1, <3>2, OneMore
    <2>3. Served' = flat
      BY <1>6, <2>1, <2>2, FlattenAppend
    <2>4. Committed' = Committed
      <3>1. k - 1 \in Numbers
        <4> HIDE DEF k
        <4> QED BY <1>4, <1>11
      <3>2. Newest(k - 1) \in objects' /\ Newest(k - 1).num = k - 1
        BY <3>1, LoadLeaves, NewestIs DEF GCSInv
      <3>3. \E o \in objects' : o.num = curNum' /\ o.bytes = logBuf'
        BY <1>11, <3>2
      <3> QED BY <1>3, <2>3, <3>3, StoredNext
    <2> QED BY <1>6, <1>9, <2>1, <2>2, <2>3, <2>4
  <1> QED BY <1>7, <1>10, <1>11

\* That is a restart of the log: the segments end where they did, or the last one
\* stored is taken up again, or the growing one, if some of it is stored, is left.
LEMMA SegmentLoads ==
  ASSUME GCSInv, GCSInv', InitLoad
  PROVE  SegmentStep
  <1>1. /\ Frozen \in Seq(Seq(Record)) /\ FlattenSeq(Frozen) \in Seq(Record)
        /\ Len(FlattenSeq(Frozen)) \in Nat /\ Len(Frozen) = curNum
        /\ Served \in Seq(Record) /\ past \in Seq(Seq(Record)) /\ Len(past) \in Nat
    BY ServedIs, FlattenType DEF GCSInv, Typed
  <1>2. /\ InBuffer \in Seq(Record)
        /\ curNum \in Numbers => InBuffer # <<>>
        /\ StoredSegs = IF curNum \in Numbers THEN Append(Frozen, InBuffer) ELSE Frozen
        /\ Committed = Len(FlattenSeq(Frozen)) + Len(InBuffer)
    BY StoredBegins
  <1>3. \/ Frozen' = StoredSegs /\ Len(StoredSegs) < MaxSegs
        \/ logBuf' \in Seq(Record) /\ StoredSegs = Append(Frozen', logBuf')
    BY LoadServes
  <1>4. /\ Frozen' \in Seq(Seq(Record)) /\ Committed' = Committed
        /\ Served' = SubSeq(Served, 1, Committed)
    BY LoadServes
  <1>5. past' = Append(past, Served) /\ kept' = Append(kept, Committed) /\ Len(past) < MaxRestarts
    BY DEF InitLoad, Committed, StoredSegs, GCSInv, Phased
  <1> DEFINE bounds == Ends(Frozen)
             Cut(cut) ==
               \/ cut = "same" /\ Ends(Frozen') = bounds
               \/ /\ cut = "reopen" /\ bounds # <<>> /\ Committed = LogServed!EndOf(bounds)
                  /\ Ends(Frozen') = SubSeq(bounds, 1, Len(bounds) - 1)
               \/ /\ cut = "freeze" /\ Committed > LogServed!EndOf(bounds)
                  /\ Len(bounds) + 1 < MaxSegs /\ Ends(Frozen') = Append(bounds, Committed)
  <1>6. \E cut \in {"same", "reopen", "freeze"} : Cut(cut)
    <2>1. CASE curNum \in Numbers /\ Frozen' = StoredSegs
      <3>1. Frozen' = Append(Frozen, InBuffer) /\ Len(Frozen') = Len(Frozen) + 1
            /\ Len(Frozen') < MaxSegs
        BY <1>1, <1>2, <1>3, <2>1
      <3>2. Ends(Frozen') = Append(bounds, Committed)
        BY <1>1, <1>2, <3>1, EndsAppend
      <3>3. LogServed!EndOf(bounds) = Len(FlattenSeq(Frozen)) /\ Len(bounds) = Len(Frozen)
        BY <1>1, EndsIs
      <3>4. Len(InBuffer) \in Nat \ {0}
        BY <1>2, <2>1
      <3>5. Committed > LogServed!EndOf(bounds) /\ Len(bounds) + 1 < MaxSegs
        BY <1>1, <1>2, <3>1, <3>3, <3>4
      <3> QED BY <3>2, <3>5
    <2>2. CASE curNum \notin Numbers /\ Frozen' = StoredSegs
      BY <1>2, <2>2
    <2>3. CASE curNum \in Numbers /\ StoredSegs = Append(Frozen', logBuf') /\ logBuf' \in Seq(Record)
      <3>1. Append(Frozen, InBuffer) = Append(Frozen', logBuf')
        BY <1>2, <2>3
      <3>2. Frozen' = Frozen
        BY <1>1, <1>2, <1>4, <2>3, <3>1, AppendInjective
      <3> QED BY <3>2
    <2>4. CASE curNum \notin Numbers /\ StoredSegs = Append(Frozen', logBuf') /\ logBuf' \in Seq(Record)
      <3>1. Frozen = Append(Frozen', logBuf')
        BY <1>2, <2>4
      <3>2. Ends(Frozen') = SubSeq(bounds, 1, Len(bounds) - 1)
        BY <1>4, <2>4, <3>1, EndsAppend
      <3>3. LogServed!EndOf(bounds) = Len(FlattenSeq(Frozen)) /\ Len(bounds) = Len(Frozen)
        BY <1>1, EndsIs
      <3>4. Len(Frozen) = Len(Frozen') + 1 /\ Len(Frozen') \in Nat
        BY <1>4, <2>4, <3>1
      <3>5. bounds # <<>>
        <4> HIDE DEF bounds
        <4> QED BY <3>3, <3>4
      <3>6. InBuffer = <<>>
        BY <2>4 DEF InBuffer
      <3>7. Committed = LogServed!EndOf(bounds)
        BY <1>1, <1>2, <3>3, <3>6
      <3> QED BY <3>2, <3>5, <3>7
    <2> QED BY <1>3, <2>1, <2>2, <2>3, <2>4
  <1>7. /\ Len(Lives) = Len(past) + 1 /\ Lives[Len(Lives)] = Served
        /\ Lives' = Append(Lives, SubSeq(Served, 1, Committed))
    BY <1>1, <1>4, <1>5 DEF Lives
  <1>8. Len(Lives) <= MaxRestarts
    BY <1>1, <1>5, <1>7, GCSLogAssumption
  <1>9. PICK cut \in {"same", "reopen", "freeze"} : Cut(cut)
    BY <1>6
  <1>10. LogServed!Restart(cut)
    BY <1>4, <1>5, <1>7, <1>8, <1>9 DEF LogServed!Restart, LogServed!Served, Lives, Ends
  <1> QED BY <1>10 DEF SegmentStep, LogServed!LeaderNext

\* Every step is one of the log, or leaves it as it is.
LEMMA SegmentNext ==
  ASSUME GCSInv, GCSInv', [Next]_vars
  PROVE  SegmentStep
  <1>1. ASSUME UNCHANGED <<objects, past, kept, seg, curNum, logBuf>> PROVE SegmentStep
    <2>1. Committed' = Committed
      BY <1>1 DEF Committed, StoredSegs, Loaded, Numbers, Newest
    <2> QED BY <1>1, <2>1, SegmentStutter
  <1>2. CASE UNCHANGED vars
    BY <1>1, <1>2 DEF vars, mem
  <1>3. ASSUME NEW r \in Record, Log(r) PROVE SegmentStep
    BY <1>3, SegmentLogs
  <1>4. ASSUME NEW r \in Record, LogFull(r) PROVE SegmentStep
    BY <1>1, <1>4 DEF LogFull, mem
  <1>5. CASE FlushTimer \/ FlushFails \/ Die
    BY <1>1, <1>5 DEF FlushTimer, FlushFails, Die
  <1>6. CASE Upload
    BY <1>6, SegmentFlushes
  <1>7. CASE AfterUpload
    BY <1>7, SegmentRolls
  <1>8. CASE InitLoad
    BY <1>8, SegmentLoads
  <1> QED BY <1>2, <1>3, <1>4, <1>5, <1>6, <1>7, <1>8 DEF Next

\* If every record fits in an object, a GCSLog, deaths and restarts included, serves a
\* log that followers can rely on: it only grows, a segment once frozen stays, and a
\* restart loses only what no upload had stored (gcslog.go, all of it).
THEOREM ImplementsSegments ==
  ASSUME RecordsFit
  PROVE  Spec => ImplementsSegmentLog
  <1>1. Init => LogServed!LogInit
    BY SegmentInit
  <1>2. GCSInv /\ GCSInv' /\ [Next]_vars => [LogServed!LeaderNext]_(LogServed!logVars)
    <2>1. GCSInv /\ GCSInv' /\ [Next]_vars => SegmentStep
      BY SegmentNext
    <2> QED BY <2>1 DEF SegmentStep, LogServed!logVars, Lives
  <1> QED BY <1>1, <1>2, GCSInvHolds, PTL DEF Spec, ImplementsSegmentLog, LogServed!LeaderSpec

-----------------------------------------------------------------------------
\* No record is counted where it was not written.
NoLogSlip == "straddled" \notin slips /\ "unwritten" \notin slips
NoSlip == NoLogSlip /\ "short" \notin slips /\ "halfway" \notin slips

\* The directory and the index.
DiskTyped ==
  /\ files \in Seq(Seq(Mutation)) /\ segs \in Seq(Seq(Mutation)) /\ cur \in Seq(Mutation)
  /\ segFile \in Seq(Nat) /\ Len(segFile) = Len(segs) /\ curFile \in Nat
  /\ listed \in Nat /\ planned \in Nat /\ newDay \in BOOLEAN /\ open \in BOOLEAN

\* Each segment is the beginning of a file.
Shown ==
  NoLogSlip =>
    /\ \A i \in 1..Len(segs) :
         segFile[i] \in 1..Len(files) /\ IsPrefix(segs[i], files[segFile[i]])
    /\ open => curFile \in 1..Len(files) /\ IsPrefix(cur, files[curFile])

\* Without a growing segment there are fewer segments than files.
Unopened ==
  ~open =>
    /\ cur = <<>> /\ (segs = <<>> \/ Len(segs) < Len(files))
    /\ mode = "writer" => segs = <<>>
    /\ stage = "scan" => segs = <<>> \/ Len(segs) < listed
    /\ stage = "up" /\ listed # 0 => Len(segs) < listed

\* As long as nothing slips, the i-th segment is the i-th file, and a scan under way
\* has found them all.
Exact ==
  NoSlip =>
    /\ \A i \in 1..Len(segs) : segs[i] = files[i]
    /\ open => curFile = Len(segs) + 1
    /\ stage = "scan" /\ open => Len(segs) < listed

\* Files do not go, and only a watcher polls, only a writer logs.
Looked ==
  /\ listed <= Len(files) /\ (~newDay => files # <<>>)
  /\ stage = "up" /\ listed # 0 => mode = "watcher"
  /\ stage \in {"logging", "writing"} => mode = "writer" /\ listed = 0
  /\ mode = "watcher" => NoLogSlip

\* A writer has all that it wrote; a Log call may have created the next file.
Logged ==
  mode = "writer" =>
    /\ stage = "scan" => listed = Len(files)
    /\ NoLogSlip /\ stage \in {"up", "logging"} =>
         IF open THEN curFile = Len(files) /\ cur = files[Len(files)] ELSE files = <<>>
    /\ NoLogSlip /\ stage = "writing" =>
         /\ files # <<>> /\ planned = Len(files)
         /\ IF ~open THEN Len(files) = 1 /\ files[1] = <<>>
            ELSE IF curFile = Len(files) THEN cur = files[Len(files)]
            ELSE curFile + 1 = Len(files) /\ cur = files[curFile] /\ files[Len(files)] = <<>>

\* The inductive invariant.
DiskInv == DiskTyped /\ Shown /\ Unopened /\ Exact /\ Looked /\ Logged

-----------------------------------------------------------------------------
\* Nothing is listed before the first scan.
LEMMA DiskInvInit == DiskInit => DiskInv
  <1> SUFFICES ASSUME DiskInit PROVE DiskInv
    OBVIOUS
  <1>1. /\ files = <<>> /\ segs = <<>> /\ segFile = <<>> /\ cur = <<>> /\ curFile = 0
        /\ newDay = TRUE /\ listed = 0 /\ planned = 0 /\ open = FALSE /\ stage = "start"
    BY DEF DiskInit
  <1>2. DiskTyped
    <2>1. <<>> \in Seq(Mutation) /\ <<>> \in Seq(Seq(Mutation)) /\ <<>> \in Seq(Nat)
      OBVIOUS
    <2> QED BY <1>1, <2>1 DEF DiskTyped
  <1>3. Shown /\ Exact
    <2>1. Len(segs) = 0
      BY <1>1
    <2> QED BY <1>1, <2>1 DEF Shown, Exact
  <1>4. Unopened /\ Looked /\ Logged
    <2>1. Len(files) = 0
      BY <1>1
    <2>2. NoLogSlip
      BY DEF DiskInit, NoLogSlip
    <2> QED BY <1>1, <2>1, <2>2 DEF Unopened, Looked, Logged
  <1> QED BY <1>2, <1>3, <1>4 DEF DiskInv

\* Steps that change neither the directory nor what the index shows: the process
\* dies or starts, lists the directory, or begins to log; the date changes.
LEMMA DiskLooks ==
  ASSUME DiskInv,
         \/ Scan \/ Restart \/ Midnight
         \/ LogBegin \/ Dies \/ Poll
  PROVE  DiskInv'
  <1>1. UNCHANGED <<mode, files, index, slips>>
    BY DEF Scan, Restart, Midnight, LogBegin, Dies, Poll
  <1>2. UNCHANGED <<segs, segFile, cur, curFile, open>> /\ (NoLogSlip' <=> NoLogSlip)
        /\ (NoSlip' <=> NoSlip)
    BY <1>1 DEF index, NoLogSlip, NoSlip
  <1>3. files \in Seq(Seq(Mutation)) /\ segs \in Seq(Seq(Mutation))
        /\ Len(files) \in Nat /\ Len(segs) \in Nat /\ listed \in Nat /\ planned \in Nat
        /\ newDay \in BOOLEAN
    BY DEF DiskInv, DiskTyped
  <1>4. Shown'
    BY <1>1, <1>2 DEF DiskInv, Shown
  <1>5. CASE Scan
    <2>1. stage' = "scan" /\ listed' = Len(files) /\ UNCHANGED <<newDay, planned>>
      BY <1>5 DEF Scan
    <2>2. DiskTyped' /\ Looked' /\ Logged' /\ Unopened'
      BY <1>1, <1>2, <1>3, <2>1 DEF DiskInv, DiskTyped, Looked, Logged, Unopened
    <2>3. NoSlip /\ open => Len(segs) < Len(files)
      BY <1>3 DEF DiskInv, Exact, Shown, NoSlip
    <2>4. Exact'
      BY <1>1, <1>2, <1>3, <2>1, <2>3 DEF DiskInv, Exact
    <2> QED BY <1>4, <2>2, <2>4 DEF DiskInv
  <1>6. CASE Restart \/ Dies
    <2>1. stage' = "start" /\ listed' \in {0, listed} /\ planned' \in {0, planned} /\ UNCHANGED newDay
      BY <1>6 DEF Restart, Dies
    <2> QED BY <1>1, <1>2, <1>3, <1>4, <2>1
            DEF DiskInv, DiskTyped, Unopened, Exact, Looked, Logged
  <1>7. CASE Midnight
    <2>1. /\ UNCHANGED <<stage, listed>> /\ newDay' = TRUE /\ planned' \in {0, planned}
          /\ planned' = planned \/ stage = "logging"
      BY <1>7 DEF Midnight
    <2> QED BY <1>1, <1>2, <1>3, <1>4, <2>1
            DEF DiskInv, DiskTyped, Unopened, Exact, Looked, Logged
  <1>8. CASE LogBegin
    <2>1. /\ mode = "writer" /\ stage = "up" /\ stage' = "logging"
          /\ planned' = Today /\ UNCHANGED <<newDay, listed>>
      BY <1>8 DEF LogBegin
    <2>2. Today \in Nat
      BY <1>3 DEF Today
    <2> QED BY <1>1, <1>2, <1>3, <1>4, <2>1, <2>2
            DEF DiskInv, DiskTyped, Unopened, Exact, Looked, Logged
  <1>9. CASE Poll
    <2>1. /\ mode = "watcher" /\ stage = "up" /\ listed' = Len(files) /\ files # <<>>
          /\ UNCHANGED <<newDay, stage, planned>>
      BY <1>9 DEF Poll
    <2>2. Len(files) # 0
      BY <1>3, <2>1
    <2>3. Unopened'
      <3>1. segs = <<>> => Len(segs) = 0
        OBVIOUS
      <3> QED BY <1>1, <1>2, <1>3, <2>1, <2>2, <3>1 DEF DiskInv, Unopened
    <2> QED BY <1>1, <1>2, <1>3, <1>4, <2>1, <2>3
            DEF DiskInv, DiskTyped, Exact, Looked, Logged
  <1> QED BY <1>5, <1>6, <1>7, <1>8, <1>9

\* The first elements of a sequence.
LEMMA FirstOf ==
  ASSUME NEW S, NEW s \in Seq(S), NEW n \in 0..Len(s)
  PROVE  /\ SubSeq(s, 1, n) \in Seq(S) /\ Len(SubSeq(s, 1, n)) = n
         /\ \A i \in 1..n : SubSeq(s, 1, n)[i] = s[i]
  <1> DEFINE f == SubSeq(s, 1, n)
  <1>1. 1 \in 1..Len(s) + 1 /\ n \in 1 - 1 .. Len(s)
    OBVIOUS
  <1>2. /\ f \in Seq(S) /\ Len(f) = n - 1 + 1
        /\ \A i \in 1..(n - 1 + 1) : f[i] = s[1 + i - 1]
    BY <1>1, SubSeqProperties
  <1> HIDE DEF f
  <1>3. f \in Seq(S) /\ Len(f) = n /\ \A i \in 1..n : f[i] = s[i]
    BY <1>2
  <1> QED BY <1>3 DEF f

\* A record more at the end of the last file.
LEMMA DiskWritten ==
  ASSUME NEW dir \in Seq(Seq(Mutation)), dir # <<>>, NEW r \in Mutation
  PROVE  /\ Written(dir, r) \in Seq(Seq(Mutation))
         /\ Len(Written(dir, r)) = Len(dir) /\ Len(dir) \in Nat \ {0}
         /\ \A i \in 1..Len(dir) - 1 : Written(dir, r)[i] = dir[i]
         /\ Written(dir, r)[Len(dir)] = Append(dir[Len(dir)], r)
         /\ dir[Len(dir)] \in Seq(Mutation) /\ Append(dir[Len(dir)], r) \in Seq(Mutation)
         /\ IsPrefix(dir[Len(dir)], Append(dir[Len(dir)], r))
  <1> DEFINE w == [dir EXCEPT ![Len(dir)] = Append(@, r)]
  <1>1. Len(dir) \in Nat \ {0} /\ Len(dir) \in 1..Len(dir)
    OBVIOUS
  <1>2. dir[Len(dir)] \in Seq(Mutation) /\ Append(dir[Len(dir)], r) \in Seq(Mutation)
    BY <1>1
  <1>3. /\ w \in Seq(Seq(Mutation)) /\ Len(w) = Len(dir)
        /\ \A i \in 1..Len(dir) - 1 : w[i] = dir[i]
        /\ w[Len(dir)] = Append(dir[Len(dir)], r)
    BY <1>1, <1>2
  <1>4. IsPrefix(dir[Len(dir)], Append(dir[Len(dir)], r))
    BY <1>2, PrefixAppend
  <1> HIDE DEF w
  <1>5. Written(dir, r) = w
    BY DEF Written, w
  <1> QED BY <1>1, <1>2, <1>3, <1>4, <1>5

\* Some elements of a sequence, after the first ones.
LEMMA FirstAndMore ==
  ASSUME NEW S, NEW s \in Seq(S), NEW f \in Seq(S), NEW n \in Nat, NEW k,
         Len(f) <= n, n <= Len(s), k = Len(f) + 1, \A i \in 1..Len(f) : f[i] = s[i]
  PROVE  /\ f \o SubSeq(s, k, n) \in Seq(S) /\ Len(f \o SubSeq(s, k, n)) = n
         /\ \A i \in 1..n : (f \o SubSeq(s, k, n))[i] = s[i]
  <1> DEFINE more == SubSeq(s, k, n)
             g == f \o more
             m == Len(f)
  <1>1. k \in 1..Len(s) + 1 /\ n \in k - 1 .. Len(s) /\ m \in Nat /\ m <= n /\ k = m + 1
    OBVIOUS
  <1> HIDE DEF m
  <1>2. /\ more \in Seq(S) /\ Len(more) = n - k + 1
        /\ \A i \in 1..(n - k + 1) : more[i] = s[k + i - 1]
    BY <1>1, SubSeqProperties
  <1> HIDE DEF more
  <1>3. /\ g \in Seq(S) /\ Len(g) = m + Len(more)
        /\ \A i \in 1..m + Len(more) :
             g[i] = IF i <= m THEN f[i] ELSE more[i - m]
    <2>1. /\ f \o more \in Seq(S) /\ Len(f \o more) = Len(f) + Len(more)
          /\ \A i \in 1..Len(f) + Len(more) :
               (f \o more)[i] = IF i <= Len(f) THEN f[i] ELSE more[i - Len(f)]
      BY <1>2, ConcatProperties
    <2>2. g = f \o more /\ Len(f) = m
      BY DEF m
    <2> HIDE DEF g
    <2> QED BY <2>1, <2>2
  <1> HIDE DEF g
  <1>4. Len(g) = n
    BY <1>1, <1>2, <1>3
  <1>5. ASSUME NEW i \in 1..n PROVE g[i] = s[i]
    <2>1. g[i] = IF i <= m THEN f[i] ELSE more[i - m]
      BY <1>3, <1>4
    <2>2. CASE i <= m
      <3>1. i \in 1..m
        BY <1>1, <2>2
      <3>2. f[i] = s[i]
        BY <3>1 DEF m
      <3> QED BY <2>1, <2>2, <3>2
    <2>3. CASE ~ (i <= m)
      <3>1. i - m \in 1..(n - k + 1) /\ k + (i - m) - 1 = i
        BY <1>1, <2>3
      <3>2. more[i - m] = s[k + (i - m) - 1]
        BY <1>2, <3>1
      <3> QED BY <2>1, <2>3, <3>1, <3>2
    <2> QED BY <2>2, <2>3
  <1> QED BY <1>3, <1>4, <1>5 DEF g, more

\* The names of n - m + 1 files.
LEMMA NamesAre ==
  ASSUME NEW m \in Nat \ {0}, NEW n \in Nat, m <= n + 1
  PROVE  /\ Names(m, n) \in Seq(Nat) /\ Len(Names(m, n)) = n + 1 - m
         /\ \A i \in 1..n + 1 - m : Names(m, n)[i] = m - 1 + i
  <1>1. n + 1 - m \in Nat /\ \A i \in 1..n + 1 - m : m - 1 + i \in Nat
    OBVIOUS
  <1>2. Names(m, n) = [i \in 1..n + 1 - m |-> m - 1 + i]
    BY DEF Names
  <1> QED BY <1>1, <1>2

\* What a scan that listed n files makes of them: it shows them all.
ShowsTo(n) ==
  /\ segs' \in Seq(Seq(Mutation)) /\ Len(segs') = n - 1
  /\ \A i \in 1..n - 1 : segs'[i] = files[i]
  /\ cur' = files[n] /\ cur' \in Seq(Mutation) /\ open' = TRUE

\* A scan reads what it listed.
LEMMA DiskScanReads ==
  ASSUME DiskInv, ScanRead
  PROVE  DiskInv' /\ (listed # 0 => ShowsTo(listed))
  <1>1. /\ stage = "scan" /\ stage' = "up" /\ listed' = 0 /\ slips' = {}
        /\ UNCHANGED <<mode, files, newDay, planned>>
    BY DEF ScanRead
  <1>2. /\ files \in Seq(Seq(Mutation)) /\ Len(files) \in Nat /\ listed \in Nat
        /\ listed <= Len(files) /\ planned \in Nat
        /\ mode = "writer" => listed = Len(files)
    BY <1>1 DEF DiskInv, DiskTyped, Looked, Logged
  <1>3. /\ segs' = SubSeq(files, 1, listed - 1) /\ segFile' = Names(1, listed - 1)
        /\ curFile' = listed /\ open' = (listed # 0)
        /\ cur' = (IF listed = 0 THEN <<>> ELSE files[listed])
    BY DEF ScanRead
  <1>a. NoLogSlip'
    BY <1>1 DEF NoLogSlip
  <1>4. CASE listed = 0
    <2>1. segs' = <<>> /\ cur' = <<>> /\ open' = FALSE /\ segFile' = <<>>
      <3>1. SubSeq(files, 1, 0 - 1) = <<>>
        BY <1>2
      <3>2. Names(1, 0 - 1) = <<>>
        BY DEF Names
      <3> QED BY <1>3, <1>4, <3>1, <3>2
    <2>2. DiskTyped'
      <3>1. <<>> \in Seq(Mutation) /\ <<>> \in Seq(Seq(Mutation)) /\ <<>> \in Seq(Nat)
        OBVIOUS
      <3> QED BY <1>1, <1>2, <1>3, <2>1, <3>1 DEF DiskInv, DiskTyped
    <2>3. mode = "writer" => files = <<>>
      BY <1>2, <1>4
    <2>4. Len(segs') = 0
      BY <2>1
    <2>5. Shown' /\ Exact'
      BY <1>1, <2>1, <2>4 DEF Shown, Exact
    <2>6. Unopened' /\ Looked' /\ Logged'
      <3>1. Unopened' /\ Logged'
        BY <1>1, <2>1, <2>3 DEF Unopened, Logged
      <3>2. Looked'
        BY <1>1, <1>2, <1>a DEF DiskInv, Looked
      <3> QED BY <3>1, <3>2
    <2> QED BY <1>4, <2>2, <2>5, <2>6 DEF DiskInv
  <1>5. CASE listed # 0
    <2>1. cur' = files[listed] /\ open' = TRUE /\ listed \in 1..Len(files)
      <3>1. listed \in 1..Len(files)
        BY <1>2, <1>5
      <3>2. cur' = files[listed]
        BY <1>3, <1>5, Zenon
      <3>3. open' = TRUE
        BY <1>3, <1>5
      <3> QED BY <3>1, <3>2, <3>3
    <2>2. ShowsTo(listed)
      <3>1. listed - 1 \in 0..Len(files)
        BY <1>2, <1>5
      <3>2. cur' \in Seq(Mutation)
        BY <1>2, <2>1
      <3> QED BY <1>2, <1>3, <2>1, <3>1, <3>2, FirstOf DEF ShowsTo
    <2>3. /\ segFile' \in Seq(Nat) /\ Len(segFile') = listed - 1
          /\ \A i \in 1..listed - 1 : segFile'[i] = i
      <3> DEFINE n == listed - 1
      <3>1. n \in Nat /\ 1 <= n + 1 /\ 1 \in Nat \ {0} /\ segFile' = Names(1, n)
        BY <1>2, <1>3, <1>5
      <3> HIDE DEF n
      <3>2. segFile' \in Seq(Nat) /\ Len(segFile') = n + 1 - 1
            /\ \A i \in 1..n + 1 - 1 : segFile'[i] = 1 - 1 + i
        BY <3>1, NamesAre
      <3>3. segFile' \in Seq(Nat) /\ Len(segFile') = n /\ \A i \in 1..n : segFile'[i] = i
        BY <3>1, <3>2
      <3> QED BY <3>3 DEF n
    <2>4. DiskTyped'
      BY <1>1, <1>2, <1>3, <2>1, <2>2, <2>3 DEF DiskInv, DiskTyped, ShowsTo
    <2>5. Shown'
      <3>1. IsPrefix(cur', cur') /\ \A s \in Seq(Mutation) : IsPrefix(s, s)
        BY <2>2, PrefixOrder DEF ShowsTo
      <3>2. ASSUME NEW i \in 1..Len(segs')
            PROVE  segFile'[i] \in 1..Len(files) /\ IsPrefix(segs'[i], files[segFile'[i]])
        <4>1. i \in 1..listed - 1 /\ segs'[i] = files[i] /\ segFile'[i] = i
          BY <2>2, <2>3 DEF ShowsTo
        <4>2. i \in 1..Len(files)
          BY <1>2, <4>1
        <4>3. files[i] \in Seq(Mutation)
          BY <1>2, <4>2
        <4> QED BY <3>1, <4>1, <4>2, <4>3
      <3> QED BY <1>1, <1>3, <2>1, <3>1, <3>2 DEF Shown
    <2>6. Exact'
      <3>1. Len(segs') = listed - 1 /\ \A i \in 1..Len(segs') : segs'[i] = files[i]
        BY <2>2 DEF ShowsTo
      <3> QED BY <1>1, <1>2, <1>3, <3>1 DEF Exact
    <2>7. Unopened' /\ Looked' /\ Logged'
      BY <1>1, <1>2, <1>3, <1>a, <2>1 DEF DiskInv, Unopened, Looked, Logged
    <2> QED BY <2>2, <2>4, <2>5, <2>6, <2>7 DEF DiskInv
  <1> QED BY <1>4, <1>5

\* The files are the same, or there is one more, and it is empty.
LEMMA CreatedIs ==
  ASSUME NEW dir \in Seq(Seq(Mutation)), NEW made, made = Append(dir, <<>>)
  PROVE  /\ made \in Seq(Seq(Mutation)) /\ Len(made) = Len(dir) + 1 /\ Len(dir) \in Nat
         /\ \A i \in 1..Len(dir) : made[i] = dir[i]
         /\ made[Len(made)] = <<>> /\ made # <<>>
  <1>1. <<>> \in Seq(Mutation)
    OBVIOUS
  <1>2. /\ made \in Seq(Seq(Mutation)) /\ Len(made) = Len(dir) + 1 /\ Len(dir) \in Nat
        /\ \A i \in 1..Len(dir) : made[i] = dir[i]
        /\ made[Len(dir) + 1] = <<>>
    BY <1>1
  <1>3. made # <<>>
    BY <1>2
  <1> QED BY <1>2, <1>3

\* A file for the new day.  What was the beginning of a file is so still.
LEMMA DiskCreates ==
  ASSUME DiskInv, LogOpen \/ WriterCreates
  PROVE  DiskInv'
  <1>1. /\ newDay' = FALSE /\ files' = Created
        /\ UNCHANGED <<mode, listed, planned, segs, segFile, cur, curFile, open>>
    BY DEF LogOpen, WriterCreates, index
  <1>2. /\ files \in Seq(Seq(Mutation)) /\ Len(files) \in Nat /\ listed \in Nat
        /\ segs \in Seq(Seq(Mutation)) /\ Len(segs) \in Nat /\ newDay \in BOOLEAN
        /\ planned \in Nat /\ curFile \in Nat /\ listed <= Len(files)
    BY DEF DiskInv, DiskTyped, Looked
  <1>3. CASE ~newDay
    <2>1. UNCHANGED files /\ files # <<>>
      BY <1>1, <1>3 DEF Created, DiskInv, Looked
    <2>2. /\ LogOpen /\ stage = "logging" /\ stage' = "writing" /\ mode = "writer" /\ listed = 0
          /\ slips' = IF planned = Len(files) THEN slips ELSE slips \union {"straddled"}
      BY <1>3 DEF LogOpen, WriterCreates, Today, DiskInv, Looked
    <2>3. (NoLogSlip' => NoLogSlip /\ planned = Len(files)) /\ (NoSlip' => NoSlip)
      BY <2>2 DEF NoLogSlip, NoSlip
    <2>4. NoLogSlip => open /\ curFile = Len(files) /\ cur = files[Len(files)]
      BY <2>1, <2>2 DEF DiskInv, Logged
    <2>5. DiskTyped' /\ Looked'
      BY <1>1, <1>2, <2>1, <2>2 DEF DiskInv, DiskTyped, Looked
    <2>6. Shown' /\ Exact' /\ Unopened'
      BY <1>1, <1>2, <2>1, <2>2, <2>3 DEF DiskInv, Shown, Exact, Unopened
    <2>7. Logged'
      BY <1>1, <2>1, <2>2, <2>3, <2>4 DEF Logged
    <2> QED BY <2>5, <2>6, <2>7 DEF DiskInv
  <1>4. CASE newDay
    <2>1. files' = Append(files, <<>>)
      BY <1>1, <1>4 DEF Created
    <2>2. /\ files' \in Seq(Seq(Mutation)) /\ Len(files') = Len(files) + 1
          /\ \A i \in 1..Len(files) : files'[i] = files[i]
          /\ files'[Len(files')] = <<>> /\ files' # <<>>
      BY <1>2, <2>1, CreatedIs
    <2>3. \/ /\ stage = "logging" /\ stage' = "writing" /\ mode = "writer" /\ listed = 0
             /\ slips' = IF planned = Len(files) + 1 THEN slips
                         ELSE slips \union {"straddled"}
          \/ mode = "watcher" /\ UNCHANGED <<stage, slips>>
      BY <1>4 DEF LogOpen, WriterCreates, Today, DiskInv, Looked
    <2>4. (NoLogSlip' => NoLogSlip) /\ (NoSlip' => NoSlip)
      BY <2>3 DEF NoLogSlip, NoSlip
    <2>5. DiskTyped' /\ Looked'
      <3>1. DiskTyped'
        BY <1>1, <1>2, <2>2 DEF DiskInv, DiskTyped
      <3>2. listed' <= Len(files')
        BY <1>1, <1>2, <2>2
      <3>3. mode = "watcher" => NoLogSlip' /\ UNCHANGED stage
        BY <2>3 DEF DiskInv, Looked, NoLogSlip
      <3>4. mode # "watcher" => mode = "writer" /\ stage' = "writing" /\ listed = 0
        BY <2>3
      <3> QED BY <1>1, <2>2, <3>1, <3>2, <3>3, <3>4 DEF DiskInv, Looked
    <2>6. Shown'
      <3> SUFFICES ASSUME NoLogSlip PROVE Shown'
        BY <2>4 DEF Shown
      <3>1. ASSUME NEW i \in 1..Len(segs)
            PROVE  segFile[i] \in 1..Len(files') /\ IsPrefix(segs[i], files'[segFile[i]])
        <4>1. segFile[i] \in 1..Len(files) /\ IsPrefix(segs[i], files[segFile[i]])
          BY DEF DiskInv, Shown
        <4> QED BY <1>2, <2>2, <4>1
      <3>2. ASSUME open PROVE curFile \in 1..Len(files') /\ IsPrefix(cur, files'[curFile])
        <4>1. curFile \in 1..Len(files) /\ IsPrefix(cur, files[curFile])
          BY <3>2 DEF DiskInv, Shown
        <4> QED BY <1>2, <2>2, <4>1
      <3> QED BY <1>1, <3>1, <3>2 DEF Shown
    <2>7. Exact'
      <3> SUFFICES ASSUME NoSlip PROVE Exact'
        BY <2>4 DEF Exact
      <3>1. Len(segs) <= Len(files)
        <4>1. open => Len(segs) + 1 \in 1..Len(files)
          BY DEF DiskInv, Shown, Exact, NoSlip
        <4>2. ~open => Len(segs) = 0 \/ Len(segs) < Len(files)
          BY DEF DiskInv, Unopened
        <4> QED BY <1>2, <4>1, <4>2
      <3>2. \A i \in 1..Len(segs) : segs[i] = files'[i]
        BY <1>2, <2>2, <3>1 DEF DiskInv, Exact
      <3>3. stage' = "scan" => stage = "scan"
        BY <2>3
      <3> QED BY <1>1, <3>2, <3>3 DEF DiskInv, Exact
    <2>8. Unopened'
      BY <1>1, <1>2, <2>2, <2>3 DEF DiskInv, Unopened
    <2>9. Logged'
      <3> SUFFICES ASSUME mode = "writer", NoLogSlip' PROVE Logged'
        BY <1>1, <1>2, <2>3 DEF Logged
      <3>1. stage = "logging" /\ stage' = "writing" /\ planned = Len(files) + 1 /\ NoLogSlip
        BY <2>3, <2>4 DEF NoLogSlip
      <3>2. CASE open
        <4>1. curFile = Len(files) /\ cur = files[Len(files)]
          BY <3>1, <3>2 DEF DiskInv, Logged
        <4>2. Len(files) \in 1..Len(files)
          BY <3>1, <3>2, <4>1 DEF DiskInv, Shown
        <4>3. cur = files'[curFile] /\ curFile + 1 = Len(files') /\ curFile # Len(files')
          BY <1>2, <2>2, <4>1, <4>2
        <4> QED BY <1>1, <2>2, <3>1, <3>2, <4>3 DEF Logged
      <3>3. CASE ~open
        <4>1. files = <<>> /\ Len(files) = 0
          BY <3>1, <3>3 DEF DiskInv, Logged
        <4> QED BY <1>1, <2>2, <3>1, <3>3, <4>1 DEF Logged
      <3> QED BY <3>2, <3>3
    <2> QED BY <2>5, <2>6, <2>7, <2>8, <2>9 DEF DiskInv
  <1> QED BY <1>2, <1>3, <1>4

\* If the last file grows, what was the beginning of a file is so still.
LEMMA ShownGrows ==
  ASSUME DiskInv, NEW r \in Mutation, files # <<>>, files' = Written(files, r),
         NEW s \in Seq(Mutation), NEW i \in 1..Len(files), IsPrefix(s, files[i])
  PROVE  i \in 1..Len(files') /\ IsPrefix(s, files'[i])
  <1>1. files \in Seq(Seq(Mutation))
    BY DEF DiskInv, DiskTyped
  <1>2. /\ files' \in Seq(Seq(Mutation)) /\ Len(files') = Len(files) /\ Len(files) \in Nat \ {0}
        /\ \A j \in 1..Len(files) - 1 : files'[j] = files[j]
        /\ files[Len(files)] \in Seq(Mutation) /\ files'[Len(files)] \in Seq(Mutation)
        /\ IsPrefix(files[Len(files)], files'[Len(files)])
    BY <1>1, DiskWritten
  <1>3. CASE i = Len(files)
    BY <1>2, <1>3, PrefixOrder
  <1>4. CASE i # Len(files)
    <2>1. i \in 1..Len(files) - 1
      BY <1>2, <1>4
    <2> QED BY <1>2, <2>1
  <1> QED BY <1>3, <1>4

\* A file that somebody else appends to.
LEMMA DiskAppends ==
  ASSUME DiskInv, WriterAppends
  PROVE  DiskInv'
  <1>1. PICK r \in Mutation : files' = Written(files, r)
    BY DEF WriterAppends
  <1>2. /\ mode = "watcher" /\ files # <<>>
        /\ UNCHANGED <<mode, newDay, stage, listed, planned, segs, segFile, cur, curFile, open>>
        /\ UNCHANGED slips
    BY DEF WriterAppends, index
  <1>3. /\ files \in Seq(Seq(Mutation)) /\ segs \in Seq(Seq(Mutation)) /\ Len(files) \in Nat
        /\ cur \in Seq(Mutation) /\ Len(segs) \in Nat
    BY DEF DiskInv, DiskTyped
  <1>4. /\ files' \in Seq(Seq(Mutation)) /\ Len(files') = Len(files) /\ Len(files) \in Nat \ {0}
        /\ \A i \in 1..Len(files) - 1 : files'[i] = files[i]
    BY <1>1, <1>2, <1>3, DiskWritten
  <1>5. (NoLogSlip' <=> NoLogSlip) /\ (NoSlip' <=> NoSlip)
    BY <1>2 DEF NoLogSlip, NoSlip
  <1>6. DiskTyped'
    BY <1>2, <1>4 DEF DiskInv, DiskTyped
  <1>7. Shown'
    <2> SUFFICES ASSUME NoLogSlip PROVE Shown'
      BY <1>5 DEF Shown
    <2>1. ASSUME NEW i \in 1..Len(segs)
          PROVE  segFile[i] \in 1..Len(files') /\ IsPrefix(segs[i], files'[segFile[i]])
      <3>1. segFile[i] \in 1..Len(files) /\ IsPrefix(segs[i], files[segFile[i]])
        BY DEF DiskInv, Shown
      <3>2. segs[i] \in Seq(Mutation)
        BY <1>3
      <3> QED BY <1>1, <1>2, <3>1, <3>2, ShownGrows
    <2>2. ASSUME open PROVE curFile \in 1..Len(files') /\ IsPrefix(cur, files'[curFile])
      <3>1. curFile \in 1..Len(files) /\ IsPrefix(cur, files[curFile])
        BY <2>2 DEF DiskInv, Shown
      <3> QED BY <1>1, <1>2, <1>3, <3>1, ShownGrows
    <2> QED BY <1>2, <2>1, <2>2 DEF Shown
  <1>8. Exact'
    <2> SUFFICES ASSUME NoSlip PROVE Exact'
      BY <1>5 DEF Exact
    <2>1. Len(segs) <= Len(files) - 1
      <3>1. open => Len(segs) + 1 \in 1..Len(files)
        BY DEF DiskInv, Shown, Exact, NoSlip
      <3>2. ~open => Len(segs) = 0 \/ Len(segs) < Len(files)
        BY DEF DiskInv, Unopened
      <3> QED BY <1>3, <1>4, <3>1, <3>2
    <2>2. \A i \in 1..Len(segs) : segs[i] = files'[i]
      BY <1>3, <1>4, <2>1 DEF DiskInv, Exact
    <2> QED BY <1>2, <2>2 DEF DiskInv, Exact
  <1>9. Unopened' /\ Looked' /\ Logged'
    <2>1. files' # <<>>
      BY <1>4
    <2> QED BY <1>2, <1>4, <1>5, <2>1 DEF DiskInv, Unopened, Looked, Logged
  <1> QED BY <1>6, <1>7, <1>8, <1>9 DEF DiskInv

\* What a Log call does to the index: the record is at the end of the growing segment,
\* or alone in a new one.
LEMMA DiskCounts ==
  ASSUME DiskInv, NEW r \in Mutation, Counts(r)
  PROVE  /\ segs' \in Seq(Seq(Mutation)) /\ cur' \in Seq(Mutation)
         /\ segFile' \in Seq(Nat) /\ Len(segFile') = Len(segs')
         /\ curFile' = planned /\ open' = TRUE
         /\ \/ /\ segs' = segs /\ segFile' = segFile /\ cur' = Append(cur, r)
               /\ IsPrefix(cur, cur') /\ (open => planned = curFile)
            \/ /\ open /\ planned # curFile /\ cur' = <<r>>
               /\ Len(segs') = Len(segs) + 1
               /\ \A i \in 1..Len(segs) : segs'[i] = segs[i] /\ segFile'[i] = segFile[i]
               /\ segs'[Len(segs) + 1] = cur /\ segFile'[Len(segs) + 1] = curFile
  <1>1. /\ segs \in Seq(Seq(Mutation)) /\ cur \in Seq(Mutation) /\ segFile \in Seq(Nat)
        /\ Len(segFile) = Len(segs) /\ curFile \in Nat /\ Len(segs) \in Nat
        /\ open \in BOOLEAN
    BY DEF DiskInv, DiskTyped
  <1>2. curFile' = planned /\ open' = TRUE
    BY DEF Counts
  <1>3. CASE open /\ planned # curFile
    <2>1. segs' = Append(segs, cur) /\ segFile' = Append(segFile, curFile) /\ cur' = <<r>>
      BY <1>3 DEF Counts
    <2> DEFINE more == Append(segs, cur)
               moreFile == Append(segFile, curFile)
    <2>2. /\ more \in Seq(Seq(Mutation)) /\ Len(more) = Len(segs) + 1
          /\ \A i \in 1..Len(segs) : more[i] = segs[i]
          /\ more[Len(segs) + 1] = cur
      BY <1>1
    <2>3. /\ moreFile \in Seq(Nat) /\ Len(moreFile) = Len(segs) + 1
          /\ \A i \in 1..Len(segs) : moreFile[i] = segFile[i]
          /\ moreFile[Len(segs) + 1] = curFile
      BY <1>1, AppendProperties, SMTT(30)
    <2>4. segs' = more /\ segFile' = moreFile /\ cur' = <<r>> /\ <<r>> \in Seq(Mutation)
      BY <2>1
    <2> HIDE DEF more, moreFile
    <2> QED BY <1>2, <1>3, <2>2, <2>3, <2>4
  <1>4. CASE ~ (open /\ planned # curFile)
    <2>1. segs' = segs /\ segFile' = segFile /\ cur' = Append(cur, r)
      BY <1>4 DEF Counts
    <2>2. cur' \in Seq(Mutation) /\ IsPrefix(cur, cur')
      BY <1>1, <2>1, PrefixAppend
    <2> QED BY <1>1, <1>2, <1>4, <2>1, <2>2
  <1> QED BY <1>3, <1>4

\* The record is in the last file too, unless the date changed over the call.
LEMMA DiskLogWrites ==
  ASSUME DiskInv, LogWrite
  PROVE  DiskInv'
  <1>1. PICK r \in Mutation : files' = Written(files, r) /\ Counts(r)
    BY DEF LogWrite
  <1>2. /\ stage = "writing" /\ stage' = "up" /\ planned' = 0
        /\ UNCHANGED <<mode, newDay, listed, slips>>
    BY DEF LogWrite
  <1>3. /\ files \in Seq(Seq(Mutation)) /\ segs \in Seq(Seq(Mutation)) /\ cur \in Seq(Mutation)
        /\ Len(segs) \in Nat /\ Len(files) \in Nat /\ mode = "writer" /\ listed = 0
        /\ planned \in Nat /\ curFile \in Nat /\ open \in BOOLEAN
    BY <1>2 DEF DiskInv, DiskTyped, Looked
  <1>4. (NoLogSlip' <=> NoLogSlip) /\ (NoSlip' <=> NoSlip)
    BY <1>2 DEF NoLogSlip, NoSlip
  <1>5. /\ segs' \in Seq(Seq(Mutation)) /\ cur' \in Seq(Mutation)
        /\ segFile' \in Seq(Nat) /\ Len(segFile') = Len(segs')
        /\ curFile' = planned /\ open' = TRUE
    BY <1>1, DiskCounts
  <1>6. CASE files = <<>>
    <2>1. ~NoLogSlip /\ ~NoSlip
      BY <1>2, <1>3, <1>6 DEF DiskInv, Logged, NoSlip
    <2>2. files' = <<>>
      <3>1. Len(files) = 0 /\ DOMAIN files = {}
        BY <1>6
      <3> QED BY <1>1, <1>6, <3>1 DEF Written
    <2>3. files' = files
      BY <1>6, <2>2
    <2> QED BY <1>2, <1>3, <1>4, <1>5, <2>1, <2>3
            DEF DiskInv, DiskTyped, Shown, Unopened, Exact, Looked, Logged
  <1>7. CASE files # <<>>
    <2>1. /\ files' \in Seq(Seq(Mutation)) /\ Len(files') = Len(files) /\ Len(files) \in Nat \ {0}
          /\ \A i \in 1..Len(files) - 1 : files'[i] = files[i]
          /\ files'[Len(files)] = Append(files[Len(files)], r)
      BY <1>1, <1>3, <1>7, DiskWritten
    <2>2. files' # <<>>
      BY <2>1
    <2>3. DiskTyped' /\ Looked' /\ Unopened'
      BY <1>2, <1>3, <1>5, <2>1, <2>2 DEF DiskInv, DiskTyped, Looked, Unopened
    <2>4. CASE ~NoLogSlip
      BY <1>2, <1>4, <2>3, <2>4 DEF DiskInv, Shown, Exact, Logged, NoSlip
    <2>5. CASE NoLogSlip
      <3>1. /\ planned = Len(files)
            /\ IF ~open THEN Len(files) = 1 /\ files[1] = <<>>
               ELSE IF curFile = Len(files) THEN cur = files[Len(files)]
               ELSE curFile + 1 = Len(files) /\ cur = files[curFile] /\ files[Len(files)] = <<>>
        BY <1>2, <1>3, <2>5 DEF DiskInv, Logged
      <3>2. cur' = files'[Len(files)]
        <4>1. CASE open /\ planned # curFile
          <5>1. cur' = <<r>> /\ files[Len(files)] = <<>>
            BY <1>1, <3>1, <4>1 DEF Counts
          <5> QED BY <2>1, <5>1
        <4>2. CASE open /\ planned = curFile
          <5>1. cur' = Append(cur, r) /\ cur = files[Len(files)]
            BY <1>1, <3>1, <4>2 DEF Counts
          <5> QED BY <2>1, <5>1
        <4>3. CASE ~open
          <5>1. cur' = Append(cur, r) /\ cur = <<>>
            BY <1>1, <4>3 DEF Counts, DiskInv, Unopened
          <5> QED BY <2>1, <3>1, <4>3, <5>1
        <4> QED BY <1>3, <4>1, <4>2, <4>3
      <3>3. Logged'
        BY <1>2, <1>5, <2>1, <3>1, <3>2 DEF Logged
      <3>4. ASSUME NEW i \in 1..Len(segs)
            PROVE  segFile[i] \in 1..Len(files') /\ IsPrefix(segs[i], files'[segFile[i]])
        <4>1. segFile[i] \in 1..Len(files) /\ IsPrefix(segs[i], files[segFile[i]])
          BY <2>5 DEF DiskInv, Shown
        <4>2. segs[i] \in Seq(Mutation)
          BY <1>3
        <4> QED BY <1>1, <1>7, <4>1, <4>2, ShownGrows
      <3>5. curFile' \in 1..Len(files') /\ IsPrefix(cur', files'[curFile'])
        <4>1. curFile' = Len(files) /\ Len(files) \in 1..Len(files')
          BY <1>5, <2>1, <3>1
        <4> QED BY <1>5, <3>2, <4>1, PrefixOrder
      <3>6. CASE open /\ planned # curFile
        <4>1. /\ Len(segs') = Len(segs) + 1
              /\ \A i \in 1..Len(segs) : segs'[i] = segs[i] /\ segFile'[i] = segFile[i]
              /\ segs'[Len(segs) + 1] = cur /\ segFile'[Len(segs) + 1] = curFile
          BY <1>1, <3>6, DiskCounts
        <4>2. curFile + 1 = Len(files) /\ cur = files[curFile] /\ curFile \in 1..Len(files) - 1
          BY <1>3, <2>1, <2>5, <3>1, <3>6 DEF DiskInv, Shown
        <4>3. cur = files'[curFile] /\ curFile \in 1..Len(files')
          BY <2>1, <4>2
        <4>4. ASSUME NEW i \in 1..Len(segs')
              PROVE  segFile'[i] \in 1..Len(files') /\ IsPrefix(segs'[i], files'[segFile'[i]])
          <5>1. i \in 1..Len(segs) \/ i = Len(segs) + 1
            BY <1>3, <4>1
          <5>2. CASE i \in 1..Len(segs)
            BY <3>4, <4>1, <5>2
          <5>3. CASE i = Len(segs) + 1
            BY <1>3, <4>1, <4>3, <5>3, PrefixOrder
          <5> QED BY <5>1, <5>2, <5>3
        <4>5. Shown'
          BY <3>5, <4>4 DEF Shown
        <4>6. Exact'
          <5> SUFFICES ASSUME NoSlip PROVE Exact'
            BY <1>4 DEF Exact
          <5>1. curFile = Len(segs) + 1 /\ \A i \in 1..Len(segs) : segs[i] = files[i]
            BY <3>6 DEF DiskInv, Exact
          <5>2. ASSUME NEW i \in 1..Len(segs') PROVE segs'[i] = files'[i]
            <6>1. i \in 1..Len(segs) \/ i = Len(segs) + 1
              BY <1>3, <4>1
            <6>2. CASE i \in 1..Len(segs)
              <7>1. i \in 1..Len(files) - 1
                BY <1>3, <2>1, <4>2, <5>1, <6>2
              <7> QED BY <2>1, <4>1, <5>1, <6>2, <7>1
            <6>3. CASE i = Len(segs) + 1
              BY <4>1, <4>3, <5>1, <6>3
            <6> QED BY <6>1, <6>2, <6>3
          <5>3. curFile' = Len(segs') + 1
            BY <1>3, <1>5, <3>1, <4>1, <4>2, <5>1
          <5> QED BY <1>2, <5>2, <5>3 DEF Exact
        <4> QED BY <2>3, <3>3, <4>5, <4>6 DEF DiskInv
      <3>7. CASE ~ (open /\ planned # curFile)
        <4>1. segs' = segs /\ segFile' = segFile
          BY <1>1, <3>7 DEF Counts
        <4>2. Shown'
          BY <3>4, <3>5, <4>1 DEF Shown
        <4>3. Exact'
          <5> SUFFICES ASSUME NoSlip PROVE Exact'
            BY <1>4 DEF Exact
          <5>1. Len(segs) + 1 = Len(files)
            <6>1. CASE open
              BY <3>1, <3>7, <6>1 DEF DiskInv, Exact
            <6>2. CASE ~open
              <7>1. Len(segs) = 0
                BY <1>3, <6>2 DEF DiskInv, Unopened
              <7> QED BY <3>1, <6>2, <7>1
            <6> QED BY <1>3, <6>1, <6>2
          <5>2. \A i \in 1..Len(segs) : segs[i] = files'[i]
            BY <1>3, <2>1, <5>1 DEF DiskInv, Exact
          <5> QED BY <1>2, <1>5, <3>1, <4>1, <5>1, <5>2 DEF Exact
        <4> QED BY <2>3, <3>3, <4>2, <4>3 DEF DiskInv
      <3> QED BY <3>6, <3>7
    <2> QED BY <2>4, <2>5
  <1> QED BY <1>6, <1>7

\* An unwritten record.
LEMMA DiskLogFails ==
  ASSUME DiskInv, LogFails
  PROVE  DiskInv'
  <1>1. PICK r \in Mutation : Counts(r)
    BY DEF LogFails
  <1>2. /\ slips' = slips \union {"unwritten"} /\ stage' = "dying" /\ planned' = 0
        /\ UNCHANGED <<mode, files, newDay, listed>> /\ mode = "writer"
    BY DEF LogFails, DiskInv, Looked
  <1>3. /\ segs' \in Seq(Seq(Mutation)) /\ cur' \in Seq(Mutation)
        /\ segFile' \in Seq(Nat) /\ Len(segFile') = Len(segs')
        /\ curFile' = planned /\ open' = TRUE
    BY <1>1, DiskCounts
  <1>4. ~NoLogSlip' /\ ~NoSlip'
    BY <1>2 DEF NoLogSlip, NoSlip
  <1> QED BY <1>2, <1>3, <1>4 DEF DiskInv, DiskTyped, Shown, Unopened, Exact, Looked, Logged

\* What a poll that finds more files makes of the segments, up to the n-th file.
LEMMA DiskFreezes ==
  ASSUME DiskInv, listed > Expected, NEW n \in Expected..(listed - 1), Freezes(n)
  PROVE  /\ Expected \in Nat /\ n \in Nat /\ Expected <= n /\ n < listed /\ n < Len(files)
         /\ segs' \in Seq(Seq(Mutation)) /\ Len(segs') = n
         /\ segFile' \in Seq(Nat) /\ Len(segFile') = n
         /\ \A i \in 1..Len(segs) : segs'[i] = segs[i] /\ segFile'[i] = segFile[i]
         /\ open => segs'[Len(segs) + 1] = cur /\ segFile'[Len(segs) + 1] = curFile
         /\ \A i \in Expected + 1..n : segs'[i] = files[i] /\ segFile'[i] = i
  <1> DEFINE m == Expected
             old == IF open THEN Append(segs, cur) ELSE segs
             oldFile == IF open THEN Append(segFile, curFile) ELSE segFile
             more == SubSeq(files, m + 1, n)
             moreFile == Names(m + 1, n)
  <1>1. /\ files \in Seq(Seq(Mutation)) /\ Len(files) \in Nat /\ listed \in Nat
        /\ segs \in Seq(Seq(Mutation)) /\ cur \in Seq(Mutation) /\ Len(segs) \in Nat
        /\ segFile \in Seq(Nat) /\ Len(segFile) = Len(segs) /\ curFile \in Nat
        /\ listed <= Len(files)
    BY DEF DiskInv, DiskTyped, Looked
  <1>2. m \in Nat /\ n \in Nat /\ m <= n /\ n < listed /\ n < Len(files)
    <2>1. Expected \in Nat
      BY <1>1 DEF Expected
    <2> QED BY <1>1, <2>1
  <1>3. segs' = old \o more /\ segFile' = oldFile \o moreFile
    BY DEF Freezes
  <1>4. /\ old \in Seq(Seq(Mutation)) /\ Len(old) = m
        /\ oldFile \in Seq(Nat) /\ Len(oldFile) = m
        /\ Len(segs) <= m
        /\ \A i \in 1..Len(segs) : old[i] = segs[i] /\ oldFile[i] = segFile[i]
        /\ open => m = Len(segs) + 1 /\ old[Len(segs) + 1] = cur /\ oldFile[Len(segs) + 1] = curFile
    <2>1. CASE open
      <3>1. m = Len(segs) + 1 /\ old = Append(segs, cur) /\ oldFile = Append(segFile, curFile)
        BY <2>1 DEF Expected
      <3> HIDE DEF m, old, oldFile
      <3> QED BY <1>1, <3>1
    <2>2. CASE ~open
      <3>1. m = Len(segs) /\ old = segs /\ oldFile = segFile
        BY <2>2 DEF Expected
      <3> QED BY <1>1, <2>2, <3>1
    <2> QED BY <2>1, <2>2
  <1> HIDE DEF m, old, oldFile
  <1>5. /\ more \in Seq(Seq(Mutation)) /\ Len(more) = n - m
        /\ \A i \in 1..n - m : more[i] = files[m + i]
    <2> DEFINE k == m + 1
    <2>1. k \in 1..Len(files) + 1 /\ n \in k - 1 .. Len(files) /\ k = m + 1
      BY <1>1, <1>2
    <2> HIDE DEF k
    <2>2. /\ SubSeq(files, k, n) \in Seq(Seq(Mutation)) /\ Len(SubSeq(files, k, n)) = n - k + 1
          /\ \A i \in 1..(n - k + 1) : SubSeq(files, k, n)[i] = files[k + i - 1]
      BY <1>1, <2>1, SubSeqProperties, SMTT(30)
    <2>3. n - k + 1 = n - m /\ more = SubSeq(files, k, n)
          /\ \A i \in 1..n - m : k + i - 1 = m + i
      BY <1>2, <2>1
    <2> HIDE DEF more
    <2> QED BY <2>2, <2>3
  <1>6. /\ moreFile \in Seq(Nat) /\ Len(moreFile) = n - m
        /\ \A i \in 1..n - m : moreFile[i] = m + i
    <2>1. m + 1 \in Nat \ {0} /\ m + 1 <= n + 1
      BY <1>2
    <2>2. /\ moreFile \in Seq(Nat) /\ Len(moreFile) = n + 1 - (m + 1)
          /\ \A i \in 1..n + 1 - (m + 1) : moreFile[i] = (m + 1) - 1 + i
      BY <1>2, <2>1, NamesAre
    <2>3. n + 1 - (m + 1) = n - m /\ \A i \in 1..n - m : (m + 1) - 1 + i = m + i
      BY <1>2
    <2> HIDE DEF moreFile
    <2> QED BY <2>2, <2>3
  <1> HIDE DEF more, moreFile
  <1>7. /\ segs' \in Seq(Seq(Mutation)) /\ Len(segs') = n
        /\ \A i \in 1..n : segs'[i] = IF i <= m THEN old[i] ELSE more[i - m]
    <2>1. /\ old \o more \in Seq(Seq(Mutation)) /\ Len(old \o more) = Len(old) + Len(more)
          /\ \A i \in 1..Len(old) + Len(more) :
               (old \o more)[i] = IF i <= Len(old) THEN old[i] ELSE more[i - Len(old)]
      BY <1>4, <1>5, ConcatProperties
    <2>2. Len(old) = m /\ Len(old) + Len(more) = n
      BY <1>2, <1>4, <1>5
    <2> QED BY <1>3, <2>1, <2>2
  <1>8. /\ segFile' \in Seq(Nat) /\ Len(segFile') = n
        /\ \A i \in 1..n : segFile'[i] = IF i <= m THEN oldFile[i] ELSE moreFile[i - m]
    <2>1. /\ oldFile \o moreFile \in Seq(Nat)
          /\ Len(oldFile \o moreFile) = Len(oldFile) + Len(moreFile)
          /\ \A i \in 1..Len(oldFile) + Len(moreFile) :
               (oldFile \o moreFile)[i] =
                 IF i <= Len(oldFile) THEN oldFile[i] ELSE moreFile[i - Len(oldFile)]
      BY <1>4, <1>6, ConcatProperties
    <2>2. Len(oldFile) = m /\ Len(oldFile) + Len(moreFile) = n
      BY <1>2, <1>4, <1>6
    <2> QED BY <1>3, <2>1, <2>2
  <1>9. ASSUME NEW i \in 1..m PROVE segs'[i] = old[i] /\ segFile'[i] = oldFile[i]
    <2>1. i \in 1..n /\ i <= m
      BY <1>2
    <2> QED BY <1>7, <1>8, <2>1
  <1>10. ASSUME NEW i \in m + 1..n PROVE segs'[i] = files[i] /\ segFile'[i] = i
    <2>1. i \in 1..n /\ ~ (i <= m) /\ i - m \in 1..n - m /\ m + (i - m) = i
      BY <1>2
    <2>2. segs'[i] = more[i - m] /\ segFile'[i] = moreFile[i - m]
      BY <1>7, <1>8, <2>1
    <2>3. more[i - m] = files[m + (i - m)] /\ moreFile[i - m] = m + (i - m)
      BY <1>5, <1>6, <2>1
    <2> QED BY <2>1, <2>2, <2>3
  <1>11. ASSUME NEW i \in 1..Len(segs) PROVE segs'[i] = segs[i] /\ segFile'[i] = segFile[i]
    <2>1. i \in 1..m
      BY <1>1, <1>2, <1>4
    <2> QED BY <1>4, <1>9, <2>1
  <1>12. ASSUME open PROVE segs'[Len(segs) + 1] = cur /\ segFile'[Len(segs) + 1] = curFile
    <2>1. Len(segs) + 1 \in 1..m
      BY <1>1, <1>2, <1>4, <1>12
    <2> QED BY <1>4, <1>9, <1>12, <2>1
  <1> QED BY <1>2, <1>7, <1>8, <1>10, <1>11, <1>12 DEF m

\* Each of them is the beginning of a file.
LEMMA FrozenShown ==
  ASSUME DiskInv, NoLogSlip, listed > Expected, NEW n \in Expected..(listed - 1), Freezes(n),
         NEW i \in 1..Len(segs')
  PROVE  segFile'[i] \in 1..Len(files) /\ IsPrefix(segs'[i], files[segFile'[i]])
  <1>1. /\ Expected \in Nat /\ n \in Nat /\ n < Len(files) /\ Len(segs') = n
        /\ \A j \in 1..Len(segs) : segs'[j] = segs[j] /\ segFile'[j] = segFile[j]
        /\ open => segs'[Len(segs) + 1] = cur /\ segFile'[Len(segs) + 1] = curFile
        /\ \A j \in Expected + 1..n : segs'[j] = files[j] /\ segFile'[j] = j
    BY DiskFreezes
  <1>2. Len(segs) \in Nat /\ files \in Seq(Seq(Mutation)) /\ Len(files) \in Nat
    BY DEF DiskInv, DiskTyped
  <1>3. i \in 1..Len(segs) \/ (open /\ i = Len(segs) + 1) \/ i \in Expected + 1..n
    BY <1>1, <1>2 DEF Expected
  <1>4. CASE i \in 1..Len(segs)
    BY <1>1, <1>4 DEF DiskInv, Shown
  <1>5. CASE open /\ i = Len(segs) + 1
    BY <1>1, <1>5 DEF DiskInv, Shown
  <1>6. CASE i \in Expected + 1..n
    <2>1. i \in 1..Len(files) /\ segFile'[i] = i /\ segs'[i] = files[i]
      BY <1>1, <1>2, <1>6
    <2>2. files[i] \in Seq(Mutation)
      BY <1>2, <2>1
    <2> QED BY <2>1, <2>2, PrefixOrder
  <1> QED BY <1>3, <1>4, <1>5, <1>6

\* Each of them is the file of its number, if the growing segment was frozen whole.
LEMMA FrozenExact ==
  ASSUME DiskInv, NoSlip, listed > Expected, NEW n \in Expected..(listed - 1), Freezes(n),
         open => cur = files[curFile], NEW i \in 1..Len(segs')
  PROVE  segs'[i] = files[i]
  <1>1. /\ Expected \in Nat /\ n \in Nat /\ Len(segs') = n
        /\ \A j \in 1..Len(segs) : segs'[j] = segs[j]
        /\ open => segs'[Len(segs) + 1] = cur
        /\ \A j \in Expected + 1..n : segs'[j] = files[j]
    BY DiskFreezes
  <1>2. Len(segs) \in Nat
    BY DEF DiskInv, DiskTyped
  <1>3. i \in 1..Len(segs) \/ (open /\ i = Len(segs) + 1) \/ i \in Expected + 1..n
    BY <1>1, <1>2 DEF Expected
  <1> QED BY <1>1, <1>3 DEF DiskInv, Exact

\* A poll that finds more files freezes what it had of the growing segment, and shows
\* the files after it.
LEMMA DiskPollsFiles ==
  ASSUME DiskInv, PollNewFiles
  PROVE  DiskInv'
  <1> DEFINE n == listed - 1
  <1>1. /\ stage = "up" /\ listed > Expected /\ listed' = 0 /\ Freezes(n)
        /\ cur' = files[listed] /\ curFile' = listed /\ open' = TRUE
        /\ slips' = IF open /\ cur # files[curFile] THEN slips \union {"short"} ELSE slips
        /\ UNCHANGED <<mode, files, newDay, stage, planned>>
    BY DEF PollNewFiles
  <1>2. /\ files \in Seq(Seq(Mutation)) /\ Len(files) \in Nat /\ listed \in Nat
        /\ Len(segs) \in Nat /\ listed <= Len(files) /\ planned \in Nat
    BY DEF DiskInv, DiskTyped, Looked
  <1>3. n \in Expected..(listed - 1) /\ listed \in 1..Len(files) /\ mode = "watcher"
    <2>1. Expected \in Nat
      BY <1>2 DEF Expected
    <2>2. listed # 0
      BY <1>1, <1>2, <2>1
    <2> QED BY <1>1, <1>2, <2>1, <2>2 DEF DiskInv, Looked
  <1>4. cur' \in Seq(Mutation) /\ listed = n + 1
    BY <1>1, <1>2, <1>3
  <1> HIDE DEF n
  <1>5. /\ segs' \in Seq(Seq(Mutation)) /\ Len(segs') = n
        /\ segFile' \in Seq(Nat) /\ Len(segFile') = n
    BY <1>1, <1>3, DiskFreezes
  <1>6. (NoLogSlip' <=> NoLogSlip) /\ (NoSlip' => NoSlip /\ (open => cur = files[curFile]))
    BY <1>1 DEF NoLogSlip, NoSlip
  <1>7. DiskTyped'
    BY <1>1, <1>2, <1>4, <1>5 DEF DiskInv, DiskTyped
  <1>8. Shown'
    <2> SUFFICES ASSUME NoLogSlip PROVE Shown'
      BY <1>6 DEF Shown
    <2>1. \A i \in 1..Len(segs') :
            segFile'[i] \in 1..Len(files) /\ IsPrefix(segs'[i], files[segFile'[i]])
      BY <1>1, <1>3, FrozenShown
    <2>2. curFile' \in 1..Len(files) /\ IsPrefix(cur', files[curFile'])
      BY <1>1, <1>3, <1>4, PrefixOrder
    <2> QED BY <1>1, <2>1, <2>2 DEF Shown
  <1>9. Exact'
    <2> SUFFICES ASSUME NoSlip, open => cur = files[curFile] PROVE Exact'
      BY <1>6 DEF Exact
    <2>1. \A i \in 1..Len(segs') : segs'[i] = files[i]
      BY <1>1, <1>3, FrozenExact
    <2> QED BY <1>1, <1>4, <1>5, <2>1 DEF Exact
  <1>10. Unopened' /\ Looked' /\ Logged'
    BY <1>1, <1>2, <1>3, <1>6 DEF DiskInv, Unopened, Looked, Logged
  <1> QED BY <1>7, <1>8, <1>9, <1>10 DEF DiskInv

\* One that then fails keeps what it froze.
LEMMA DiskPollFails ==
  ASSUME DiskInv, PollFails
  PROVE  DiskInv'
  <1>1. /\ stage = "up" /\ listed > Expected /\ listed' = 0
        /\ slips' = IF open THEN slips \union {"halfway"} ELSE slips
        /\ UNCHANGED <<mode, files, newDay, stage, planned, cur, curFile, open>>
    BY DEF PollFails
  <1>2. PICK n \in Expected..(listed - 1) : Freezes(n)
    BY DEF PollFails
  <1>3. /\ files \in Seq(Seq(Mutation)) /\ Len(files) \in Nat /\ listed \in Nat
        /\ Len(segs) \in Nat /\ listed <= Len(files)
    BY DEF DiskInv, DiskTyped, Looked
  <1>4. mode = "watcher"
    <2>1. Expected \in Nat
      BY <1>3 DEF Expected
    <2>2. listed # 0
      BY <1>1, <1>3, <2>1
    <2> QED BY <1>1, <2>2 DEF DiskInv, Looked
  <1>5. /\ segs' \in Seq(Seq(Mutation)) /\ Len(segs') = n /\ n \in Nat /\ n < Len(files)
        /\ segFile' \in Seq(Nat) /\ Len(segFile') = n
    BY <1>1, <1>2, DiskFreezes
  <1>6. (NoLogSlip' <=> NoLogSlip) /\ (NoSlip' => NoSlip /\ ~open)
    BY <1>1 DEF NoLogSlip, NoSlip
  <1>7. DiskTyped'
    BY <1>1, <1>5 DEF DiskInv, DiskTyped
  <1>8. Shown'
    <2> SUFFICES ASSUME NoLogSlip PROVE Shown'
      BY <1>6 DEF Shown
    <2>1. \A i \in 1..Len(segs') :
            segFile'[i] \in 1..Len(files) /\ IsPrefix(segs'[i], files[segFile'[i]])
      BY <1>1, <1>2, FrozenShown
    <2> QED BY <1>1, <2>1 DEF DiskInv, Shown
  <1>9. Exact'
    <2> SUFFICES ASSUME NoSlip, ~open PROVE Exact'
      BY <1>6 DEF Exact
    <2>1. \A i \in 1..Len(segs') : segs'[i] = files[i]
      BY <1>1, <1>2, FrozenExact
    <2> QED BY <1>1, <2>1 DEF Exact
  <1>10. Unopened' /\ Looked' /\ Logged'
    BY <1>1, <1>3, <1>4, <1>5, <1>6 DEF DiskInv, Unopened, Looked, Logged
  <1> QED BY <1>7, <1>8, <1>9, <1>10 DEF DiskInv

\* A poll that finds no more files has a growing segment, and reads the rest of its file.
LEMMA DiskPollsGrowth ==
  ASSUME DiskInv, PollGrowth
  PROVE  /\ DiskInv' /\ segs' = segs
         /\ cur' \in Seq(Mutation) /\ IsPrefix(cur, cur')
  <1> DEFINE now == files[curFile]
             rest == SubSeq(now, Len(cur) + 1, Len(now))
  <1>1. /\ stage = "up" /\ 0 < listed /\ listed' = 0 /\ listed <= Expected
        /\ cur' = cur \o rest
        /\ UNCHANGED <<mode, files, newDay, stage, planned, segs, segFile, curFile, open, slips>>
    BY DEF PollGrowth
  <1>2. /\ files \in Seq(Seq(Mutation)) /\ Len(files) \in Nat /\ listed \in Nat
        /\ segs \in Seq(Seq(Mutation)) /\ cur \in Seq(Mutation) /\ Len(segs) \in Nat
        /\ mode = "watcher" /\ open \in BOOLEAN /\ listed # 0
    BY <1>1 DEF DiskInv, DiskTyped, Looked
  <1>3. open
    <2> SUFFICES ASSUME ~open PROVE FALSE
      BY <1>2
    <2>1. Len(segs) < listed /\ Expected = Len(segs)
      BY <1>1, <1>2 DEF DiskInv, Unopened, Expected
    <2> QED BY <1>1, <1>2, <2>1
  <1>4. (NoLogSlip' <=> NoLogSlip) /\ (NoSlip' <=> NoSlip)
    BY <1>1 DEF NoLogSlip, NoSlip
  <1>5. NoLogSlip /\ curFile \in 1..Len(files) /\ IsPrefix(cur, now)
    BY <1>2, <1>3 DEF DiskInv, Looked, Shown
  <1>6. now \in Seq(Mutation) /\ Len(now) \in Nat /\ Len(cur) \in Nat
    BY <1>2, <1>5
  <1> HIDE DEF now
  <1>7. Len(cur) <= Len(now) /\ \A i \in 1..Len(cur) : cur[i] = now[i]
    BY <1>2, <1>5, <1>6, PrefixIs
  <1>8. cur' = now
    <2> DEFINE n == Len(now)
               k == Len(cur) + 1
    <2>1. n \in Nat /\ Len(cur) <= n /\ n <= Len(now) /\ k = Len(cur) + 1 /\ n = Len(now)
      BY <1>6, <1>7
    <2>2. cur' = cur \o SubSeq(now, k, n)
      BY <1>1
    <2> HIDE DEF k, n
    <2>3. /\ cur' \in Seq(Mutation) /\ Len(cur') = n /\ \A i \in 1..n : cur'[i] = now[i]
      BY <1>2, <1>6, <1>7, <2>1, <2>2, FirstAndMore
    <2> QED BY <1>6, <2>1, <2>3, SeqEqual
  <1>9. IsPrefix(now, now)
    BY <1>6, PrefixOrder
  <1>10. DiskTyped' /\ Looked' /\ Unopened' /\ Logged'
    BY <1>1, <1>2, <1>3, <1>4, <1>6, <1>8 DEF DiskInv, DiskTyped, Looked, Unopened, Logged
  <1>11. Shown'
    BY <1>1, <1>4, <1>8, <1>9 DEF DiskInv, Shown, now
  <1>12. Exact'
    BY <1>1, <1>4 DEF DiskInv, Exact
  <1> QED BY <1>1, <1>5, <1>6, <1>8, <1>10, <1>11, <1>12 DEF DiskInv

\* Every step keeps the invariant.
LEMMA DiskInvNext ==
  ASSUME DiskInv, [DiskNext]_(diskVars)
  PROVE  DiskInv'
  <1>1. CASE UNCHANGED diskVars
    BY <1>1 DEF diskVars, index, DiskInv, DiskTyped, Shown, Unopened, Exact, Looked, Logged,
       NoLogSlip, NoSlip
  <1>2. CASE DiskNext
    BY <1>2, DiskLooks, DiskScanReads, DiskCreates, DiskAppends, DiskLogWrites, DiskLogFails,
       DiskPollsFiles, DiskPollFails, DiskPollsGrowth DEF DiskNext, Server
  <1> QED BY <1>1, <1>2

\* It holds in every behaviour.
LEMMA DiskInvHolds == DiskSpec => []DiskInv
  <1>1. DiskInv /\ [DiskNext]_(diskVars) => DiskInv'
    BY DiskInvNext
  <1> QED BY <1>1, DiskInvInit, PTL DEF DiskSpec

\* What a DiskLog's index lists can be downloaded with the sum it lists, over polls that
\* fail, days that end unseen and restarts, unless a Log call counted a record that is
\* not in its file (disklog.go, Log, poll, scan, serveJSONLogsIndex and serveLogFile).
THEOREM DiskServesItsIndex == DiskSpec => []IndexIsOnDisk
  <1>1. DiskInv => IndexIsOnDisk
    <2> SUFFICES ASSUME DiskInv, NoLogSlip, NEW i \in 1..Len(Listed)
                 PROVE  FileFor(i) \in 1..Len(files) /\ IsPrefix(Listed[i], files[FileFor(i)])
      BY DEF IndexIsOnDisk, NoLogSlip
    <2>1. segs \in Seq(Seq(Mutation)) /\ cur \in Seq(Mutation) /\ Len(segs) \in Nat
      BY DEF DiskInv, DiskTyped
    <2>2. CASE i \in 1..Len(segs)
      <3>1. Listed[i] = segs[i] /\ FileFor(i) = segFile[i]
        BY <2>1, <2>2 DEF Listed, FileFor
      <3> QED BY <2>2, <3>1 DEF DiskInv, Shown
    <2>3. CASE i \notin 1..Len(segs)
      <3>1. cur # <<>> /\ Listed = Append(segs, cur) /\ i = Len(segs) + 1
        BY <2>1, <2>3 DEF Listed
      <3>2. Listed[i] = cur /\ FileFor(i) = curFile
        BY <2>1, <3>1 DEF FileFor
      <3>3. open
        BY <3>1 DEF DiskInv, Unopened, DiskTyped
      <3> QED BY <3>2, <3>3 DEF DiskInv, Shown
    <2> QED BY <2>2, <2>3
  <1> QED BY <1>1, DiskInvHolds, PTL

-----------------------------------------------------------------------------
\* More segments, a longer log.
LEMMA FlattenGrows ==
  ASSUME NEW S, NEW s \in Seq(Seq(S)), NEW t \in Seq(Seq(S)),
         Len(s) <= Len(t), \A i \in 1..Len(s) : s[i] = t[i]
  PROVE  IsPrefix(FlattenSeq(s), FlattenSeq(t))
  <1> DEFINE n == Len(s)
             m == Len(t)
  <1>1. /\ n \in Nat /\ m \in Nat /\ n <= m /\ \A i \in 1..n : s[i] = t[i]
        /\ \A i \in 1..m : t[i] \in Seq(S)
    OBVIOUS
  <1>2. CASE n = 0
    <2>1. s = <<>>
      BY <1>2
    <2>2. FlattenSeq(s) = <<>> /\ FlattenSeq(t) \in Seq(S)
      BY <2>1, FlattenEmpty, FlattenType
    <2> QED BY <2>2, PrefixOrder
  <1>3. CASE n # 0
    <2> HIDE DEF n, m
    <2>1. n \in Nat \ {0} /\ m \in Nat \ {0} /\ n \in 1..n /\ n \in 1..m /\ m \in n..m
      BY <1>1, <1>3
    <2>2. PICK f : Flattens(f, s, n) /\ FlattenSeq(s) = f[n]
      BY <2>1, FlattenIs DEF n
    <2>3. PICK g : Flattens(g, t, m) /\ FlattenSeq(t) = g[m]
      BY <2>1, FlattenIs DEF m
    <2>4. \A i \in 1..n : f[i] = g[i]
      BY <1>1, <2>2, <2>3, FlattensAgree, SMTT(60)
    <2>5. \A i \in 1..m : g[i] \in Seq(S)
      BY <1>1, <2>3, FlattensType
    <2> DEFINE T == {j \in n..m : ~ IsPrefix(g[n], g[j])}
    <2>6. T = {}
      <3> SUFFICES ASSUME T # {} PROVE FALSE
        OBVIOUS
      <3>1. PICK j \in T : \A i \in T : j <= i
        <4>1. T \in SUBSET Nat
          BY <1>1
        <4> HIDE DEF T
        <4> QED BY <4>1, LeastIsThere
      <3>2. j \in n..m /\ ~ IsPrefix(g[n], g[j]) /\ j \in 1..m
        BY <2>1
      <3>3. j # n
        BY <2>1, <2>5, <3>2, PrefixOrder
      <3>4. j - 1 \in n..m /\ j - 1 \notin T /\ j - 1 \in 1..m /\ j # 1
        BY <1>1, <2>1, <3>1, <3>2, <3>3
      <3>5. IsPrefix(g[n], g[j - 1])
        BY <3>4
      <3>6. g[j] = g[j - 1] \o t[j]
        BY <2>3, <3>2, <3>4 DEF Flattens
      <3>7. g[j - 1] \in Seq(S) /\ t[j] \in Seq(S) /\ g[n] \in Seq(S) /\ g[j] \in Seq(S)
        BY <1>1, <2>1, <2>5, <3>2, <3>4
      <3>8. IsPrefix(g[j - 1], g[j])
        BY <3>6, <3>7, PrefixConcat
      <3> QED BY <3>2, <3>5, <3>7, <3>8, PrefixOrder
    <2>7. IsPrefix(g[n], g[m])
      BY <2>1, <2>6
    <2>8. f[n] = g[n]
      BY <2>1, <2>4
    <2> QED BY <2>2, <2>3, <2>7, <2>8
  <1> QED BY <1>2, <1>3

\* So does a growing segment, also one that is then frozen as more than it was.
LEMMA ServedGrows ==
  ASSUME NEW S, NEW s \in Seq(Seq(S)), NEW t \in Seq(Seq(S)),
         NEW c \in Seq(S), NEW d \in Seq(S),
         \/ s = t /\ IsPrefix(c, d)
         \/ /\ Len(s) < Len(t) /\ \A i \in 1..Len(s) : s[i] = t[i]
            /\ IsPrefix(c, t[Len(s) + 1])
  PROVE  IsPrefix(s, t) /\ IsPrefix(FlattenSeq(s) \o c, FlattenSeq(t) \o d)
  <1>1. FlattenSeq(s) \in Seq(S) /\ FlattenSeq(t) \in Seq(S)
    BY FlattenType
  <1>2. CASE s = t /\ IsPrefix(c, d)
    BY <1>1, <1>2, PrefixConcat, PrefixOrder
  <1>3. CASE /\ Len(s) < Len(t) /\ \A i \in 1..Len(s) : s[i] = t[i]
             /\ IsPrefix(c, t[Len(s) + 1])
    <2> DEFINE x == t[Len(s) + 1]
               u == Append(s, x)
    <2>1. x \in Seq(S) /\ Len(s) \in Nat /\ Len(t) \in Nat
      BY <1>3
    <2>2. IsPrefix(c, x)
      BY <1>3
    <2>3. /\ u \in Seq(Seq(S)) /\ Len(u) = Len(s) + 1 /\ \A i \in 1..Len(s) : u[i] = s[i]
          /\ u[Len(s) + 1] = x
      <3> HIDE DEF x
      <3> QED BY <2>1
    <2>4. FlattenSeq(u) = FlattenSeq(s) \o x
      <3> HIDE DEF x
      <3> QED BY <2>1, FlattenAppend
    <2>5. \A i \in 1..Len(u) : u[i] = t[i]
      <3> HIDE DEF u
      <3> SUFFICES ASSUME NEW i \in 1..Len(u) PROVE u[i] = t[i]
        OBVIOUS
      <3>1. i = Len(s) + 1 \/ i \in 1..Len(s)
        BY <2>1, <2>3
      <3> QED BY <1>3, <2>3, <3>1
    <2>6. Len(u) <= Len(t)
      BY <1>3, <2>1, <2>3
    <2> HIDE DEF x, u
    <2>7. IsPrefix(FlattenSeq(u), FlattenSeq(t))
      BY <2>3, <2>5, <2>6, FlattenGrows
    <2>8. FlattenSeq(u) \in Seq(S)
      BY <2>3, FlattenType
    <2>9. IsPrefix(FlattenSeq(s) \o c, FlattenSeq(u)) /\ FlattenSeq(s) \o c \in Seq(S)
      BY <1>1, <2>1, <2>2, <2>4, PrefixConcat
    <2>10. IsPrefix(FlattenSeq(t), FlattenSeq(t) \o d) /\ FlattenSeq(t) \o d \in Seq(S)
      BY <1>1, PrefixConcat
    <2>11. IsPrefix(s, t)
      <3>1. s \in Seq(Seq(S)) /\ t \in Seq(Seq(S))
        OBVIOUS
      <3>2. Len(s) <= Len(t) /\ \A i \in 1..Len(s) : s[i] = t[i]
        BY <1>3, <2>1
      <3> QED BY <3>1, <3>2, PrefixIs
    <2> QED BY <1>1, <2>7, <2>8, <2>9, <2>10, <2>11, PrefixOrder
  <1> QED BY <1>2, <1>3

\* What the index shows, and the next one does.
LEMMA DiskServes ==
  DiskInv => DiskServed = FlattenSeq(segs) \o cur
  <1> SUFFICES ASSUME DiskInv PROVE DiskServed = FlattenSeq(segs) \o cur
    OBVIOUS
  <1>1. segs \in Seq(Seq(Mutation)) /\ cur \in Seq(Mutation) /\ FlattenSeq(segs) \in Seq(Mutation)
    BY FlattenType DEF DiskInv, DiskTyped
  <1>2. DiskServed = FlattenSeq(Listed)
    BY DEF DiskServed
  <1>3. CASE cur # <<>>
    BY <1>1, <1>2, <1>3, FlattenAppend DEF Listed
  <1>4. CASE cur = <<>>
    <2>1. FlattenSeq(segs) \o <<>> = FlattenSeq(segs)
      BY <1>1
    <2> QED BY <1>2, <1>4, <2>1 DEF Listed
  <1> QED BY <1>3, <1>4

\* What a step does to the index.
DiskShowsMore ==
  \/ segs' = segs /\ IsPrefix(cur, cur')
  \/ /\ Len(segs) < Len(segs') /\ \A i \in 1..Len(segs) : segs[i] = segs'[i]
     /\ IsPrefix(cur, segs'[Len(segs) + 1])

\* What a scan finds is no less than the index before it showed, if nothing slipped.
LEMMA DiskShowsFiles ==
  ASSUME DiskInv, NoSlip, stage = "scan", listed # 0, ShowsTo(listed)
  PROVE  DiskShowsMore
  <1>1. /\ segs' \in Seq(Seq(Mutation)) /\ Len(segs') = listed - 1 /\ cur' \in Seq(Mutation)
        /\ \A i \in 1..listed - 1 : segs'[i] = files[i]
        /\ cur' = files[listed]
    BY DEF ShowsTo
  <1>2. /\ segs \in Seq(Seq(Mutation)) /\ Len(segs) \in Nat /\ listed \in Nat
        /\ cur \in Seq(Mutation) /\ open \in BOOLEAN
        /\ \A i \in 1..Len(segs) : segs[i] = files[i]
    BY DEF DiskInv, DiskTyped, Exact
  <1>3. Len(segs) < listed
    <2>1. segs = <<>> => Len(segs) = 0
      OBVIOUS
    <2> QED BY <1>2, <2>1 DEF DiskInv, Exact, Unopened
  <1>4. IsPrefix(cur, files[Len(segs) + 1])
    <2>1. CASE open
      BY <2>1 DEF DiskInv, Exact, Shown, NoSlip
    <2>2. CASE ~open
      <3>1. cur = <<>>
        BY <2>2 DEF DiskInv, Unopened
      <3>2. files \in Seq(Seq(Mutation)) /\ Len(segs) + 1 \in 1..Len(files)
        BY <1>2, <1>3 DEF DiskInv, DiskTyped, Looked
      <3>3. files[Len(segs) + 1] \in Seq(Mutation)
        BY <3>2
      <3> QED BY <3>1, <3>3, PrefixOrder
    <2> QED BY <2>1, <2>2
  <1>5. CASE Len(segs) = listed - 1
    <2>1. \A i \in 1..Len(segs) : segs[i] = segs'[i]
      BY <1>1, <1>2, <1>5
    <2>2. segs' = segs
      BY <1>1, <1>2, <1>5, <2>1, SeqEqual
    <2>3. Len(segs) + 1 = listed
      BY <1>1, <1>2, <1>5
    <2>4. IsPrefix(cur, cur')
      BY <1>1, <1>4, <2>3, Zenon
    <2> QED BY <2>2, <2>4 DEF DiskShowsMore
  <1>6. CASE Len(segs) # listed - 1
    <2>1. Len(segs) < Len(segs') /\ Len(segs) + 1 \in 1..listed - 1
      BY <1>1, <1>2, <1>3, <1>6
    <2>2. \A i \in 1..Len(segs) : segs[i] = segs'[i]
      <3> SUFFICES ASSUME NEW i \in 1..Len(segs) PROVE segs[i] = segs'[i]
        OBVIOUS
      <3>1. i \in 1..listed - 1
        BY <1>1, <1>2, <2>1
      <3> QED BY <1>1, <1>2, <3>1
    <2>3. IsPrefix(cur, segs'[Len(segs) + 1])
      BY <1>1, <1>4, <2>1
    <2> QED BY <2>1, <2>2, <2>3 DEF DiskShowsMore
  <1> QED BY <1>5, <1>6

\* A poll freezes what it had of the growing segment.
LEMMA DiskShowsFrozen ==
  ASSUME DiskInv, listed > Expected, NEW n \in Expected..(listed - 1), Freezes(n),
         cur' \in Seq(Mutation)
  PROVE  DiskShowsMore
  <1>1. /\ segs' \in Seq(Seq(Mutation)) /\ Len(segs') = n /\ n \in Nat /\ Expected <= n
        /\ \A i \in 1..Len(segs) : segs'[i] = segs[i]
        /\ open => segs'[Len(segs) + 1] = cur
    BY DiskFreezes
  <1>2. /\ segs \in Seq(Seq(Mutation)) /\ Len(segs) \in Nat /\ cur \in Seq(Mutation)
        /\ open \in BOOLEAN
    BY DEF DiskInv, DiskTyped
  <1>3. CASE open
    <2>1. Len(segs) < Len(segs')
      BY <1>1, <1>2, <1>3 DEF Expected
    <2>2. IsPrefix(cur, segs'[Len(segs) + 1])
      BY <1>1, <1>2, <1>3, PrefixOrder
    <2> QED BY <1>1, <2>1, <2>2 DEF DiskShowsMore
  <1>4. CASE ~open
    <2>1. cur = <<>> /\ Len(segs) <= n
      BY <1>1, <1>4 DEF DiskInv, Unopened, Expected
    <2>2. CASE Len(segs) = n
      <3>1. segs' = segs
        BY <1>1, <1>2, <2>2, SeqEqual
      <3>2. IsPrefix(cur, cur')
        BY <2>1, PrefixOrder
      <3> QED BY <3>1, <3>2 DEF DiskShowsMore
    <2>3. CASE Len(segs) # n
      <3>1. Len(segs) < Len(segs') /\ Len(segs) + 1 \in 1..Len(segs')
        BY <1>1, <1>2, <2>1, <2>3
      <3>2. segs'[Len(segs) + 1] \in Seq(Mutation)
        BY <1>1, <3>1
      <3>3. IsPrefix(cur, segs'[Len(segs) + 1])
        BY <2>1, <3>2, PrefixOrder
      <3> QED BY <1>1, <3>1, <3>3 DEF DiskShowsMore
    <2> QED BY <2>2, <2>3
  <1> QED BY <1>2, <1>3, <1>4

\* Of all steps.
LEMMA DiskStep ==
  ASSUME DiskInv, [DiskNext]_(diskVars), stage # "scan" \/ NoSlip
  PROVE  DiskShowsMore
  <1>1. /\ segs \in Seq(Seq(Mutation)) /\ cur \in Seq(Mutation) /\ listed \in Nat
        /\ Len(segs) \in Nat /\ Len(files) \in Nat /\ files \in Seq(Seq(Mutation))
        /\ open \in BOOLEAN
    BY DEF DiskInv, DiskTyped
  <1>2. ASSUME UNCHANGED <<segs, cur>> PROVE DiskShowsMore
    BY <1>1, <1>2, PrefixOrder DEF DiskShowsMore
  <1>3. CASE UNCHANGED diskVars
    BY <1>2, <1>3 DEF diskVars, index
  <1>4. CASE Scan \/ Restart \/ Midnight \/ LogBegin \/ LogOpen \/ Dies \/ Poll
    BY <1>2, <1>4 DEF Scan, Restart, Midnight, LogBegin, LogOpen, Dies, Poll, index
  <1>5. CASE WriterCreates \/ WriterAppends
    BY <1>2, <1>5 DEF WriterCreates, WriterAppends, index
  <1>6. CASE ScanRead
    <2>0. stage = "scan" /\ NoSlip
      BY <1>6 DEF ScanRead
    <2>1. CASE listed = 0
      <3>1. segs' = <<>> /\ cur' = <<>>
        <4>1. SubSeq(files, 1, 0 - 1) = <<>>
          BY <1>1
        <4> QED BY <1>6, <2>1, <4>1 DEF ScanRead
      <3>2. ~open
        BY <1>1, <2>0, <2>1 DEF DiskInv, Exact
      <3>3. segs = <<>> /\ cur = <<>>
        BY <1>1, <2>0, <2>1, <3>2 DEF DiskInv, Unopened
      <3> QED BY <1>2, <3>1, <3>3
    <2>2. CASE listed # 0
      <3>1. ShowsTo(listed)
        BY <1>6, <2>2, DiskScanReads
      <3> QED BY <2>0, <2>2, <3>1, DiskShowsFiles
    <2> QED BY <2>1, <2>2
  <1>7. CASE LogWrite \/ LogFails
    <2>1. PICK r \in Mutation : Counts(r)
      BY <1>7 DEF LogWrite, LogFails
    <2>2. \/ segs' = segs /\ IsPrefix(cur, cur')
          \/ /\ Len(segs') = Len(segs) + 1
             /\ \A i \in 1..Len(segs) : segs'[i] = segs[i]
             /\ segs'[Len(segs) + 1] = cur
      BY <2>1, DiskCounts
    <2>3. IsPrefix(cur, cur) /\ Len(segs) < Len(segs) + 1
      BY <1>1, PrefixOrder
    <2> QED BY <2>2, <2>3 DEF DiskShowsMore
  <1>8. CASE PollNewFiles \/ PollFails
    <2>1. listed > Expected /\ Expected \in Nat
      BY <1>1, <1>8 DEF PollNewFiles, PollFails, Expected
    <2>2. PICK n \in Expected..(listed - 1) : Freezes(n)
      <3>1. listed - 1 \in Expected..(listed - 1)
        BY <1>1, <2>1
      <3> QED BY <1>8, <3>1 DEF PollNewFiles, PollFails
    <2>3. cur' \in Seq(Mutation)
      <3>1. listed \in 1..Len(files)
        BY <1>1, <2>1 DEF DiskInv, Looked
      <3> QED BY <1>1, <1>8, <3>1 DEF PollNewFiles, PollFails
    <2>4. open \/ cur = <<>>
      BY <1>1 DEF DiskInv, Unopened
    <2> QED BY <2>1, <2>2, <2>3, <2>4, DiskShowsFrozen
  <1>9. CASE PollGrowth
    BY <1>9, DiskPollsGrowth DEF DiskShowsMore
  <1> QED BY <1>3, <1>4, <1>5, <1>6, <1>7, <1>8, <1>9 DEF DiskNext, Server

\* The log that a DiskLog serves only grows, and what is frozen stays, whatever fails
\* and whenever days end; over a restart too, if the index of before had no slip
\* (disklog.go, Log, poll and scan).
THEOREM DiskOnlyGrows == DiskSpec => ServedOnlyGrows
  <1>1. ASSUME DiskInv, DiskInv', [DiskNext]_(diskVars)
        PROVE  stage # "scan" \/ slips = {}
                 => IsPrefix(DiskServed, DiskServed') /\ IsPrefix(segs, segs')
    <2> SUFFICES ASSUME stage # "scan" \/ slips = {}
                 PROVE  IsPrefix(DiskServed, DiskServed') /\ IsPrefix(segs, segs')
      OBVIOUS
    <2>1. /\ segs \in Seq(Seq(Mutation)) /\ cur \in Seq(Mutation)
          /\ segs' \in Seq(Seq(Mutation)) /\ cur' \in Seq(Mutation)
      BY <1>1 DEF DiskInv, DiskTyped
    <2>2. DiskShowsMore
      <3>1. stage # "scan" \/ NoSlip
        BY DEF NoSlip, NoLogSlip
      <3> QED BY <1>1, <3>1, DiskStep
    <2>3. IsPrefix(segs, segs') /\ IsPrefix(FlattenSeq(segs) \o cur, FlattenSeq(segs') \o cur')
      BY <2>1, <2>2, ServedGrows DEF DiskShowsMore
    <2>4. DiskServed = FlattenSeq(segs) \o cur
      BY <1>1, DiskServes
    <2>5. DiskServed' = FlattenSeq(segs') \o cur'
      <3>1. (DiskInv => DiskServed = FlattenSeq(segs) \o cur)'
        BY DiskServes, PTL
      <3> QED BY <1>1, <3>1
    <2> QED BY <2>3, <2>4, <2>5
  <1> QED BY <1>1, DiskInvHolds, PTL DEF DiskSpec, ServedOnlyGrows

-----------------------------------------------------------------------------
\* The two are inductive together: a growth wakes the sleepers, and a poll that holds
\* the mutex between its look at the size and its sleep keeps the log from growing.
PollInv == TypeOK /\ SleepersAreUpToDate

USE DEF Places, Waiting

\* Nobody polls an empty log.
LEMMA PollInvInit ==
  ASSUME PollInit
  PROVE  PollInv
  BY LongPollAssumption DEF PollInit, PollInv, TypeOK, SleepersAreUpToDate

\* The log grows while nobody holds the mutex, and no sleeper stays asleep.
LEMMA PollGrows ==
  ASSUME PollInv, Grow
  PROVE  PollInv'
  <1>1. size' \in 0..MaxSize /\ pc' \in [LongPolls -> Places]
    BY LongPollAssumption DEF PollInv, TypeOK, Grow, Woken
  <1>2. holders' = {} /\ \A w \in LongPolls : pc'[w] \notin {"check", "wait", "asleep"}
    BY DEF PollInv, TypeOK, Grow, Woken
  <1>3. TypeOK'
    BY <1>1, <1>2 DEF PollInv, TypeOK, Grow
  <1>4. SleepersAreUpToDate'
    BY <1>2 DEF SleepersAreUpToDate
  <1> QED BY <1>3, <1>4 DEF PollInv

\* A request, whatever it knows, begins outside of the mutex.
LEMMA PollRequests ==
  ASSUME PollInv, NEW w \in LongPolls, Request(w)
  PROVE  PollInv'
  <1>1. PICK v \in 0..MaxSize : known' = [known EXCEPT ![w] = v]
    BY DEF Request
  <1>2. TypeOK'
    <2>1. pc' \in [LongPolls -> Places] /\ known' \in [LongPolls -> 0..MaxSize]
      BY <1>1 DEF PollInv, TypeOK, Request
    <2>2. holders' = {x \in LongPolls : pc'[x] \in {"check", "wait"}}
      BY DEF PollInv, TypeOK, Request
    <2> QED BY <2>1, <2>2 DEF PollInv, TypeOK, Request
  <1>3. SleepersAreUpToDate'
    BY <1>1 DEF PollInv, TypeOK, SleepersAreUpToDate, Request
  <1> QED BY <1>2, <1>3 DEF PollInv

\* The handler takes the mutex when it is free, looks at the size under it, and gives
\* it up when it returns or once it is among the sleepers.
LEMMA PollHandles ==
  ASSUME PollInv, NEW w \in LongPolls, Handler(w)
  PROVE  PollInv'
  <1>1. CASE Lock(w)
    <2>1. pc' = [pc EXCEPT ![w] = "check"] /\ pc' \in [LongPolls -> Places]
      BY <1>1 DEF PollInv, TypeOK, Lock
    <2>2. /\ \A x \in LongPolls : pc[x] \notin {"check", "wait"}
          /\ holders' = {w}
      BY <1>1 DEF PollInv, TypeOK, Lock
    <2>3. holders' = {x \in LongPolls : pc'[x] \in {"check", "wait"}}
      BY <2>1, <2>2 DEF PollInv, TypeOK
    <2>4. TypeOK'
      BY <1>1, <2>1, <2>2, <2>3 DEF PollInv, TypeOK, Lock
    <2>5. SleepersAreUpToDate'
      BY <1>1, <2>1 DEF PollInv, TypeOK, SleepersAreUpToDate, Lock
    <2> QED BY <2>4, <2>5 DEF PollInv
  <1>2. CASE ChooseWait(w)
    <2>1. pc' = [pc EXCEPT ![w] = "wait"] /\ pc[w] = "check" /\ size = known[w]
      BY <1>2 DEF ChooseWait
    <2>2. TypeOK'
      <3>1. pc' \in [LongPolls -> Places]
        BY <2>1 DEF PollInv, TypeOK
      <3>2. holders' = {x \in LongPolls : pc'[x] \in {"check", "wait"}}
        BY <1>2, <2>1 DEF PollInv, TypeOK, ChooseWait
      <3> QED BY <1>2, <3>1, <3>2 DEF PollInv, TypeOK, ChooseWait
    <2>3. SleepersAreUpToDate'
      BY <1>2, <2>1 DEF PollInv, TypeOK, SleepersAreUpToDate, ChooseWait
    <2> QED BY <2>2, <2>3 DEF PollInv
  <1>3. CASE ReturnChanged(w) \/ ReturnUnchanged(w) \/ Sleep(w)
    <2>1. PICK to \in {"changed", "unchanged", "asleep"} :
            /\ pc' = [pc EXCEPT ![w] = to] /\ holders' = {}
            /\ pc[w] \in {"check", "wait"} /\ (to = "asleep" => pc[w] = "wait")
            /\ UNCHANGED <<size, known, expired, watching, answer>>
      BY <1>3 DEF ReturnChanged, ReturnUnchanged, Sleep
    <2>2. \A x \in LongPolls : x # w => pc[x] \notin {"check", "wait"}
      BY <2>1 DEF PollInv, TypeOK
    <2>3. pc' \in [LongPolls -> Places]
      BY <2>1 DEF PollInv, TypeOK
    <2>4. \A x \in LongPolls : pc'[x] \notin {"check", "wait"}
      BY <2>1, <2>2 DEF PollInv, TypeOK
    <2>5. TypeOK'
      BY <2>1, <2>3, <2>4 DEF PollInv, TypeOK
    <2>6. SleepersAreUpToDate'
      BY <2>1 DEF PollInv, TypeOK, SleepersAreUpToDate
    <2> QED BY <2>5, <2>6 DEF PollInv
  <1> QED BY <1>1, <1>2, <1>3 DEF Handler

\* An answer is given outside of the mutex.
LEMMA PollAnswers ==
  ASSUME PollInv, NEW w \in LongPolls, Answer(w)
  PROVE  PollInv'
  <1>1. pc' = [pc EXCEPT ![w] = "idle"] /\ pc[w] \in {"changed", "unchanged"}
    BY DEF Answer
  <1>2. TypeOK'
    <2>1. pc' \in [LongPolls -> Places] /\ answer' \in [LongPolls -> 0..MaxSize]
      BY <1>1 DEF PollInv, TypeOK, Answer
    <2>2. holders' = {x \in LongPolls : pc'[x] \in {"check", "wait"}}
      BY <1>1 DEF PollInv, TypeOK, Answer
    <2> QED BY <2>1, <2>2 DEF PollInv, TypeOK, Answer
  <1>3. SleepersAreUpToDate'
    BY <1>1 DEF PollInv, TypeOK, SleepersAreUpToDate, Answer
  <1> QED BY <1>2, <1>3 DEF PollInv

\* A context that is done wakes sleepers and touches nothing that the mutex guards.
LEMMA PollExpires ==
  ASSUME PollInv, NEW w \in LongPolls, Expire(w) \/ WakeOnExpiry(w) \/ WatchReturned(w)
  PROVE  PollInv'
  <1>1. CASE WakeOnExpiry(w)
    <2>1. /\ pc' \in [LongPolls -> Places]
          /\ \A x \in LongPolls : pc'[x] = pc[x] \/ (pc[x] = "asleep" /\ pc'[x] = "woken")
      BY <1>1 DEF PollInv, TypeOK, WakeOnExpiry, Woken
    <2>2. TypeOK'
      <3>1. holders' = {x \in LongPolls : pc'[x] \in {"check", "wait"}}
        BY <1>1, <2>1 DEF PollInv, TypeOK, WakeOnExpiry
      <3> QED BY <1>1, <2>1, <3>1 DEF PollInv, TypeOK, WakeOnExpiry
    <2>3. SleepersAreUpToDate'
      BY <1>1, <2>1 DEF PollInv, SleepersAreUpToDate, WakeOnExpiry
    <2> QED BY <2>2, <2>3 DEF PollInv
  <1>2. CASE Expire(w) \/ WatchReturned(w)
    BY <1>2 DEF PollInv, TypeOK, SleepersAreUpToDate, Expire, WatchReturned
  <1> QED BY <1>1, <1>2

\* Every step keeps the invariant.
LEMMA PollInvNext ==
  ASSUME PollInv, [PollNext]_pollVars
  PROVE  PollInv'
  <1>1. CASE UNCHANGED pollVars
    BY <1>1 DEF pollVars, PollInv, TypeOK, SleepersAreUpToDate
  <1>2. CASE Grow
    BY <1>2, PollGrows
  <1>3. CASE \E w \in LongPolls : Request(w) \/ Handler(w) \/ Answer(w)
    BY <1>3, PollRequests, PollHandles, PollAnswers
  <1>4. CASE \E w \in LongPolls : Expire(w) \/ WakeOnExpiry(w) \/ WatchReturned(w)
    BY <1>4, PollExpires
  <1> QED BY <1>1, <1>2, <1>3, <1>4 DEF PollNext

\* The two together hold in every behaviour.
LEMMA PollInvHolds == PollSpec => []PollInv
  BY PollInvInit, PollInvNext, PTL DEF PollSpec

\* At most one poll is between its Lock and its Unlock or Wait (waitSizeNot).
THEOREM OneHoldsTheMutex == PollSpec => []TypeOK
  <1>1. PollInv => TypeOK
    BY DEF PollInv
  <1> QED BY <1>1, PollInvHolds, PTL

\* No poll sleeps through a growth of the log, for any number of polls: the size is
\* looked at, and cond.Wait entered, under the mutex that Log holds when it broadcasts.
THEOREM SleepersUpToDate == PollSpec => []SleepersAreUpToDate
  <1>1. PollInv => SleepersAreUpToDate
    BY DEF PollInv
  <1> QED BY <1>1, PollInvHolds, PTL
=============================================================================
