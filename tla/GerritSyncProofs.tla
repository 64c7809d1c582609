-------------------------- MODULE GerritSyncProofs --------------------------
(***************************************************************************)
(* Proofs about GerritSync, for any refs, any graph of commits, any pushes *)
(* that a server makes and any number of failures and crashes: of the types, *)
(* and of each of the invariants that the runs check.                      *)
(*                                                                         *)
(* PInv.  When the refs of a batch are logged nothing is needed, so the    *)
(* commits indexed are closed under parents; they have the hashes of the   *)
(* batch, which were needed when it was fetched, and so their histories.  The *)
(* log is at most the pending mutation behind: what the leader has indexed *)
(* the log has, or the pending mutation has, and then that one has no refs. *)
(*                                                                         *)
(* CInv.  A meta history grows on the server, and reaches the listing, the *)
(* leader and the log in that order.  It has no merges, so of the commits  *)
(* that set a status one is the newest, and a longer history that sets none *)
(* extends one that sets none; so looking at a change again after each     *)
(* mutation gives what looking at it once, at the end of the log, gives.   *)
(*                                                                         *)
(* UInv.  The patch sets that a meta history announces are on the server; a *)
(* listing has them or they are indexed; and they are before the meta ref in *)
(* it, so a batch that ends between them has logged them.                  *)
(***************************************************************************)
EXTENDS GerritSync, FiniteSetTheorems, WellFoundedInduction, TLAPS

\* The commit that processing a mutation adds.
Parsed(c) == IF c \in Commit \ Unparseable THEN {c} ELSE {}

\* How far the log may be behind the leader, and what the mutation on its way
\* to the log may say.
LogLags ==
  /\ pending = None => mem.indexed = stored.indexed
  /\ pending # None =>
       /\ mem.indexed = stored.indexed \union Parsed(pending.commit)
       /\ pending.commit # None => pending.commit \in scratch
       /\ \A n \in Name : pending.refs[n] # None => Ancestors[pending.refs[n]] \subseteq stored.indexed

\* While syncCommits works for a batch, its hashes are indexed or needed.
WalkHasBatch == pc = "walk" => Wanted \subseteq mem.indexed \union mem.need

\* What noteDirtyCL asks of a change.
DirtyHasMeta(corp) == \A n \in corp.dirty : corp.cl[n].meta # None

PInv ==
  /\ TypeOK /\ MissingIsNeeded /\ RefsFollowCommits
  /\ DirtyHasMeta(mem) /\ DirtyHasMeta(stored)
  /\ Closed(scratch) /\ LogLags /\ WalkHasBatch

-----------------------------------------------------------------------------
\* Ancestors[c] is the least closed set with c.
LEMMA AncestorsAreClosed ==
  ASSUME NEW c \in Commit
  PROVE  /\ Ancestors[c] \in SUBSET Commit
         /\ c \in Ancestors[c]
         /\ Closed(Ancestors[c])
         /\ \A S \in SUBSET Commit : c \in S /\ Closed(S) => Ancestors[c] \subseteq S
  <1>1. Ancestors[c] \in SUBSET Commit /\ c \in Ancestors[c]
    BY DEF Ancestors
  <1>2. ASSUME NEW S \in SUBSET Commit, c \in S, Closed(S) PROVE Ancestors[c] \subseteq S
    BY <1>2 DEF Ancestors
  <1>3. ASSUME NEW d \in Ancestors[c] PROVE Parents[d] \subseteq Ancestors[c]
    <2>1. d \in Commit /\ Parents[d] \subseteq Commit
      BY <1>1, GerritAssumption
    <2>2. ASSUME NEW S \in SUBSET Commit, c \in S, Closed(S) PROVE Parents[d] \subseteq S
      <3>1. d \in S
        BY <1>2, <2>2
      <3> QED BY <2>2, <3>1 DEF Closed
    <2> QED BY <2>1, <2>2 DEF Ancestors
  <1> QED BY <1>1, <1>2, <1>3 DEF Closed

\* A fetch adds whole histories, so the git directory stays closed.
LEMMA FetchKeepsClosed ==
  ASSUME scratch \in SUBSET Commit, Closed(scratch), NEW hashes \in SUBSET Commit, Fetch(hashes)
  PROVE  /\ scratch' \in SUBSET Commit /\ Closed(scratch')
         /\ scratch \subseteq scratch' /\ hashes \subseteq scratch'
  <1>1. scratch' = scratch \union UNION {Ancestors[c] : c \in hashes}
    BY DEF Fetch
  <1>2. \A c \in hashes :
          Ancestors[c] \in SUBSET Commit /\ c \in Ancestors[c] /\ Closed(Ancestors[c])
    BY AncestorsAreClosed
  <1>3. scratch' \in SUBSET Commit /\ scratch \subseteq scratch' /\ hashes \subseteq scratch'
    BY <1>1, <1>2
  <1>4. Closed(scratch')
    BY <1>1, <1>2 DEF Closed
  <1> QED BY <1>3, <1>4

\* A nonempty set of refs has a last one: those after a ref are more than those
\* after a later one.
LEMMA LastIsThere ==
  ASSUME NEW names \in SUBSET Name, names # {}
  PROVE  LastOf(names) \in names
  <1> DEFINE After(r) == {k \in names : Position[k] > Position[r]}
             T == {After(r) : r \in names}
  <1>1. IsFiniteSet(names)
    BY GerritAssumption, FS_Subset
  <1>2. T \subseteq FiniteSubsetsOf(names) /\ T # {}
    <2>1. T \subseteq SUBSET names /\ T # {}
      OBVIOUS
    <2> HIDE DEF T
    <2> QED BY <1>1, <2>1, FS_FiniteSubsetsOfFinite
  <1>3. PICK s \in T : \A y \in T : ~ (<<y, s>> \in StrictSubsetOrdering(names))
    <2> HIDE DEF T
    <2> QED BY <1>2, FS_StrictSubsetOrderingWellFounded, WFMin
  <1>4. PICK r \in names : s = After(r)
    BY <1>3
  <1>5. ASSUME NEW k \in names, Position[k] > Position[r] PROVE FALSE
    <2>1. Position[k] \in Nat /\ Position[r] \in Nat /\ \A j \in names : Position[j] \in Nat
      BY GerritAssumption
    <2>2. After(k) \subseteq After(r) /\ k \in After(r) /\ k \notin After(k)
      BY <1>5, <2>1
    <2>3. <<After(k), s>> \in StrictSubsetOrdering(names)
      BY <1>4, <2>2 DEF StrictSubsetOrdering
    <2> QED BY <1>3, <2>3
  <1>6. \A k \in names : Position[k] <= Position[r]
    BY <1>5, GerritAssumption
  <1> HIDE DEF T
  <1> QED BY <1>6 DEF LastOf

-----------------------------------------------------------------------------
\* What the parts of a corpus are after each operation.
LEMMA ProcessCommitParts ==
  ASSUME NEW corp \in Corpus, NEW c \in Hash
  PROVE  LET D == ProcessCommit(corp, c) IN
         /\ D \in Corpus
         /\ D.indexed = corp.indexed \union Parsed(c)
         /\ D.need = IF Parsed(c) = {} THEN corp.need
                     ELSE (corp.need \ {c}) \union (Parents[c] \ D.indexed)
         /\ D.ref = corp.ref /\ D.remote = corp.remote /\ D.cl = corp.cl /\ D.dirty = corp.dirty
  <1>1. CASE c = None
    BY <1>1, GerritAssumption DEF ProcessCommit, Parsed
  <1>2. CASE c \in Unparseable
    <2>1. c \in Commit /\ Parents[c] \in SUBSET Commit /\ c # None
      BY <1>2, GerritAssumption
    <2>2. ProcessCommit(corp, c) = [corp EXCEPT !.known = @ \union Parents[c]]
      BY <1>2, <2>1 DEF ProcessCommit
    <2> QED BY <1>2, <2>1, <2>2 DEF Corpus, Parsed
  <1>3. CASE c \in Commit \ Unparseable
    <2> DEFINE known == corp.known \union Parents[c] \union {c}
               indexed == corp.indexed \union {c}
               need == (corp.need \ {c}) \union (Parents[c] \ indexed)
    <2>1. Parents[c] \in SUBSET Commit /\ c # None
      BY <1>3, GerritAssumption
    <2>2. /\ known \in SUBSET Commit /\ indexed \in SUBSET Commit /\ need \in SUBSET Commit
      BY <1>3, <2>1 DEF Corpus
    <2>3. ProcessCommit(corp, c) =
            [corp EXCEPT !.known = known, !.indexed = indexed, !.need = need]
      BY <1>3, <2>1 DEF ProcessCommit, Corpus
    <2> HIDE DEF known, indexed, need
    <2>4. /\ ProcessCommit(corp, c) \in Corpus
          /\ ProcessCommit(corp, c).indexed = indexed
          /\ ProcessCommit(corp, c).need = need
          /\ ProcessCommit(corp, c).ref = corp.ref
          /\ ProcessCommit(corp, c).remote = corp.remote
          /\ ProcessCommit(corp, c).cl = corp.cl
          /\ ProcessCommit(corp, c).dirty = corp.dirty
      BY <2>2, <2>3 DEF Corpus
    <2>5. Parsed(c) = {c}
      BY <1>3 DEF Parsed
    <2> QED BY <2>4, <2>5 DEF indexed, need
  <1> QED BY <1>1, <1>2, <1>3 DEF Hash

LEMMA ProcessDeletionsParts ==
  ASSUME NEW corp \in Corpus, NEW deleted \in SUBSET Branch
  PROVE  LET D == ProcessDeletions(corp, deleted) IN
         /\ D \in Corpus
         /\ D.indexed = corp.indexed /\ D.need = corp.need
         /\ D.remote = corp.remote /\ D.cl = corp.cl /\ D.dirty = corp.dirty
         /\ \A b \in Branch : D.ref[b] = IF b \in deleted THEN None ELSE corp.ref[b]
  <1> DEFINE ref == [b \in Branch |-> IF b \in deleted THEN None ELSE corp.ref[b]]
  <1>1. ref \in [Branch -> Hash]
    BY DEF Corpus, Hash
  <1>2. ProcessDeletions(corp, deleted) = [corp EXCEPT !.ref = ref]
    BY DEF ProcessDeletions, Corpus
  <1>3. \A b \in Branch : ref[b] = IF b \in deleted THEN None ELSE corp.ref[b]
    OBVIOUS
  <1> HIDE DEF ref
  <1> QED BY <1>1, <1>2, <1>3 DEF Corpus

LEMMA UpdateChangeType ==
  ASSUME NEW corp \in Corpus, NEW refs \in [Name -> Hash], NEW n \in CL
  PROVE  LET D == UpdateChange(corp, refs, n) IN
         /\ D \in Change
         /\ D.meta = IF <<n, 0>> \in Effective(corp, refs) THEN refs[<<n, 0>>] ELSE corp.cl[n].meta
  <1> DEFINE names == Effective(corp, refs)
             sets == PatchSetsIn(names, n)
             last == LastOf(sets)
             meta == IF <<n, 0>> \in names THEN refs[<<n, 0>>] ELSE corp.cl[n].meta
             commit == IF sets # {} THEN refs[last] ELSE corp.cl[n].commit
             version == IF sets # {} THEN last[2] ELSE corp.cl[n].version
  <1>1. corp.cl[n] \in Change
    BY DEF Corpus
  <1>2. names \subseteq Name
    BY DEF Effective
  <1>3. sets \subseteq ChangeRef /\ sets \subseteq Name /\ \A r \in sets : r[2] # 0
    BY <1>2 DEF PatchSetsIn
  <1>4. sets # {} => last \in sets
    <2> HIDE DEF sets
    <2> QED BY <1>3, LastIsThere
  <1>5. \A r \in ChangeRef : r[2] \in PatchSet \union {0}
    BY DEF ChangeRef
  <1> HIDE DEF sets, names, last
  <1>6. meta \in Hash /\ commit \in Hash /\ version \in PatchSet \union {0}
    BY <1>1, <1>2, <1>3, <1>4, <1>5 DEF Change
  <1>7. UpdateChange(corp, refs, n) =
          [corp.cl[n] EXCEPT !.meta = meta, !.commit = commit, !.version = version]
    BY <1>1 DEF UpdateChange, Change, names, sets, last
  <1>8. meta = IF <<n, 0>> \in Effective(corp, refs) THEN refs[<<n, 0>>] ELSE corp.cl[n].meta
    BY DEF names
  <1> HIDE DEF meta, commit, version
  <1> QED BY <1>1, <1>6, <1>7, <1>8 DEF Change

LEMMA ProcessRefsParts ==
  ASSUME NEW corp \in Corpus, NEW refs \in [Name -> Hash]
  PROVE  LET D == ProcessRefs(corp, refs) IN
         /\ D \in Corpus
         /\ D.indexed = corp.indexed /\ D.need = corp.need
         /\ \A b \in Branch : D.ref[b] = corp.ref[b] \/ (refs[b] # None /\ D.ref[b] = refs[b])
         /\ \A r \in ChangeRef :
              D.remote[r] = corp.remote[r] \/ (refs[r] # None /\ D.remote[r] = refs[r])
         /\ DirtyHasMeta(corp) => DirtyHasMeta(D)
  <1> DEFINE names == Effective(corp, refs)
             ref == [b \in Branch |-> IF b \in names THEN refs[b] ELSE corp.ref[b]]
             remote == [r \in ChangeRef |-> IF r \in names THEN refs[r] ELSE corp.remote[r]]
             cl == [n \in CL |-> UpdateChange(corp, refs, n)]
             dirty == corp.dirty \union {n \in CL : <<n, 0>> \in names}
             referencing == corp.referencing \union References(names, refs)
  <1>1. names \subseteq Name /\ \A n \in names : refs[n] \in Commit /\ refs[n] # None
    BY GerritAssumption DEF Effective, Corpus
  <1>2. ProcessRefs(corp, refs) =
          [corp EXCEPT !.ref = ref, !.remote = remote, !.cl = cl, !.dirty = dirty,
                       !.referencing = referencing]
    BY DEF ProcessRefs, Corpus
  <1>3. References(names, refs) \in SUBSET (Issue \X CL)
    <2>1. ASSUME NEW r \in names \intersect ChangeRef PROVE Issues[refs[r]] \X {r[1]} \subseteq Issue \X CL
      <3>1. r[1] \in CL
        BY DEF ChangeRef
      <3>2. Issues[refs[r]] \in SUBSET Issue
        BY <1>1, GerritAssumption
      <3> QED BY <3>1, <3>2
    <2> QED BY <2>1 DEF References
  <1> HIDE DEF names
  <1>4. ref \in [Branch -> Hash] /\ remote \in [ChangeRef -> Hash]
    BY <1>1 DEF Corpus, Name
  <1>5. cl \in [CL -> Change]
    BY UpdateChangeType
  <1>6. dirty \in SUBSET CL /\ referencing \in SUBSET (Issue \X CL)
    BY <1>3 DEF Corpus
  <1>7. /\ \A b \in Branch : ref[b] = corp.ref[b] \/ (refs[b] # None /\ ref[b] = refs[b])
        /\ \A r \in ChangeRef : remote[r] = corp.remote[r] \/ (refs[r] # None /\ remote[r] = refs[r])
    BY <1>1
  <1>8. ASSUME DirtyHasMeta(corp), NEW n \in dirty PROVE cl[n].meta # None
    <2>1. n \in CL
      BY <1>6
    <2>2. cl[n].meta = IF <<n, 0>> \in names THEN refs[<<n, 0>>] ELSE corp.cl[n].meta
      BY <2>1, UpdateChangeType DEF names
    <2>3. CASE <<n, 0>> \in names
      BY <1>1, <2>2, <2>3
    <2>4. CASE <<n, 0>> \notin names
      BY <1>8, <2>1, <2>2, <2>4 DEF DirtyHasMeta
    <2> QED BY <2>3, <2>4
  <1> HIDE DEF ref, remote, cl, dirty, referencing
  <1>9. LET D == ProcessRefs(corp, refs) IN
        D \in Corpus /\ D.dirty = dirty /\ D.cl = cl /\ D.ref = ref /\ D.remote = remote
        /\ D.indexed = corp.indexed /\ D.need = corp.need
    BY <1>2, <1>4, <1>5, <1>6 DEF Corpus
  <1>10. DirtyHasMeta(corp) => DirtyHasMeta(ProcessRefs(corp, refs))
    BY <1>8, <1>9 DEF DirtyHasMeta
  <1> QED BY <1>7, <1>9, <1>10

\* processMutation as a whole: it adds its commit, and a ref keeps its value,
\* loses it or takes that of the mutation.
LEMMA ProcessParts ==
  ASSUME NEW corp \in Corpus, NEW m \in Mutation
  PROVE  LET D == Process(corp, m) IN
         /\ D \in Corpus
         /\ D.indexed = corp.indexed \union Parsed(m.commit)
         /\ D.need = IF Parsed(m.commit) = {} THEN corp.need
                     ELSE (corp.need \ {m.commit}) \union (Parents[m.commit] \ D.indexed)
         /\ \A n \in Name : \/ Current(D, n) = Current(corp, n)
                            \/ Current(D, n) = None
                            \/ m.refs[n] # None /\ Current(D, n) = m.refs[n]
         /\ DirtyHasMeta(corp) => DirtyHasMeta(D)
  <1> DEFINE A == ProcessCommit(corp, m.commit)
             B == ProcessDeletions(A, m.deleted)
             D == ProcessRefs(B, m.refs)
  <1>1. m.commit \in Hash /\ m.deleted \in SUBSET Branch /\ m.refs \in [Name -> Hash]
    BY DEF Mutation
  <1>2. /\ A \in Corpus
        /\ A.indexed = corp.indexed \union Parsed(m.commit)
        /\ A.need = IF Parsed(m.commit) = {} THEN corp.need
                    ELSE (corp.need \ {m.commit}) \union (Parents[m.commit] \ A.indexed)
        /\ A.ref = corp.ref /\ A.remote = corp.remote
        /\ A.cl = corp.cl /\ A.dirty = corp.dirty
    BY <1>1, ProcessCommitParts
  <1>3. Process(corp, m) = D
    BY DEF Process
  <1> HIDE DEF A
  <1>4. /\ B \in Corpus /\ B.indexed = A.indexed /\ B.need = A.need
        /\ B.remote = A.remote /\ B.cl = A.cl /\ B.dirty = A.dirty
        /\ \A b \in Branch : B.ref[b] = IF b \in m.deleted THEN None ELSE A.ref[b]
    BY <1>1, <1>2, ProcessDeletionsParts
  <1> HIDE DEF B
  <1>5. /\ D \in Corpus /\ D.indexed = B.indexed /\ D.need = B.need
        /\ \A b \in Branch : D.ref[b] = B.ref[b] \/ (m.refs[b] # None /\ D.ref[b] = m.refs[b])
        /\ \A r \in ChangeRef :
             D.remote[r] = B.remote[r] \/ (m.refs[r] # None /\ D.remote[r] = m.refs[r])
        /\ DirtyHasMeta(B) => DirtyHasMeta(D)
    BY <1>1, <1>4, ProcessRefsParts
  <1> HIDE DEF D
  <1>6. ASSUME NEW n \in Name
        PROVE  \/ Current(D, n) = Current(corp, n)
               \/ Current(D, n) = None
               \/ m.refs[n] # None /\ Current(D, n) = m.refs[n]
    BY <1>2, <1>4, <1>5, <1>6 DEF Current, Name
  <1>7. DirtyHasMeta(corp) => DirtyHasMeta(D)
    BY <1>2, <1>4, <1>5 DEF DirtyHasMeta
  <1> QED BY <1>2, <1>3, <1>4, <1>5, <1>6, <1>7

LEMMA WalkedType ==
  ASSUME NEW corp \in Corpus, NEW n \in CL, corp.cl[n].meta # None
  PROVE  FinishChange(corp, n) \in Change
  <1> DEFINE walked == Walked(corp, corp.cl[n].meta)
             found == NewestStatus(walked)
             status == IF found # NoStatus THEN found
                       ELSE IF corp.cl[n].status = NoStatus THEN "new" ELSE corp.cl[n].status
             private == corp.cl[n].private \/ walked \intersect Private # {}
             labels == corp.cl[n].labels + Cardinality(walked \intersect Labelled)
  <1>1. corp.cl[n] \in Change
    BY DEF Corpus
  <1>2. corp.cl[n].meta \in Commit
    BY <1>1 DEF Change, Hash
  <1>3. walked \in SUBSET Commit
    BY <1>2, AncestorsAreClosed DEF Walked
  <1> HIDE DEF walked
  <1>4. found \in Status \union {NoStatus}
    <2> DEFINE setting == {c \in walked : StatusOf[c] # NoStatus}
               newest == {c \in setting : setting \subseteq Ancestors[c]}
    <2>1. newest # {} => (CHOOSE c \in newest : TRUE) \in newest
      OBVIOUS
    <2>2. newest \subseteq Commit
      BY <1>3
    <2>3. found = IF newest = {} THEN NoStatus ELSE StatusOf[CHOOSE c \in newest : TRUE]
      BY DEF NewestStatus
    <2> HIDE DEF newest
    <2> QED BY <2>1, <2>2, <2>3, GerritAssumption
  <1>5. Cardinality(walked \intersect Labelled) \in Nat
    <2>1. IsFiniteSet(walked \intersect Labelled)
      BY <1>3, GerritAssumption, FS_Subset
    <2> QED BY <2>1, FS_CardinalityType
  <1> HIDE DEF found
  <1>6. status \in Status \union {NoStatus} /\ private \in BOOLEAN /\ labels \in Nat
    BY <1>1, <1>4, <1>5, GerritAssumption DEF Change
  <1>7. FinishChange(corp, n) =
          [corp.cl[n] EXCEPT !.metas = walked, !.status = status, !.private = private,
                             !.labels = labels]
    BY <1>1 DEF FinishChange, Change, walked, found
  <1> HIDE DEF status, private, labels
  <1> QED BY <1>1, <1>3, <1>6, <1>7 DEF Change

\* finishProcessing changes only what is computed of the changes.
LEMMA FinishParts ==
  ASSUME NEW corp \in Corpus, DirtyHasMeta(corp)
  PROVE  LET D == Finish(corp) IN
         /\ D \in Corpus
         /\ D.indexed = corp.indexed /\ D.need = corp.need
         /\ D.ref = corp.ref /\ D.remote = corp.remote
         /\ D.dirty = {}
  <1> DEFINE cl == [n \in CL |-> IF n \in corp.dirty THEN FinishChange(corp, n) ELSE corp.cl[n]]
  <1>1. ASSUME NEW n \in CL PROVE cl[n] \in Change
    <2>1. CASE n \in corp.dirty
      BY <2>1, WalkedType DEF DirtyHasMeta
    <2>2. CASE n \notin corp.dirty
      BY <2>2 DEF Corpus
    <2> QED BY <2>1, <2>2
  <1>2. Finish(corp) = [corp EXCEPT !.cl = cl, !.dirty = {}]
    BY DEF Finish
  <1>3. cl \in [CL -> Change]
    BY <1>1
  <1> HIDE DEF cl
  <1> QED BY <1>2, <1>3 DEF Corpus

-----------------------------------------------------------------------------
\* A corpus that keeps track of its commits does so after it has processed one
\* that was read from the git directory.
LEMMA CommitKeepsTrack ==
  ASSUME NEW corp \in Corpus, NEW D \in Corpus, NEW c \in Hash,
         scratch \in SUBSET Commit, Closed(scratch), KeepsTrack(corp),
         c # None => c \in scratch,
         D.indexed = corp.indexed \union Parsed(c),
         D.need = IF Parsed(c) = {} THEN corp.need
                  ELSE (corp.need \ {c}) \union (Parents[c] \ D.indexed)
  PROVE  KeepsTrack(D)
  <1>1. CASE Parsed(c) = {}
    BY <1>1 DEF KeepsTrack
  <1>2. CASE Parsed(c) # {}
    <2>1. c \in Commit /\ Parsed(c) = {c} /\ c \in scratch
      BY <1>2, GerritAssumption DEF Parsed
    <2>2. Parents[c] \subseteq scratch
      BY <2>1 DEF Closed
    <2>3. /\ D.indexed = corp.indexed \union {c}
          /\ D.need = (corp.need \ {c}) \union (Parents[c] \ D.indexed)
      BY <1>2, <2>1
    <2>4. D.need \intersect D.indexed = {}
      BY <2>3 DEF KeepsTrack
    <2>5. \A d \in D.indexed : Parents[d] \subseteq D.indexed \union D.need
      BY <2>3 DEF KeepsTrack
    <2>6. D.need \subseteq scratch
      BY <2>2, <2>3 DEF KeepsTrack
    <2> QED BY <2>4, <2>5, <2>6 DEF KeepsTrack
  <1> QED BY <1>1, <1>2

\* The refs of a corpus stay whole, if the mutation's are.
LEMMA ProcessKeepsWhole ==
  ASSUME NEW corp \in Corpus, NEW m \in Mutation, RefsAreWhole(corp),
         \A n \in Name : m.refs[n] # None => Ancestors[m.refs[n]] \subseteq corp.indexed
  PROVE  RefsAreWhole(Process(corp, m))
  <1> DEFINE D == Process(corp, m)
  <1>1. /\ D.indexed = corp.indexed \union Parsed(m.commit)
        /\ \A n \in Name : \/ Current(D, n) = Current(corp, n)
                           \/ Current(D, n) = None
                           \/ m.refs[n] # None /\ Current(D, n) = m.refs[n]
    BY ProcessParts
  <1> HIDE DEF D
  <1>2. RefsAreWhole(D)
    BY <1>1 DEF RefsAreWhole
  <1> QED BY <1>2 DEF D

\* What finishProcessing leaves as it was.
LEMMA FinishKeeps ==
  ASSUME NEW corp \in Corpus, DirtyHasMeta(corp)
  PROVE  /\ KeepsTrack(corp) => KeepsTrack(Finish(corp))
         /\ RefsAreWhole(corp) => RefsAreWhole(Finish(corp))
         /\ DirtyHasMeta(Finish(corp))
  BY FinishParts DEF KeepsTrack, RefsAreWhole, Current, DirtyHasMeta
-----------------------------------------------------------------------------
LEMMA PInvInit ==
  ASSUME Init
  PROVE  PInv
  <1>1. NoRefs \in [Name -> Hash] /\ \A n \in Name : NoRefs[n] = None
    BY DEF NoRefs, Hash
  <1>2. NoChange \in Change
    BY DEF NoChange, Change, Hash
  <1>3. EmptyCorpus \in Corpus
    BY <1>2 DEF EmptyCorpus, Corpus, Hash
  <1>4. TypeOK
    <2>1. \A b \in Untracked : NoRefs[b] = None
      BY <1>1, GerritAssumption DEF Name
    <2> QED BY <1>1, <1>3, <2>1 DEF Init, TypeOK
  <1>5. KeepsTrack(EmptyCorpus) /\ DirtyHasMeta(EmptyCorpus)
    BY DEF EmptyCorpus, KeepsTrack, DirtyHasMeta
  <1>6. RefsAreWhole(EmptyCorpus)
    BY DEF EmptyCorpus, RefsAreWhole, Current, Name
  <1>7. Closed(scratch) /\ LogLags /\ WalkHasBatch
    BY DEF Init, Closed, LogLags, WalkHasBatch
  <1> QED BY <1>4, <1>5, <1>6, <1>7 DEF Init, PInv, MissingIsNeeded, RefsFollowCommits

\* A step that leaves the corpora and the pending mutation alone.
LEMMA QuietStep ==
  ASSUME PInv, UNCHANGED <<mem, stored, pending>>, scratch \subseteq scratch',
         TypeOK', Closed(scratch)', WalkHasBatch'
  PROVE  PInv'
  <1>1. MissingIsNeeded'
    BY DEF PInv, MissingIsNeeded, KeepsTrack
  <1>2. RefsFollowCommits'
    BY DEF PInv, RefsFollowCommits, RefsAreWhole, Current
  <1>3. LogLags'
    BY DEF PInv, LogLags
  <1>4. DirtyHasMeta(mem)' /\ DirtyHasMeta(stored)'
    BY DEF PInv, DirtyHasMeta
  <1> QED BY <1>1, <1>2, <1>3, <1>4 DEF PInv

\* A mutation is processed whose commit was read from the git directory and
\* whose refs' histories are indexed.
LEMMA AddStep ==
  ASSUME PInv, pending = None, NEW m \in Mutation, AddMutation(m),
         UNCHANGED <<scratch, stored>>,
         m.commit # None => m.commit \in scratch,
         \A n \in Name : m.refs[n] # None => Ancestors[m.refs[n]] \subseteq mem.indexed
  PROVE  /\ mem' \in Corpus
         /\ mem'.indexed = mem.indexed \union Parsed(m.commit)
         /\ mem'.need = IF Parsed(m.commit) = {} THEN mem.need
                        ELSE (mem.need \ {m.commit}) \union (Parents[m.commit] \ mem'.indexed)
         /\ MissingIsNeeded' /\ RefsFollowCommits' /\ LogLags'
         /\ DirtyHasMeta(mem)' /\ DirtyHasMeta(stored)'
  <1> DEFINE P == Process(mem, m)
  <1>1. mem \in Corpus /\ m.commit \in Hash /\ scratch \in SUBSET Commit /\ pending' = m
    BY DEF PInv, TypeOK, Mutation, AddMutation
  <1>2. /\ P \in Corpus
        /\ P.indexed = mem.indexed \union Parsed(m.commit)
        /\ P.need = IF Parsed(m.commit) = {} THEN mem.need
                    ELSE (mem.need \ {m.commit}) \union (Parents[m.commit] \ P.indexed)
        /\ DirtyHasMeta(P)
    BY <1>1, ProcessParts DEF PInv
  <1>3. RefsAreWhole(P)
    BY <1>1, ProcessKeepsWhole DEF PInv, RefsFollowCommits
  <1>4. mem' = Finish(P)
    BY DEF AddMutation
  <1> HIDE DEF P
  <1>5. KeepsTrack(P)
    BY <1>1, <1>2, CommitKeepsTrack DEF PInv, MissingIsNeeded
  <1>6. mem' \in Corpus /\ mem'.indexed = P.indexed /\ mem'.need = P.need
    BY <1>2, <1>4, FinishParts
  <1>7. KeepsTrack(mem)' /\ RefsAreWhole(mem)' /\ DirtyHasMeta(mem)'
    <2>1. KeepsTrack(Finish(P)) /\ RefsAreWhole(Finish(P)) /\ DirtyHasMeta(Finish(P))
      BY <1>2, <1>3, <1>5, FinishKeeps
    <2> QED BY <1>4, <2>1 DEF KeepsTrack, RefsAreWhole, Current, DirtyHasMeta
  <1>8. KeepsTrack(stored)' /\ RefsAreWhole(stored)' /\ DirtyHasMeta(stored)'
    BY DEF PInv, MissingIsNeeded, RefsFollowCommits, KeepsTrack, RefsAreWhole, Current, DirtyHasMeta
  <1>9. LogLags'
    <2>1. mem.indexed = stored.indexed
      BY DEF PInv, LogLags
    <2>2. m # None
      BY NoneAssumption
    <2> QED BY <1>1, <1>2, <1>6, <2>1, <2>2 DEF LogLags
  <1> QED BY <1>2, <1>6, <1>7, <1>8, <1>9 DEF MissingIsNeeded, RefsFollowCommits

-----------------------------------------------------------------------------
\* The refs of a batch are ready when nothing is needed any more.
LEMMA LogRefsStep ==
  ASSUME PInv, LogRefs
  PROVE  PInv'
  <1> DEFINE refs == [n \in Name |-> IF n \in Batch THEN listed[n] ELSE None]
             m == RefsMutation(refs)
  <1>1. TypeOK
    BY DEF PInv
  <1>2. refs \in [Name -> Hash]
    BY <1>1 DEF TypeOK, Hash
  <1>3. m \in Mutation /\ m.commit = None /\ m.refs = refs
    BY <1>2 DEF RefsMutation, Mutation, Hash
  <1>4. ASSUME NEW n \in Name, refs[n] # None PROVE Ancestors[refs[n]] \subseteq mem.indexed
    <2>1. n \in Batch /\ refs[n] = listed[n]
      BY <1>4
    <2>2. refs[n] \in Commit
      BY <1>2, <1>4 DEF Hash
    <2>3. refs[n] \in Wanted
      BY <2>1 DEF Wanted
    <2>4. mem.need = {} /\ Wanted \subseteq mem.indexed
      BY DEF PInv, WalkHasBatch, LogRefs, At
    <2>5. mem.indexed \in SUBSET Commit /\ Closed(mem.indexed)
      BY <1>1, <2>4 DEF PInv, MissingIsNeeded, KeepsTrack, Closed, TypeOK, Corpus
    <2> QED BY <2>2, <2>3, <2>4, <2>5, AncestorsAreClosed
  <1>5. /\ mem' \in Corpus
        /\ MissingIsNeeded' /\ RefsFollowCommits' /\ LogLags'
        /\ DirtyHasMeta(mem)' /\ DirtyHasMeta(stored)'
    <2>1. pending = None /\ AddMutation(m) /\ UNCHANGED <<scratch, stored>>
      BY DEF LogRefs, At
    <2> HIDE DEF m, refs
    <2> QED BY <1>3, <1>4, <2>1, AddStep
  <1>6. pending' = m
    BY DEF LogRefs, AddMutation
  <1>7. listed' \in [Name -> Hash] /\ \A b \in Untracked : listed'[b] = None
    BY <1>1, GerritAssumption DEF LogRefs, TypeOK, Hash, Name
  <1>8. TypeOK'
    BY <1>1, <1>3, <1>5, <1>6, <1>7 DEF LogRefs, TypeOK
  <1>9. Closed(scratch)' /\ WalkHasBatch'
    BY DEF PInv, LogRefs, WalkHasBatch, Closed
  <1> QED BY <1>5, <1>8, <1>9 DEF PInv

LEMMA SyncCommitStep ==
  ASSUME PInv, SyncCommit
  PROVE  PInv'
  <1>1. PICK c \in mem.need \intersect scratch : AddMutation(CommitMutation(c))
    BY DEF SyncCommit
  <1> DEFINE m == CommitMutation(c)
  <1>2. TypeOK /\ c \in Commit
    BY DEF PInv, TypeOK, Corpus
  <1>3. m \in Mutation /\ m.commit = c /\ \A n \in Name : m.refs[n] = None
    BY <1>2 DEF CommitMutation, Mutation, Hash, NoRefs
  <1>4. /\ mem' \in Corpus
        /\ mem'.indexed = mem.indexed \union Parsed(c)
        /\ mem'.need = IF Parsed(c) = {} THEN mem.need
                       ELSE (mem.need \ {c}) \union (Parents[c] \ mem'.indexed)
        /\ MissingIsNeeded' /\ RefsFollowCommits' /\ LogLags'
        /\ DirtyHasMeta(mem)' /\ DirtyHasMeta(stored)'
    <2>1. pending = None /\ AddMutation(m) /\ UNCHANGED <<scratch, stored>>
      BY <1>1 DEF SyncCommit, At
    <2> HIDE DEF m
    <2> QED BY <1>1, <1>3, <2>1, AddStep
  <1>5. pending' = m
    BY <1>1 DEF AddMutation
  <1>6. TypeOK'
    BY <1>2, <1>3, <1>4, <1>5 DEF SyncCommit, TypeOK
  <1>7. mem.indexed \union mem.need \subseteq mem'.indexed \union mem'.need
    BY <1>4 DEF Parsed
  <1>8. Wanted' = Wanted /\ pc' = pc
    BY DEF SyncCommit, Wanted, Batch, Left
  <1>9. Closed(scratch)' /\ WalkHasBatch'
    BY <1>7, <1>8 DEF PInv, SyncCommit, WalkHasBatch, Closed
  <1> QED BY <1>4, <1>6, <1>9 DEF PInv

LEMMA ListRefsStep ==
  ASSUME PInv, ListRefs
  PROVE  PInv'
  <1> DEFINE deleted == {b \in Branch : mem.ref[b] # None /\ upstream[b] = None}
             m == DeletionMutation(deleted)
  <1>1. TypeOK
    BY DEF PInv
  <1>2. listed' \in [Name -> Hash] /\ \A b \in Untracked : listed'[b] = None
    BY <1>1, GerritAssumption DEF ListRefs, TypeOK, Hash, Name
  <1>3. Closed(scratch)' /\ WalkHasBatch'
    BY DEF PInv, ListRefs, WalkHasBatch, Closed
  <1>4. CASE deleted = {}
    <2>1. UNCHANGED <<mem, stored, pending, scratch>>
      BY <1>4 DEF ListRefs
    <2>2. TypeOK'
      BY <1>1, <1>2, <2>1 DEF ListRefs, TypeOK
    <2> QED BY <1>3, <2>1, <2>2, QuietStep
  <1>5. CASE deleted # {}
    <2>1. m \in Mutation /\ m.commit = None /\ \A n \in Name : m.refs[n] = None
      BY DEF DeletionMutation, Mutation, Hash, NoRefs
    <2>2. pending = None /\ AddMutation(m) /\ UNCHANGED <<scratch, stored>>
      BY <1>5 DEF ListRefs, At
    <2>3. pending' = m
      BY <2>2 DEF AddMutation
    <2> HIDE DEF m
    <2>4. /\ mem' \in Corpus
          /\ MissingIsNeeded' /\ RefsFollowCommits' /\ LogLags'
          /\ DirtyHasMeta(mem)' /\ DirtyHasMeta(stored)'
      BY <2>1, <2>2, AddStep
    <2>5. TypeOK'
      BY <1>1, <1>2, <2>1, <2>3, <2>4 DEF ListRefs, TypeOK
    <2> QED BY <1>3, <2>4, <2>5 DEF PInv
  <1> QED BY <1>4, <1>5

LEMMA LogStep ==
  ASSUME PInv, Log
  PROVE  PInv'
  <1>1. TypeOK /\ stored \in Corpus /\ pending \in Mutation /\ pending.commit \in Hash
    BY DEF PInv, TypeOK, Log, Mutation
  <1> DEFINE P == Process(stored, pending)
  <1>2. /\ P \in Corpus
        /\ P.indexed = stored.indexed \union Parsed(pending.commit)
        /\ P.need = IF Parsed(pending.commit) = {} THEN stored.need
                    ELSE (stored.need \ {pending.commit}) \union (Parents[pending.commit] \ P.indexed)
        /\ DirtyHasMeta(P)
    BY <1>1, ProcessParts DEF PInv
  <1>3. RefsAreWhole(P)
    BY <1>1, ProcessKeepsWhole DEF PInv, RefsFollowCommits, LogLags, Log
  <1>4. stored' = P
    BY DEF Log
  <1> HIDE DEF P
  <1>5. KeepsTrack(P)
    BY <1>1, <1>2, CommitKeepsTrack DEF PInv, MissingIsNeeded, LogLags, Log, TypeOK
  <1>6. UNCHANGED <<mem, scratch, pc, listed, upstream, faults, crashes>> /\ pending' = None
    BY DEF Log
  <1>7. TypeOK'
    BY <1>1, <1>2, <1>4, <1>6 DEF TypeOK
  <1>8. MissingIsNeeded' /\ RefsFollowCommits' /\ DirtyHasMeta(mem)' /\ DirtyHasMeta(stored)'
    BY <1>2, <1>3, <1>4, <1>5, <1>6
       DEF PInv, MissingIsNeeded, RefsFollowCommits, KeepsTrack, RefsAreWhole, Current, DirtyHasMeta
  <1>9. LogLags'
    BY <1>2, <1>4, <1>6 DEF PInv, LogLags, Log
  <1>10. Closed(scratch)' /\ WalkHasBatch'
    BY <1>6 DEF PInv, Closed, WalkHasBatch, Wanted, Batch, Left
  <1> QED BY <1>7, <1>8, <1>9, <1>10 DEF PInv

LEMMA FetchBatchStep ==
  ASSUME PInv, FetchBatch
  PROVE  PInv'
  <1> DEFINE need == mem.need \union (Wanted \ mem.indexed)
  <1>1. TypeOK /\ mem \in Corpus /\ scratch \in SUBSET Commit /\ Closed(scratch)
    BY DEF PInv, TypeOK
  <1>2. Wanted \in SUBSET Commit
    BY <1>1 DEF TypeOK, Hash, Wanted, Batch, Left
  <1>3. need \in SUBSET Commit
    BY <1>1, <1>2 DEF Corpus
  <1>4. mem' = [mem EXCEPT !.need = need]
    BY DEF FetchBatch
  <1>5. scratch' \in SUBSET Commit /\ Closed(scratch') /\ scratch \subseteq scratch' /\ Wanted \subseteq scratch'
    BY <1>1, <1>2, FetchKeepsClosed DEF FetchBatch
  <1>6. need \intersect mem.indexed = {} /\ mem.need \subseteq need /\ need \subseteq mem.need \union Wanted
    BY DEF PInv, MissingIsNeeded, KeepsTrack
  <1>7. Wanted \subseteq mem.indexed \union need
    OBVIOUS
  <1> HIDE DEF need
  <1>8. /\ mem' \in Corpus /\ mem'.need = need
        /\ mem'.indexed = mem.indexed /\ mem'.ref = mem.ref /\ mem'.remote = mem.remote
        /\ mem'.cl = mem.cl /\ mem'.dirty = mem.dirty
    BY <1>1, <1>3, <1>4 DEF Corpus
  <1>9. UNCHANGED <<stored, pending, listed, upstream, faults, crashes>> /\ pc' = "walk"
    BY DEF FetchBatch
  <1>10. TypeOK'
    BY <1>1, <1>5, <1>8, <1>9 DEF TypeOK
  <1>11. MissingIsNeeded'
    BY <1>5, <1>6, <1>8, <1>9 DEF PInv, MissingIsNeeded, KeepsTrack
  <1>12. RefsFollowCommits' /\ DirtyHasMeta(mem)' /\ DirtyHasMeta(stored)'
    BY <1>8, <1>9 DEF PInv, RefsFollowCommits, RefsAreWhole, Current, DirtyHasMeta
  <1>13. LogLags'
    BY <1>5, <1>8, <1>9 DEF PInv, LogLags
  <1>14. Closed(scratch)' /\ WalkHasBatch'
    <2>1. Wanted' = Wanted
      BY <1>9 DEF Wanted, Batch, Left
    <2> QED BY <1>5, <1>7, <1>8, <2>1 DEF Closed, WalkHasBatch
  <1> QED BY <1>10, <1>11, <1>12, <1>13, <1>14 DEF PInv

LEMMA CrashStep ==
  ASSUME PInv, Crash
  PROVE  PInv'
  <1>1. TypeOK /\ stored \in Corpus /\ DirtyHasMeta(stored)
    BY DEF PInv, TypeOK
  <1> DEFINE F == Finish(stored)
  <1>2. F \in Corpus /\ F.indexed = stored.indexed
    BY <1>1, FinishParts
  <1>3. KeepsTrack(F) /\ RefsAreWhole(F) /\ DirtyHasMeta(F)
    BY <1>1, FinishKeeps DEF PInv, MissingIsNeeded, RefsFollowCommits
  <1>4. mem' = F /\ pending' = None /\ UNCHANGED <<upstream, scratch, stored, faults>>
    BY DEF Crash
  <1> HIDE DEF F
  <1>5. listed' \in [Name -> Hash] /\ \A b \in Untracked : listed'[b] = None
    BY GerritAssumption DEF Crash, NoRefs, Hash, Name
  <1>6. TypeOK'
    BY <1>1, <1>2, <1>4, <1>5 DEF Crash, TypeOK
  <1>7. MissingIsNeeded' /\ RefsFollowCommits' /\ DirtyHasMeta(mem)' /\ DirtyHasMeta(stored)'
    BY <1>3, <1>4 DEF PInv, MissingIsNeeded, RefsFollowCommits, KeepsTrack, RefsAreWhole, Current, DirtyHasMeta
  <1>8. LogLags'
    BY <1>2, <1>4 DEF LogLags
  <1>9. Closed(scratch)' /\ WalkHasBatch'
    BY <1>4 DEF PInv, Crash, Closed, WalkHasBatch
  <1> QED BY <1>6, <1>7, <1>8, <1>9 DEF PInv

\* Every step keeps PInv.
LEMMA PInvNext ==
  ASSUME PInv, [Next]_vars
  PROVE  PInv'
  <1>1. TypeOK /\ scratch \in SUBSET Commit /\ mem \in Corpus /\ Closed(scratch)
    BY DEF PInv, TypeOK
  <1>2. /\ NoRefs \in [Name -> Hash]
        /\ \A b \in Untracked : NoRefs[b] = None
    BY GerritAssumption DEF NoRefs, Hash, Name
  <1>3. CASE SyncMissing
    <2>1. mem.need \in SUBSET Commit
      BY <1>1 DEF Corpus
    <2>2. scratch' \in SUBSET Commit /\ Closed(scratch') /\ scratch \subseteq scratch'
      BY <1>1, <1>3, <2>1, FetchKeepsClosed DEF SyncMissing
    <2>3. TypeOK' /\ WalkHasBatch' /\ Closed(scratch)'
      BY <1>1, <1>3, <2>2 DEF SyncMissing, TypeOK, WalkHasBatch, Closed
    <2> QED BY <1>3, <2>2, <2>3, QuietStep DEF SyncMissing
  <1>4. CASE NothingMissing
    <2>1. TypeOK' /\ WalkHasBatch' /\ Closed(scratch)'
      BY <1>1, <1>4 DEF NothingMissing, TypeOK, WalkHasBatch, Closed
    <2> QED BY <1>4, <2>1, QuietStep DEF NothingMissing
  <1>5. CASE FetchOrigin
    <2>1. {upstream[b] : b \in {k \in Branch : upstream[k] # None}} \in SUBSET Commit
      BY <1>1 DEF TypeOK, Name, Hash
    <2>2. scratch' \in SUBSET Commit /\ Closed(scratch') /\ scratch \subseteq scratch'
      BY <1>1, <1>5, <2>1, FetchKeepsClosed DEF FetchOrigin
    <2>3. TypeOK' /\ WalkHasBatch' /\ Closed(scratch)'
      BY <1>1, <1>5, <2>2 DEF FetchOrigin, TypeOK, WalkHasBatch, Closed
    <2> QED BY <1>5, <2>2, <2>3, QuietStep DEF FetchOrigin
  <1>6. ASSUME Returns, UNCHANGED faults \/ faults' = faults + 1 PROVE PInv'
    <2>1. faults' \in Nat
      BY <1>1, <1>6 DEF TypeOK
    <2>2. TypeOK'
      BY <1>1, <1>2, <1>6, <2>1 DEF Returns, TypeOK
    <2>3. WalkHasBatch' /\ Closed(scratch)'
      BY <1>1, <1>6 DEF Returns, WalkHasBatch, Closed
    <2> QED BY <1>6, <2>2, <2>3, QuietStep DEF Returns
  <1>7. CASE Push
    <2>1. ASSUME NEW move \in Moves, NEW n \in Name, \E update \in move : update[1] = n
          PROVE  (CHOOSE update \in move : update[1] = n)[3] \in Hash
      <3>1. PICK update \in move : update = CHOOSE u \in move : u[1] = n
        BY <2>1
      <3>2. update \in Name \X Hash \X Hash
        BY <3>1, GerritAssumption
      <3> QED BY <3>1, <3>2
    <2>2. upstream' \in [Name -> Hash]
      BY <1>1, <1>7, <2>1 DEF Push, TypeOK
    <2>3. TypeOK'
      BY <1>1, <1>7, <2>2 DEF Push, TypeOK
    <2>4. UNCHANGED <<scratch, mem, pc, listed>>
      BY <1>7 DEF Push
    <2>5. Wanted' = Wanted
      BY <2>4 DEF Wanted, Batch, Left
    <2>6. WalkHasBatch'
      BY <2>4, <2>5 DEF PInv, WalkHasBatch
    <2>7. Closed(scratch)'
      BY <1>1, <2>4 DEF Closed
    <2> QED BY <1>7, <2>3, <2>6, <2>7, QuietStep DEF Push
  <1>8. CASE UNCHANGED vars
    <2>1. TypeOK' /\ WalkHasBatch' /\ Closed(scratch)'
      BY <1>1, <1>8 DEF PInv, vars, TypeOK, WalkHasBatch, Closed, Wanted, Batch, Left
    <2> QED BY <1>8, <2>1, QuietStep DEF vars
  <1>9. CASE CycleEnds \/ FetchFails \/ Fails
    BY <1>6, <1>9 DEF CycleEnds, FetchFails, Fails
  <1>10. CASE ListRefs \/ FetchBatch \/ SyncCommit \/ LogRefs \/ Log \/ Crash
    BY <1>10, ListRefsStep, FetchBatchStep, SyncCommitStep, LogRefsStep, LogStep, CrashStep
  <1> QED BY <1>3, <1>4, <1>5, <1>7, <1>8, <1>9, <1>10 DEF Next, Poller

LEMMA PInvHolds == Spec => []PInv
  BY PInvInit, PInvNext, PTL DEF Spec

-----------------------------------------------------------------------------
\* The poller keeps to its types (gerrit.go:93-109, 748-820, 1023-1177).
THEOREM GerritTypes == Spec => []TypeOK
  <1>1. PInv => TypeOK
    BY DEF PInv
  <1> QED BY <1>1, PInvHolds, PTL

\* No corpus loses track of a commit, whatever is pushed and whenever git fails
\* or the leader crashes (gerrit.go:752-764, 910-917, 1179-1204).
THEOREM NothingIsMissing == Spec => []MissingIsNeeded
  <1>1. PInv => MissingIsNeeded
    BY DEF PInv
  <1> QED BY <1>1, PInvHolds, PTL

\* The history of every ref is there before the ref is, in the leader and in the
\* log, for batches of any size (gerrit.go:1145-1174).
THEOREM HistoriesComeFirst == Spec => []RefsFollowCommits
  <1>1. PInv => RefsFollowCommits
    BY DEF PInv
  <1> QED BY <1>1, PInvHolds, PTL

-----------------------------------------------------------------------------
\* What the refs of a corpus say of its changes.
RefsRight(corp) ==
  \A n \in CL :
    /\ corp.cl[n].meta = corp.remote[<<n, 0>>]
    /\ corp.cl[n].commit # None =>
         /\ corp.cl[n].version \in PatchSet
         /\ corp.cl[n].commit = corp.remote[<<n, corp.cl[n].version>>]
         /\ Issues[corp.cl[n].commit] \X {n} \subseteq corp.referencing

\* A corpus that replays the log has not looked at any meta history.
Plain(corp) ==
  \A n \in CL :
    /\ corp.cl[n].metas = {} /\ corp.cl[n].status = NoStatus
    /\ corp.cl[n].private = FALSE /\ corp.cl[n].labels = 0
    /\ n \in corp.dirty <=> corp.cl[n].meta # None

\* The leader has looked at all.
Finished(corp) == corp.dirty = {} /\ \A n \in CL : FollowsMeta(corp, n)

\* What processing depends on and changes, but for what is needed and dirty.
Same(C, D) ==
  /\ C.known = D.known /\ C.indexed = D.indexed
  /\ C.ref = D.ref /\ C.remote = D.remote /\ C.referencing = D.referencing
  /\ \A n \in CL : /\ C.cl[n].meta = D.cl[n].meta
                   /\ C.cl[n].commit = D.cl[n].commit /\ C.cl[n].version = D.cl[n].version

\* w is v, or grew from it, or v is nothing.
Grew(v, w) == v # None => w # None /\ v \in Ancestors[w]
Linear(c) == c # None => \A d \in Ancestors[c] : Cardinality(Parents[d]) <= 1

\* Meta histories grow on the server, are listed and reach the corpora in that order.
MetaGrows ==
  \A n \in CL :
    /\ Linear(upstream[<<n, 0>>])
    /\ Grew(mem.remote[<<n, 0>>], upstream[<<n, 0>>])
    /\ Grew(stored.remote[<<n, 0>>], upstream[<<n, 0>>])
    /\ Grew(listed[<<n, 0>>], upstream[<<n, 0>>])
    /\ pending # None => Grew(pending.refs[<<n, 0>>], upstream[<<n, 0>>])
    /\ listed[<<n, 0>>] # None => Grew(mem.remote[<<n, 0>>], listed[<<n, 0>>])

\* The log's corpus is the leader's, but for the mutation on its way.
LogIsSame ==
  /\ pending = None => Same(mem, stored)
  /\ pending # None => Same(mem, Process(stored, pending))

CInv ==
  /\ RefsRight(mem) /\ RefsRight(stored) /\ Plain(stored) /\ Finished(mem)
  /\ LogIsSame /\ MetaGrows

\* The patch sets that the history of v announces.
Announced(v) == IF v = None THEN {} ELSE {Uploads[c] : c \in Ancestors[v]} \ {None}
PatchSetRefs(refs, n) == {refs[<<n, k>>] : k \in PatchSet}

\* They are on the server; in a listing they are with the meta ref, or are indexed.
UInv ==
  \A n \in CL :
    /\ Announced(mem.remote[<<n, 0>>]) \subseteq mem.indexed
    /\ Announced(stored.remote[<<n, 0>>]) \subseteq stored.indexed
    /\ pending # None => Announced(pending.refs[<<n, 0>>]) \subseteq stored.indexed
    /\ Announced(upstream[<<n, 0>>]) \subseteq PatchSetRefs(upstream, n)
    /\ Announced(listed[<<n, 0>>]) \subseteq mem.indexed \union PatchSetRefs(listed, n)

-----------------------------------------------------------------------------
\* What is reached from an ancestor of c is reached from c.
LEMMA AncestorsAreNested ==
  ASSUME NEW c \in Commit, NEW d \in Ancestors[c]
  PROVE  d \in Commit /\ Ancestors[d] \subseteq Ancestors[c]
  <1>1. Ancestors[c] \in SUBSET Commit /\ Closed(Ancestors[c])
    BY AncestorsAreClosed
  <1> QED BY <1>1, AncestorsAreClosed

LEMMA GrewIsTransitive ==
  ASSUME NEW u \in Hash, NEW v \in Hash, NEW w \in Hash, Grew(u, v), Grew(v, w)
  PROVE  Grew(u, w)
  <1>1. CASE u # None
    <2>1. v # None /\ w # None /\ u \in Ancestors[v] /\ v \in Ancestors[w] /\ w \in Commit
      BY <1>1 DEF Grew, Hash
    <2> QED BY <2>1, AncestorsAreNested DEF Grew
  <1> QED BY <1>1 DEF Grew

LEMMA GrewIsReflexive ==
  ASSUME NEW v \in Hash
  PROVE  Grew(v, v)
  BY AncestorsAreClosed DEF Grew, Hash

\* Only a commit and what is reached from its parents is reached from it.
LEMMA AncestorsOfParents ==
  ASSUME NEW c \in Commit, NEW e \in Ancestors[c], e # c
  PROVE  \E p \in Parents[c] : e \in Ancestors[p]
  <1> DEFINE S == {c} \union UNION {Ancestors[p] : p \in Parents[c]}
  <1>1. Parents[c] \in SUBSET Commit
    BY GerritAssumption
  <1>2. \A p \in Parents[c] : /\ p \in Ancestors[p] /\ Ancestors[p] \in SUBSET Commit
                              /\ Closed(Ancestors[p])
    BY <1>1, AncestorsAreClosed
  <1>3. S \in SUBSET Commit /\ c \in S
    BY <1>2
  <1>4. Closed(S)
    BY <1>2 DEF Closed
  <1>5. e \in S
    <2> HIDE DEF S
    <2> QED BY <1>3, <1>4, AncestorsAreClosed
  <1> QED BY <1>5

\* Of two commits of a history without merges, one is in the history of the other.
LEMMA HistoryIsChain ==
  ASSUME NEW w \in Commit, Linear(w), NEW e \in Ancestors[w]
  PROVE  \A d \in Ancestors[w] : d \in Ancestors[e] \/ e \in Ancestors[d]
  <1> DEFINE S == {d \in Ancestors[w] : d \in Ancestors[e] \/ e \in Ancestors[d]}
  <1>1. /\ Ancestors[w] \in SUBSET Commit /\ w \in Ancestors[w] /\ Closed(Ancestors[w])
        /\ e \in Commit /\ Closed(Ancestors[e])
    BY AncestorsAreClosed
  <1>2. S \in SUBSET Commit /\ w \in S
    BY <1>1
  <1>3. ASSUME NEW d \in S, NEW p \in Parents[d] PROVE p \in S
    <2>1. d \in Ancestors[w] /\ p \in Ancestors[w] /\ d \in Commit
      BY <1>1 DEF Closed
    <2>2. CASE d \in Ancestors[e]
      BY <1>1, <2>1, <2>2 DEF Closed
    <2>3. CASE e \in Ancestors[d] /\ e # d
      <3>1. PICK q \in Parents[d] : e \in Ancestors[q]
        BY <2>1, <2>3, AncestorsOfParents
      <3>2. q = p
        <4>1. w # None
          BY GerritAssumption
        <4>2. Cardinality(Parents[d]) <= 1
          BY <2>1, <4>1 DEF Linear
        <4>3. IsFiniteSet(Parents[d])
          BY <2>1, GerritAssumption, FS_Subset
        <4>4. Cardinality(Parents[d]) \in Nat /\ Cardinality(Parents[d]) # 0
          BY <4>3, FS_CardinalityType, FS_EmptySet
        <4>5. Cardinality(Parents[d]) = 1
          BY <4>2, <4>4
        <4>6. \E x : Parents[d] = {x}
          BY <4>3, <4>5, FS_Singleton
        <4> QED BY <4>6
      <3> QED BY <2>1, <3>1, <3>2
    <2>4. CASE e = d
      BY <1>1, <2>1, <2>4, AncestorsAreClosed DEF Closed
    <2> QED BY <2>2, <2>3, <2>4
  <1>4. Closed(S)
    BY <1>3 DEF Closed
  <1>5. Ancestors[w] \subseteq S
    <2> HIDE DEF S
    <2> QED BY <1>2, <1>4, AncestorsAreClosed
  <1> QED BY <1>5

\* Commits of such a history have a newest one.
LEMMA NewestIsThere ==
  ASSUME NEW w \in Commit, Linear(w), NEW T \in SUBSET Ancestors[w], T # {}
  PROVE  \E c \in T : T \subseteq Ancestors[c]
  <1> DEFINE After(c) == T \ Ancestors[c]
             X == {After(c) : c \in T}
  <1>1. Ancestors[w] \in SUBSET Commit /\ IsFiniteSet(T)
    <2>1. Ancestors[w] \in SUBSET Commit
      BY AncestorsAreClosed
    <2> QED BY <2>1, GerritAssumption, FS_Subset
  <1>2. X \subseteq FiniteSubsetsOf(T) /\ X # {}
    <2>1. X \subseteq SUBSET T /\ X # {}
      OBVIOUS
    <2> HIDE DEF X
    <2> QED BY <1>1, <2>1, FS_FiniteSubsetsOfFinite
  <1>3. PICK s \in X : \A y \in X : ~ (<<y, s>> \in StrictSubsetOrdering(T))
    <2> HIDE DEF X
    <2> QED BY <1>2, FS_StrictSubsetOrderingWellFounded, WFMin
  <1>4. PICK c \in T : s = After(c)
    BY <1>3
  <1>5. ASSUME NEW d \in T, d \notin Ancestors[c] PROVE FALSE
    <2>1. c \in Ancestors[d] /\ d \in Commit
      BY <1>1, <1>5, HistoryIsChain
    <2>2. Ancestors[c] \subseteq Ancestors[d] /\ d \in Ancestors[d]
      BY <2>1, AncestorsAreNested, AncestorsAreClosed
    <2>3. After(d) \subseteq After(c) /\ d \in After(c) /\ d \notin After(d)
      BY <1>5, <2>2
    <2>4. <<After(d), s>> \in StrictSubsetOrdering(T)
      BY <1>4, <2>3 DEF StrictSubsetOrdering
    <2> QED BY <1>3, <2>4
  <1> QED BY <1>5

\* A history without merges that sets a status has a newest commit that does.
LEMMA StatusIsFound ==
  ASSUME NEW w \in Commit, Linear(w)
  PROVE  NewestStatus(Ancestors[w]) = NoStatus <=> \A c \in Ancestors[w] : StatusOf[c] = NoStatus
  <1> DEFINE setting == {c \in Ancestors[w] : StatusOf[c] # NoStatus}
             newest == {c \in setting : setting \subseteq Ancestors[c]}
  <1>1. NewestStatus(Ancestors[w]) =
          IF newest = {} THEN NoStatus ELSE StatusOf[CHOOSE c \in newest : TRUE]
    BY DEF NewestStatus
  <1>2. newest # {} => (CHOOSE c \in newest : TRUE) \in newest
    OBVIOUS
  <1>3. setting # {} => newest # {}
    <2>1. setting \in SUBSET Ancestors[w]
      OBVIOUS
    <2>2. setting # {} => \E c \in setting : setting \subseteq Ancestors[c]
      <3> HIDE DEF setting
      <3> QED BY <2>1, NewestIsThere
    <2> QED BY <2>2
  <1>4. CASE setting = {}
    BY <1>1, <1>4
  <1>5. CASE setting # {}
    <2>1. StatusOf[CHOOSE c \in newest : TRUE] # NoStatus
      BY <1>2, <1>3, <1>5
    <2> QED BY <1>1, <1>3, <1>5, <2>1
  <1> QED BY <1>4, <1>5

\* If all of a history is indexed, the walk does not stop before its root.
LEMMA WalkIsWhole ==
  ASSUME NEW corp, NEW c \in Commit, Ancestors[c] \subseteq corp.indexed
  PROVE  Walked(corp, c) = Ancestors[c]
  BY DEF Walked

-----------------------------------------------------------------------------
\* What is known after a commit mutation has been processed.
KnownAfter(known, c) ==
  IF c = None THEN known
  ELSE known \union Parents[c] \union (IF c \in Unparseable THEN {} ELSE {c})

\* What an operation that leaves the changes alone leaves.
SameChanges(C, D) ==
  C.remote = D.remote /\ C.cl = D.cl /\ C.dirty = D.dirty /\ C.referencing = D.referencing

LEMMA CommitExactly ==
  ASSUME NEW corp \in Corpus, NEW c \in Hash
  PROVE  LET D == ProcessCommit(corp, c) IN
         /\ D \in Corpus /\ D.known = KnownAfter(corp.known, c)
         /\ D.indexed = corp.indexed \union Parsed(c)
         /\ D.ref = corp.ref /\ SameChanges(D, corp)
  <1> DEFINE D == ProcessCommit(corp, c)
  <1>1. D \in Corpus /\ D.indexed = corp.indexed \union Parsed(c) /\ D.ref = corp.ref
    BY ProcessCommitParts
  <1>2. CASE c = None
    BY <1>1, <1>2 DEF ProcessCommit, KnownAfter, SameChanges
  <1>3. CASE c # None /\ c \in Unparseable
    <2>1. D = [corp EXCEPT !.known = @ \union Parents[c]]
      BY <1>3 DEF ProcessCommit
    <2>2. D.known = corp.known \union Parents[c] /\ SameChanges(D, corp)
      BY <2>1 DEF Corpus, SameChanges
    <2> HIDE DEF D
    <2>3. D.known = KnownAfter(corp.known, c)
      BY <1>3, <2>2 DEF KnownAfter
    <2> QED BY <1>1, <2>2, <2>3 DEF D
  <1>4. CASE c # None /\ c \notin Unparseable
    <2> DEFINE known == corp.known \union Parents[c] \union {c}
               indexed == corp.indexed \union {c}
               need == (corp.need \ {c}) \union (Parents[c] \ indexed)
    <2>1. D = [corp EXCEPT !.known = known, !.indexed = indexed, !.need = need]
      BY <1>4 DEF ProcessCommit, Corpus
    <2>2. D.known = known /\ SameChanges(D, corp)
      <3> HIDE DEF known, indexed, need, D
      <3> QED BY <2>1 DEF Corpus, SameChanges
    <2> HIDE DEF D
    <2>3. D.known = KnownAfter(corp.known, c)
      BY <1>4, <2>2 DEF KnownAfter
    <2> QED BY <1>1, <2>2, <2>3 DEF D
  <1> QED BY <1>2, <1>3, <1>4

LEMMA DeletionsExactly ==
  ASSUME NEW corp \in Corpus, NEW deleted \in SUBSET Branch
  PROVE  LET D == ProcessDeletions(corp, deleted) IN
         /\ D \in Corpus /\ D.known = corp.known /\ D.indexed = corp.indexed
         /\ D.ref = [b \in Branch |-> IF b \in deleted THEN None ELSE corp.ref[b]]
         /\ SameChanges(D, corp)
  <1> DEFINE D == ProcessDeletions(corp, deleted)
             ref == [b \in Branch |-> IF b \in deleted THEN None ELSE corp.ref[b]]
  <1>1. D \in Corpus
    BY ProcessDeletionsParts
  <1>2. D = [corp EXCEPT !.ref = ref]
    BY DEF ProcessDeletions, Corpus
  <1> HIDE DEF ref, D
  <1>3. /\ D.known = corp.known /\ D.indexed = corp.indexed /\ D.ref = ref
        /\ SameChanges(D, corp)
    BY <1>2 DEF Corpus, SameChanges
  <1> QED BY <1>1, <1>3 DEF ref, D

\* The commit and the version of a change are those of the last of its patch sets in
\* the mutation, if there is one.
SetsPatch(old, new, names, refs, n) ==
  \/ /\ \A k \in PatchSet : <<n, k>> \notin names
     /\ new.commit = old.commit /\ new.version = old.version
  \/ \E k \in PatchSet : /\ <<n, k>> \in names
                         /\ new.version = k /\ new.commit = refs[<<n, k>>]

\* Nothing else of it changes than these and the meta hash.
Unfinished(old, new) ==
  /\ new.metas = old.metas /\ new.status = old.status
  /\ new.private = old.private /\ new.labels = old.labels

LEMMA ChangeExactly ==
  ASSUME NEW corp \in Corpus, NEW refs \in [Name -> Hash], NEW n \in CL
  PROVE  LET D == UpdateChange(corp, refs, n)
             names == Effective(corp, refs) IN
         /\ D \in Change
         /\ D.meta = IF <<n, 0>> \in names THEN refs[<<n, 0>>] ELSE corp.cl[n].meta
         /\ SetsPatch(corp.cl[n], D, names, refs, n)
         /\ Unfinished(corp.cl[n], D)
  <1> DEFINE D == UpdateChange(corp, refs, n)
             names == Effective(corp, refs)
             sets == PatchSetsIn(names, n)
             last == LastOf(sets)
             meta == IF <<n, 0>> \in names THEN refs[<<n, 0>>] ELSE corp.cl[n].meta
             commit == IF sets # {} THEN refs[last] ELSE corp.cl[n].commit
             version == IF sets # {} THEN last[2] ELSE corp.cl[n].version
  <1>1. corp.cl[n] \in Change
    BY DEF Corpus
  <1>2. D \in Change /\ D.meta = meta
    BY UpdateChangeType
  <1>3. D = [corp.cl[n] EXCEPT !.meta = meta, !.commit = commit, !.version = version]
    BY <1>1 DEF UpdateChange, Change
  <1>4. names \subseteq Name
    BY DEF Effective
  <1>5. ASSUME NEW k \in PatchSet, <<n, k>> \in names PROVE <<n, k>> \in sets
    <2>1. <<n, k>> \in ChangeRef /\ k # 0
      BY GerritAssumption DEF ChangeRef
    <2> QED BY <1>5, <2>1 DEF PatchSetsIn
  <1>6. sets # {} => last \in sets /\ sets \subseteq Name
    <2>1. sets \subseteq Name
      BY <1>4 DEF PatchSetsIn
    <2> HIDE DEF sets
    <2> QED BY <2>1, LastIsThere
  <1>7. sets # {} => last \in names /\ last = <<n, last[2]>> /\ last[2] \in PatchSet
    BY <1>6 DEF PatchSetsIn, ChangeRef
  <1> HIDE DEF sets, last, names, meta
  <1>8. D.commit = commit /\ D.version = version /\ Unfinished(corp.cl[n], D)
    <2> HIDE DEF commit, version, D
    <2> QED BY <1>1, <1>3 DEF Change, Unfinished
  <1> HIDE DEF D
  <1>9. SetsPatch(corp.cl[n], D, names, refs, n)
    <2>1. CASE sets = {}
      BY <1>5, <1>8, <2>1 DEF SetsPatch
    <2>2. CASE sets # {}
      BY <1>7, <1>8, <2>2 DEF SetsPatch
    <2> QED BY <2>1, <2>2
  <1> QED BY <1>2, <1>8, <1>9 DEF D, names, meta

\* processMutation, exactly; names are the refs that it takes.
Taken(known, m) == {n \in Name : m.refs[n] \in known}
Processed(corp, m, D) ==
  LET names == Taken(D.known, m) IN
  /\ D \in Corpus /\ D.known = KnownAfter(corp.known, m.commit)
  /\ D.indexed = corp.indexed \union Parsed(m.commit)
  /\ D.ref = [b \in Branch |-> IF b \in names THEN m.refs[b]
                               ELSE IF b \in m.deleted THEN None ELSE corp.ref[b]]
  /\ D.remote = [r \in ChangeRef |-> IF r \in names THEN m.refs[r] ELSE corp.remote[r]]
  /\ D.referencing = corp.referencing \union References(names, m.refs)
  /\ D.dirty = corp.dirty \union {n \in CL : <<n, 0>> \in names}
  /\ \A n \in CL :
       /\ D.cl[n].meta = IF <<n, 0>> \in names THEN m.refs[<<n, 0>>] ELSE corp.cl[n].meta
       /\ SetsPatch(corp.cl[n], D.cl[n], names, m.refs, n)
       /\ Unfinished(corp.cl[n], D.cl[n])

LEMMA ProcessExactly ==
  ASSUME NEW corp \in Corpus, NEW m \in Mutation
  PROVE  Processed(corp, m, Process(corp, m))
  <1> DEFINE A == ProcessCommit(corp, m.commit)
             B == ProcessDeletions(A, m.deleted)
             D == ProcessRefs(B, m.refs)
             names == Effective(B, m.refs)
  <1>1. m.commit \in Hash /\ m.deleted \in SUBSET Branch /\ m.refs \in [Name -> Hash]
    BY DEF Mutation
  <1>2. Process(corp, m) = D
    BY DEF Process
  <1>3. /\ A \in Corpus /\ A.known = KnownAfter(corp.known, m.commit)
        /\ A.indexed = corp.indexed \union Parsed(m.commit)
        /\ A.ref = corp.ref /\ SameChanges(A, corp)
    BY <1>1, CommitExactly
  <1> HIDE DEF A
  <1>4. /\ B \in Corpus /\ B.known = A.known /\ B.indexed = A.indexed /\ SameChanges(B, A)
        /\ B.ref = [b \in Branch |-> IF b \in m.deleted THEN None ELSE A.ref[b]]
    BY <1>1, <1>3, DeletionsExactly
  <1> HIDE DEF B
  <1> DEFINE ref == [b \in Branch |-> IF b \in names THEN m.refs[b] ELSE B.ref[b]]
             remote == [r \in ChangeRef |-> IF r \in names THEN m.refs[r] ELSE B.remote[r]]
             cl == [n \in CL |-> UpdateChange(B, m.refs, n)]
             dirty == B.dirty \union {n \in CL : <<n, 0>> \in names}
             referencing == B.referencing \union References(names, m.refs)
  <1>5. D = [B EXCEPT !.ref = ref, !.remote = remote, !.cl = cl, !.dirty = dirty,
                      !.referencing = referencing]
    BY <1>4 DEF ProcessRefs, Corpus
  <1>6. D \in Corpus
    BY <1>1, <1>4, ProcessRefsParts
  <1> HIDE DEF ref, remote, cl, dirty, referencing, D
  <1>7. /\ D.known = B.known /\ D.indexed = B.indexed /\ D.ref = ref /\ D.remote = remote
        /\ D.cl = cl /\ D.dirty = dirty /\ D.referencing = referencing
    BY <1>4, <1>5 DEF Corpus
  <1>8. names = Taken(D.known, m)
    BY <1>7 DEF Effective, Taken
  <1>9. \A n \in CL : /\ cl[n].meta = IF <<n, 0>> \in names THEN m.refs[<<n, 0>>] ELSE B.cl[n].meta
                      /\ SetsPatch(B.cl[n], cl[n], names, m.refs, n)
                      /\ Unfinished(B.cl[n], cl[n])
    BY <1>1, <1>4, ChangeExactly DEF cl
  <1> HIDE DEF names
  <1>10. ref = [b \in Branch |-> IF b \in names THEN m.refs[b]
                                 ELSE IF b \in m.deleted THEN None ELSE corp.ref[b]]
    BY <1>3, <1>4 DEF ref
  <1>11. /\ remote = [r \in ChangeRef |-> IF r \in names THEN m.refs[r] ELSE corp.remote[r]]
         /\ dirty = corp.dirty \union {n \in CL : <<n, 0>> \in names}
         /\ referencing = corp.referencing \union References(names, m.refs)
         /\ B.cl = corp.cl
    BY <1>3, <1>4 DEF SameChanges, remote, dirty, referencing
  <1> QED BY <1>2, <1>3, <1>4, <1>6, <1>7, <1>8, <1>9, <1>10, <1>11 DEF Processed

-----------------------------------------------------------------------------
LEMMA ProcessKeepsRight ==
  ASSUME NEW corp \in Corpus, NEW m \in Mutation, RefsRight(corp)
  PROVE  RefsRight(Process(corp, m))
  <1> DEFINE D == Process(corp, m)
             names == Taken(D.known, m)
  <1>1. /\ D.remote = [r \in ChangeRef |-> IF r \in names THEN m.refs[r] ELSE corp.remote[r]]
        /\ D.referencing = corp.referencing \union References(names, m.refs)
        /\ \A n \in CL :
             /\ D.cl[n].meta = IF <<n, 0>> \in names THEN m.refs[<<n, 0>>] ELSE corp.cl[n].meta
             /\ SetsPatch(corp.cl[n], D.cl[n], names, m.refs, n)
    <2>1. Processed(corp, m, D)
      BY ProcessExactly
    <2> HIDE DEF D
    <2> QED BY <2>1 DEF Processed
  <1> HIDE DEF D, names
  <1>2. ASSUME NEW n \in CL PROVE D.cl[n].meta = D.remote[<<n, 0>>]
    <2>1. <<n, 0>> \in ChangeRef
      BY DEF ChangeRef
    <2>2. corp.cl[n].meta = corp.remote[<<n, 0>>]
      BY DEF RefsRight
    <2> QED BY <1>1, <2>1, <2>2
  <1>3. ASSUME NEW n \in CL, D.cl[n].commit # None
        PROVE  /\ D.cl[n].version \in PatchSet
               /\ D.cl[n].commit = D.remote[<<n, D.cl[n].version>>]
               /\ Issues[D.cl[n].commit] \X {n} \subseteq D.referencing
    <2>1. CASE \E k \in PatchSet : /\ <<n, k>> \in names
                                   /\ D.cl[n].version = k /\ D.cl[n].commit = m.refs[<<n, k>>]
      <3>1. PICK k \in PatchSet : /\ <<n, k>> \in names
                                  /\ D.cl[n].version = k /\ D.cl[n].commit = m.refs[<<n, k>>]
        BY <2>1
      <3>2. <<n, k>> \in ChangeRef /\ k # 0
        BY GerritAssumption DEF ChangeRef
      <3>3. D.remote[<<n, k>>] = m.refs[<<n, k>>]
        BY <1>1, <3>1, <3>2
      <3>4. Issues[m.refs[<<n, k>>]] \X {n} \subseteq References(names, m.refs)
        <4>1. <<n, k>> \in {r \in names \intersect ChangeRef : r[2] # 0}
          BY <3>1, <3>2
        <4>2. <<n, k>>[1] = n
          OBVIOUS
        <4> QED BY <4>1, <4>2 DEF References
      <3> QED BY <1>1, <3>1, <3>3, <3>4
    <2>2. CASE /\ \A k \in PatchSet : <<n, k>> \notin names
               /\ D.cl[n].commit = corp.cl[n].commit /\ D.cl[n].version = corp.cl[n].version
      <3>1. /\ corp.cl[n].version \in PatchSet
            /\ corp.cl[n].commit = corp.remote[<<n, corp.cl[n].version>>]
            /\ Issues[corp.cl[n].commit] \X {n} \subseteq corp.referencing
        BY <1>3, <2>2 DEF RefsRight
      <3>2. <<n, corp.cl[n].version>> \in ChangeRef /\ <<n, corp.cl[n].version>> \notin names
        BY <2>2, <3>1 DEF ChangeRef
      <3>3. D.remote[<<n, corp.cl[n].version>>] = corp.remote[<<n, corp.cl[n].version>>]
        BY <1>1, <3>2
      <3> QED BY <1>1, <2>2, <3>1, <3>3
    <2> QED BY <1>1, <2>1, <2>2 DEF SetsPatch
  <1> QED BY <1>2, <1>3 DEF RefsRight, D

LEMMA ProcessKeepsPlain ==
  ASSUME NEW corp \in Corpus, NEW m \in Mutation, Plain(corp)
  PROVE  Plain(Process(corp, m))
  <1> DEFINE D == Process(corp, m)
             names == Taken(D.known, m)
  <1>1. /\ D \in Corpus
        /\ D.dirty = corp.dirty \union {n \in CL : <<n, 0>> \in names}
        /\ \A n \in CL :
             /\ D.cl[n].meta = IF <<n, 0>> \in names THEN m.refs[<<n, 0>>] ELSE corp.cl[n].meta
             /\ Unfinished(corp.cl[n], D.cl[n])
    <2>1. Processed(corp, m, D)
      BY ProcessExactly
    <2> HIDE DEF D
    <2> QED BY <2>1 DEF Processed
  <1>2. \A n \in CL : <<n, 0>> \in names => m.refs[<<n, 0>>] # None
    BY <1>1, GerritAssumption DEF Taken, Corpus
  <1> HIDE DEF D, names
  <1> QED BY <1>1, <1>2 DEF Plain, Unfinished, D

\* Two corpora that are the same but for what is computed stay so.
LEMMA ProcessKeepsSame ==
  ASSUME NEW C \in Corpus, NEW D \in Corpus, Same(C, D), NEW m \in Mutation
  PROVE  Same(Process(C, m), Process(D, m))
  <1> DEFINE E == Process(C, m)
             F == Process(D, m)
  <1>0. Processed(C, m, E) /\ Processed(D, m, F)
    BY ProcessExactly
  <1>1. E.known = F.known /\ E.indexed = F.indexed
    BY <1>0 DEF Same, Processed
  <1>2. E.ref = F.ref /\ E.remote = F.remote /\ E.referencing = F.referencing
    <2> HIDE DEF E, F
    <2> QED BY <1>0, <1>1 DEF Same, Processed
  <1>3. ASSUME NEW n \in CL
        PROVE  /\ E.cl[n].meta = F.cl[n].meta
               /\ E.cl[n].commit = F.cl[n].commit /\ E.cl[n].version = F.cl[n].version
    <2> DEFINE A == ProcessDeletions(ProcessCommit(C, m.commit), m.deleted)
               B == ProcessDeletions(ProcessCommit(D, m.commit), m.deleted)
    <2>1. m.commit \in Hash /\ m.deleted \in SUBSET Branch /\ m.refs \in [Name -> Hash]
      BY DEF Mutation
    <2>2. A \in Corpus /\ B \in Corpus /\ A.known = B.known /\ A.cl = C.cl /\ B.cl = D.cl
      <3> DEFINE G == ProcessCommit(C, m.commit)
                 H == ProcessCommit(D, m.commit)
      <3>1. G \in Corpus /\ H \in Corpus /\ G.known = H.known /\ G.cl = C.cl /\ H.cl = D.cl
        BY <2>1, CommitExactly DEF Same, SameChanges
      <3> HIDE DEF G, H
      <3>2. /\ ProcessDeletions(G, m.deleted) \in Corpus
            /\ ProcessDeletions(G, m.deleted).known = G.known
            /\ ProcessDeletions(G, m.deleted).cl = G.cl
            /\ ProcessDeletions(H, m.deleted) \in Corpus
            /\ ProcessDeletions(H, m.deleted).known = H.known
            /\ ProcessDeletions(H, m.deleted).cl = H.cl
        BY <2>1, <3>1, DeletionsExactly DEF SameChanges
      <3> QED BY <3>1, <3>2 DEF G, H
    <2>3. E = ProcessRefs(A, m.refs) /\ F = ProcessRefs(B, m.refs)
      BY DEF Process
    <2> HIDE DEF A, B, E, F
    <2>4. E.cl[n] = UpdateChange(A, m.refs, n) /\ F.cl[n] = UpdateChange(B, m.refs, n)
      BY <2>2, <2>3 DEF ProcessRefs, Corpus
    <2>5. Effective(A, m.refs) = Effective(B, m.refs)
      BY <2>2 DEF Effective
    <2> DEFINE names == Effective(A, m.refs)
               sets == PatchSetsIn(names, n)
               last == LastOf(sets)
               meta(cl) == IF <<n, 0>> \in names THEN m.refs[<<n, 0>>] ELSE cl.meta
               commit(cl) == IF sets # {} THEN m.refs[last] ELSE cl.commit
               version(cl) == IF sets # {} THEN last[2] ELSE cl.version
    <2>6. /\ E.cl[n] = [C.cl[n] EXCEPT !.meta = meta(C.cl[n]), !.commit = commit(C.cl[n]),
                                       !.version = version(C.cl[n])]
          /\ F.cl[n] = [D.cl[n] EXCEPT !.meta = meta(D.cl[n]), !.commit = commit(D.cl[n]),
                                       !.version = version(D.cl[n])]
          /\ C.cl[n] \in Change /\ D.cl[n] \in Change
      BY <2>2, <2>4, <2>5 DEF UpdateChange, Corpus, Change
    <2>7. /\ meta(C.cl[n]) = meta(D.cl[n]) /\ commit(C.cl[n]) = commit(D.cl[n])
          /\ version(C.cl[n]) = version(D.cl[n])
      BY DEF Same
    <2> HIDE DEF meta, commit, version
    <2> QED BY <2>6, <2>7 DEF Change
  <1> HIDE DEF E, F
  <1> QED BY <1>1, <1>2, <1>3 DEF Same, E, F

LEMMA SameIsTransitive ==
  ASSUME NEW A, NEW B, NEW C, Same(A, B), Same(B, C)
  PROVE  Same(A, C)
  BY DEF Same

-----------------------------------------------------------------------------
\* finishProcessing, exactly.
LEMMA FinishExactly ==
  ASSUME NEW corp \in Corpus, DirtyHasMeta(corp)
  PROVE  LET D == Finish(corp) IN
         /\ D \in Corpus /\ D.dirty = {} /\ Same(D, corp)
         /\ \A n \in CL :
              LET walked == Walked(corp, corp.cl[n].meta)
                  found == NewestStatus(walked)
                  cl == corp.cl[n] IN
              IF n \in corp.dirty
              THEN /\ D.cl[n].metas = walked
                   /\ D.cl[n].status = IF found # NoStatus THEN found
                                       ELSE IF cl.status = NoStatus THEN "new" ELSE cl.status
                   /\ D.cl[n].private = (cl.private \/ walked \intersect Private # {})
                   /\ D.cl[n].labels = cl.labels + Cardinality(walked \intersect Labelled)
              ELSE D.cl[n] = cl
  <1> DEFINE D == Finish(corp)
             cl == [n \in CL |-> IF n \in corp.dirty THEN FinishChange(corp, n) ELSE corp.cl[n]]
  <1>1. D \in Corpus /\ D.dirty = {}
    BY FinishParts
  <1>2. D = [corp EXCEPT !.cl = cl, !.dirty = {}]
    BY DEF Finish
  <1>3. /\ D.known = corp.known /\ D.indexed = corp.indexed /\ D.ref = corp.ref
        /\ D.remote = corp.remote /\ D.referencing = corp.referencing /\ D.cl = cl
    <2> HIDE DEF D, cl
    <2> QED BY <1>2 DEF Corpus
  <1> HIDE DEF D
  <1>4. ASSUME NEW n \in CL
        PROVE  LET walked == Walked(corp, corp.cl[n].meta)
                   found == NewestStatus(walked)
                   old == corp.cl[n]
                   new == FinishChange(corp, n) IN
               /\ new.metas = walked
               /\ new.status = IF found # NoStatus THEN found
                               ELSE IF old.status = NoStatus THEN "new" ELSE old.status
               /\ new.private = (old.private \/ walked \intersect Private # {})
               /\ new.labels = old.labels + Cardinality(walked \intersect Labelled)
               /\ new.meta = old.meta /\ new.commit = old.commit /\ new.version = old.version
    <2> DEFINE walked == Walked(corp, corp.cl[n].meta)
               found == NewestStatus(walked)
               status == IF found # NoStatus THEN found
                         ELSE IF corp.cl[n].status = NoStatus THEN "new" ELSE corp.cl[n].status
               private == corp.cl[n].private \/ walked \intersect Private # {}
               labels == corp.cl[n].labels + Cardinality(walked \intersect Labelled)
    <2>1. corp.cl[n] \in Change
      BY DEF Corpus
    <2>2. FinishChange(corp, n) =
            [corp.cl[n] EXCEPT !.metas = walked, !.status = status, !.private = private,
                               !.labels = labels]
      BY <2>1 DEF FinishChange, Change
    <2> HIDE DEF walked, status, private, labels
    <2>3. /\ FinishChange(corp, n).metas = walked /\ FinishChange(corp, n).status = status
          /\ FinishChange(corp, n).private = private /\ FinishChange(corp, n).labels = labels
          /\ FinishChange(corp, n).meta = corp.cl[n].meta
          /\ FinishChange(corp, n).commit = corp.cl[n].commit
          /\ FinishChange(corp, n).version = corp.cl[n].version
      BY <2>1, <2>2 DEF Change
    <2> QED BY <2>3 DEF walked, status, private, labels
  <1>5. \A n \in CL : cl[n] = IF n \in corp.dirty THEN FinishChange(corp, n) ELSE corp.cl[n]
    OBVIOUS
  <1> HIDE DEF cl
  <1>6. Same(D, corp)
    BY <1>3, <1>4, <1>5 DEF Same
  <1> QED BY <1>1, <1>3, <1>4, <1>5, <1>6 DEF D

-----------------------------------------------------------------------------
LEMMA NoStatusIsFound ==
  ASSUME NEW metas, \A c \in metas : StatusOf[c] = NoStatus
  PROVE  NewestStatus(metas) = NoStatus
  BY DEF NewestStatus

LEMMA HistoryIsIndexed ==
  ASSUME NEW corp \in Corpus, RefsAreWhole(corp), RefsRight(corp), NEW n \in CL,
         corp.cl[n].meta # None
  PROVE  /\ corp.cl[n].meta \in Commit
         /\ Walked(corp, corp.cl[n].meta) = Ancestors[corp.cl[n].meta]
  <1>1. corp.cl[n].meta \in Commit /\ corp.cl[n].meta = corp.remote[<<n, 0>>]
    BY DEF Corpus, Change, Hash, RefsRight
  <1>2. <<n, 0>> \in Name /\ <<n, 0>> \notin Branch
    BY GerritAssumption DEF Name, ChangeRef
  <1>3. Ancestors[corp.cl[n].meta] \subseteq corp.indexed
    BY <1>1, <1>2 DEF RefsAreWhole, Current
  <1> QED BY <1>1, <1>3, WalkIsWhole

\* Looking once at all that was replayed gives what the meta histories say.
LEMMA PlainIsFinished ==
  ASSUME NEW corp \in Corpus, DirtyHasMeta(corp), Plain(corp), RefsRight(corp),
         RefsAreWhole(corp)
  PROVE  Finished(Finish(corp))
  <1> DEFINE D == Finish(corp)
  <1>1. /\ D \in Corpus /\ D.dirty = {} /\ Same(D, corp)
        /\ \A n \in CL :
              LET walked == Walked(corp, corp.cl[n].meta)
                  found == NewestStatus(walked)
                  cl == corp.cl[n] IN
              IF n \in corp.dirty
              THEN /\ D.cl[n].metas = walked
                   /\ D.cl[n].status = IF found # NoStatus THEN found
                                       ELSE IF cl.status = NoStatus THEN "new" ELSE cl.status
                   /\ D.cl[n].private = (cl.private \/ walked \intersect Private # {})
                   /\ D.cl[n].labels = cl.labels + Cardinality(walked \intersect Labelled)
              ELSE D.cl[n] = cl
    BY FinishExactly
  <1> HIDE DEF D
  <1> SUFFICES ASSUME NEW n \in CL PROVE FollowsMeta(D, n)
    BY <1>1 DEF Finished, D
  <1> DEFINE w == corp.cl[n].meta
  <1>2. D.cl[n].meta = w /\ D.remote[<<n, 0>>] = w
    BY <1>1 DEF Same, RefsRight
  <1>3. /\ corp.cl[n].metas = {} /\ corp.cl[n].status = NoStatus
        /\ corp.cl[n].private = FALSE /\ corp.cl[n].labels = 0
        /\ n \in corp.dirty <=> w # None
    BY DEF Plain
  <1>4. CASE w # None
    <2>1. w \in Commit /\ Walked(corp, w) = Ancestors[w]
      BY <1>4, HistoryIsIndexed
    <2>2. Ancestors[w] # {} /\ IsFiniteSet(Ancestors[w] \intersect Labelled)
      <3>1. w \in Ancestors[w] /\ Ancestors[w] \in SUBSET Commit
        BY <2>1, AncestorsAreClosed
      <3> QED BY <3>1, GerritAssumption, FS_Subset
    <2>3. Cardinality(Ancestors[w] \intersect Labelled) \in Nat
      BY <2>2, FS_CardinalityType
    <2> DEFINE found == NewestStatus(Ancestors[w])
    <2>4. /\ D.cl[n].metas = Ancestors[w]
          /\ D.cl[n].status = IF found # NoStatus THEN found ELSE "new"
          /\ D.cl[n].private = (FALSE \/ Ancestors[w] \intersect Private # {})
          /\ D.cl[n].labels = 0 + Cardinality(Ancestors[w] \intersect Labelled)
      BY <1>1, <1>3, <1>4, <2>1
    <2>5. D.cl[n].labels >= Cardinality(Ancestors[w] \intersect Labelled)
      BY <2>3, <2>4
    <2> HIDE DEF w, found
    <2>6. D.cl[n].metas = Ancestors[w] /\ D.cl[n].private = (Ancestors[w] \intersect Private # {})
      BY <2>4
    <2>7. D.cl[n].status = IF Ancestors[w] = {} THEN NoStatus
                           ELSE IF NewestStatus(Ancestors[w]) = NoStatus THEN "new"
                           ELSE NewestStatus(Ancestors[w])
      BY <2>2, <2>4 DEF found
    <2> DEFINE history == IF D.cl[n].meta = None THEN {} ELSE Ancestors[D.cl[n].meta]
    <2>8. history = Ancestors[w]
      BY <1>2, <1>4
    <2> HIDE DEF history
    <2>9. D.cl[n].metas = history
      BY <2>6, <2>8
    <2>10. D.cl[n].status = IF history = {} THEN NoStatus
                            ELSE IF NewestStatus(history) = NoStatus THEN "new"
                            ELSE NewestStatus(history)
      BY <2>7, <2>8
    <2>11. D.cl[n].private = (history \intersect Private # {})
      BY <2>6, <2>8
    <2>12. D.cl[n].labels >= Cardinality(history \intersect Labelled)
      BY <2>5, <2>8
    <2>13. D.cl[n].meta = D.remote[<<n, 0>>]
      BY <1>2
    <2> QED BY <2>9, <2>10, <2>11, <2>12, <2>13 DEF FollowsMeta, history
  <1>5. CASE w = None
    <2>1. D.cl[n] = corp.cl[n]
      BY <1>1, <1>3, <1>5
    <2>2. Cardinality({} \intersect Labelled) = 0
      <3>1. {} \intersect Labelled = {}
        OBVIOUS
      <3> QED BY <3>1, FS_EmptySet
    <2>3. /\ D.cl[n].meta = None /\ D.remote[<<n, 0>>] = None
          /\ D.cl[n].metas = {} /\ D.cl[n].status = NoStatus
      BY <1>2, <1>3, <1>5, <2>1
    <2>4. D.cl[n].private = ({} \intersect Private # {})
      BY <1>3, <2>1
    <2>5. D.cl[n].labels >= Cardinality({} \intersect Labelled)
      BY <1>3, <2>1, <2>2
    <2> HIDE DEF w
    <2> QED BY <2>3, <2>4, <2>5 DEF FollowsMeta
  <1> QED BY <1>4, <1>5

\* Looking at a change again when its meta history has grown gives what the history
\* says: a status or a mark is not taken back, and none is left over.
LEMMA GrownIsFinished ==
  ASSUME NEW corp \in Corpus, NEW m \in Mutation, Finished(corp), RefsRight(corp),
         RefsAreWhole(Process(corp, m)),
         \A n \in CL : m.refs[<<n, 0>>] # None =>
           Linear(m.refs[<<n, 0>>]) /\ Grew(corp.remote[<<n, 0>>], m.refs[<<n, 0>>])
  PROVE  Finished(Finish(Process(corp, m)))
  <1> DEFINE C == Process(corp, m)
             D == Finish(C)
             names == Taken(C.known, m)
  <1>1. Processed(corp, m, C)
    BY ProcessExactly
  <1>2. RefsAreWhole(C) /\ RefsRight(C)
    BY ProcessKeepsRight
  <1>3. DirtyHasMeta(C)
    <2>1. DirtyHasMeta(corp)
      BY DEF Finished, DirtyHasMeta
    <2> QED BY <2>1, ProcessParts
  <1> HIDE DEF C
  <1>4. /\ C \in Corpus /\ C.dirty = {n \in CL : <<n, 0>> \in names}
        /\ \A n \in CL :
             /\ C.cl[n].meta = IF <<n, 0>> \in names THEN m.refs[<<n, 0>>] ELSE corp.cl[n].meta
             /\ Unfinished(corp.cl[n], C.cl[n])
    BY <1>1 DEF Processed, Finished
  <1>5. /\ D \in Corpus /\ D.dirty = {} /\ Same(D, C)
        /\ \A n \in CL :
              LET walked == Walked(C, C.cl[n].meta)
                  found == NewestStatus(walked)
                  cl == C.cl[n] IN
              IF n \in C.dirty
              THEN /\ D.cl[n].metas = walked
                   /\ D.cl[n].status = IF found # NoStatus THEN found
                                       ELSE IF cl.status = NoStatus THEN "new" ELSE cl.status
                   /\ D.cl[n].private = (cl.private \/ walked \intersect Private # {})
                   /\ D.cl[n].labels = cl.labels + Cardinality(walked \intersect Labelled)
              ELSE D.cl[n] = cl
    BY <1>3, <1>4, FinishExactly
  <1> HIDE DEF D
  <1> SUFFICES ASSUME NEW n \in CL PROVE FollowsMeta(D, n)
    BY <1>5 DEF Finished, D, C
  <1> DEFINE v == corp.cl[n].meta
             w == C.cl[n].meta
             past == IF v = None THEN {} ELSE Ancestors[v]
  <1>6. D.cl[n].meta = w /\ D.remote[<<n, 0>>] = w
    BY <1>2, <1>5 DEF Same, RefsRight
  <1>7. /\ C.cl[n].metas = past
        /\ C.cl[n].status = IF past = {} THEN NoStatus
                            ELSE IF NewestStatus(past) = NoStatus THEN "new" ELSE NewestStatus(past)
        /\ C.cl[n].private = (past \intersect Private # {})
        /\ C.cl[n].labels >= Cardinality(past \intersect Labelled)
        /\ C.cl[n].labels \in Nat
    <2>1. FollowsMeta(corp, n) /\ Unfinished(corp.cl[n], C.cl[n])
      BY <1>4 DEF Finished
    <2>2. C.cl[n].labels \in Nat
      BY <1>4 DEF Corpus, Change
    <2> QED BY <2>1, <2>2 DEF FollowsMeta, Unfinished
  <1>8. CASE n \notin C.dirty
    <2>1. D.cl[n] = C.cl[n] /\ w = v
      BY <1>4, <1>5, <1>8
    <2> HIDE DEF v, w
    <2> QED BY <1>6, <1>7, <2>1 DEF FollowsMeta
  <1>9. CASE n \in C.dirty
    <2>1. w = m.refs[<<n, 0>>] /\ w # None
      BY <1>3, <1>4, <1>9 DEF DirtyHasMeta
    <2>2. Linear(w) /\ Grew(v, w)
      <3>1. v = corp.remote[<<n, 0>>]
        BY DEF RefsRight
      <3> QED BY <2>1, <3>1
    <2>3. w \in Commit /\ Walked(C, w) = Ancestors[w]
      BY <1>2, <1>4, <2>1, HistoryIsIndexed
    <2> DEFINE found == NewestStatus(Ancestors[w])
    <2>4. /\ D.cl[n].metas = Ancestors[w]
          /\ D.cl[n].status = IF found # NoStatus THEN found
                              ELSE IF C.cl[n].status = NoStatus THEN "new" ELSE C.cl[n].status
          /\ D.cl[n].private = (C.cl[n].private \/ Ancestors[w] \intersect Private # {})
          /\ D.cl[n].labels = C.cl[n].labels + Cardinality(Ancestors[w] \intersect Labelled)
      BY <1>5, <1>9, <2>3
    <2> HIDE DEF w
    <2>5. w \in Ancestors[w] /\ Ancestors[w] \in SUBSET Commit /\ past \subseteq Ancestors[w]
      <3>1. w \in Ancestors[w] /\ Ancestors[w] \in SUBSET Commit
        BY <2>3, AncestorsAreClosed
      <3> QED BY <2>2, <2>3, <3>1, AncestorsAreNested DEF Grew
    <2>6. D.cl[n].status = IF found = NoStatus THEN "new" ELSE found
      <3>1. CASE found # NoStatus
        BY <2>4, <3>1
      <3>2. CASE found = NoStatus
        <4>1. \A c \in Ancestors[w] : StatusOf[c] = NoStatus
          BY <2>2, <2>3, <3>2, StatusIsFound
        <4>2. NewestStatus(past) = NoStatus
          BY <2>5, <4>1, NoStatusIsFound
        <4>3. C.cl[n].status \in {NoStatus, "new"}
          BY <1>7, <4>2
        <4> HIDE DEF found
        <4> QED BY <2>4, <3>2, <4>3
      <3> QED BY <3>1, <3>2
    <2>7. D.cl[n].private = (Ancestors[w] \intersect Private # {})
      <3>1. past \intersect Private # {} => Ancestors[w] \intersect Private # {}
        BY <2>5
      <3> HIDE DEF past
      <3> QED BY <1>7, <2>4, <3>1
    <2>8. D.cl[n].labels >= Cardinality(Ancestors[w] \intersect Labelled)
      <3>1. IsFiniteSet(Ancestors[w] \intersect Labelled)
        BY <2>5, GerritAssumption, FS_Subset
      <3>2. Cardinality(Ancestors[w] \intersect Labelled) \in Nat
        BY <3>1, FS_CardinalityType
      <3>3. /\ C.cl[n].labels \in Nat
            /\ D.cl[n].labels = C.cl[n].labels + Cardinality(Ancestors[w] \intersect Labelled)
        BY <1>7, <2>4
      <3> QED BY <3>2, <3>3
    <2>9. D.cl[n].status = IF Ancestors[w] = {} THEN NoStatus
                           ELSE IF NewestStatus(Ancestors[w]) = NoStatus THEN "new"
                           ELSE NewestStatus(Ancestors[w])
      BY <2>5, <2>6
    <2>10. D.cl[n].metas = Ancestors[w]
      BY <2>4
    <2>11. D.cl[n].meta = w /\ D.remote[<<n, 0>>] = w /\ w # None
      BY <1>6, <2>1
    <2> DEFINE history == IF D.cl[n].meta = None THEN {} ELSE Ancestors[D.cl[n].meta]
    <2>12. history = Ancestors[w]
      BY <2>11
    <2> HIDE DEF history
    <2>13. D.cl[n].metas = history
      BY <2>10, <2>12
    <2>14. D.cl[n].status = IF history = {} THEN NoStatus
                            ELSE IF NewestStatus(history) = NoStatus THEN "new"
                            ELSE NewestStatus(history)
      BY <2>9, <2>12
    <2>15. D.cl[n].private = (history \intersect Private # {})
      BY <2>7, <2>12
    <2>16. D.cl[n].labels >= Cardinality(history \intersect Labelled)
      BY <2>8, <2>12
    <2>17. D.cl[n].meta = D.remote[<<n, 0>>]
      BY <2>11
    <2> QED BY <2>13, <2>14, <2>15, <2>16, <2>17 DEF FollowsMeta, history
  <1> QED BY <1>8, <1>9

-----------------------------------------------------------------------------
LEMMA SameKeepsRight ==
  ASSUME NEW C, NEW D, Same(D, C), RefsRight(C)
  PROVE  RefsRight(D)
  BY DEF Same, RefsRight

LEMMA LinearIsInherited ==
  ASSUME NEW v \in Hash, NEW w \in Hash, Grew(v, w), Linear(w)
  PROVE  Linear(v)
  <1>1. CASE v # None
    <2>1. w \in Commit /\ w # None /\ v \in Ancestors[w]
      BY <1>1 DEF Grew, Hash
    <2>2. Ancestors[v] \subseteq Ancestors[w]
      BY <2>1, AncestorsAreNested
    <2> QED BY <2>1, <2>2 DEF Linear
  <1> QED BY <1>1 DEF Linear

\* The ref of a change keeps its value or takes that of the mutation.
LEMMA RemoteAfter ==
  ASSUME NEW corp \in Corpus, NEW m \in Mutation, NEW r \in ChangeRef
  PROVE  LET D == Process(corp, m) IN
         \/ D.remote[r] = corp.remote[r]
         \/ m.refs[r] # None /\ D.remote[r] = m.refs[r]
  <1> DEFINE D == Process(corp, m)
             names == Taken(D.known, m)
  <1>1. /\ D.remote = [s \in ChangeRef |-> IF s \in names THEN m.refs[s] ELSE corp.remote[s]]
        /\ D.known \in SUBSET Commit
    <2>1. Processed(corp, m, D)
      BY ProcessExactly
    <2> HIDE DEF D
    <2> QED BY <2>1 DEF Processed, Corpus
  <1>2. r \in names => m.refs[r] # None
    BY <1>1, GerritAssumption DEF Taken
  <1> HIDE DEF D, names
  <1> QED BY <1>1, <1>2 DEF D

\* A mutation is processed whose meta refs have grown from those of the leader.
LEMMA AddKeeps ==
  ASSUME PInv, PInv', CInv, pending = None, NEW m \in Mutation, AddMutation(m),
         UNCHANGED stored,
         \A n \in CL : m.refs[<<n, 0>>] # None =>
           Linear(m.refs[<<n, 0>>]) /\ Grew(mem.remote[<<n, 0>>], m.refs[<<n, 0>>])
  PROVE  /\ RefsRight(mem)' /\ RefsRight(stored)' /\ Plain(stored)' /\ Finished(mem)' /\ LogIsSame'
         /\ \A n \in CL : \/ mem'.remote[<<n, 0>>] = mem.remote[<<n, 0>>]
                          \/ /\ m.refs[<<n, 0>>] # None
                             /\ mem'.remote[<<n, 0>>] = m.refs[<<n, 0>>]
  <1> DEFINE P == Process(mem, m)
  <1>1. /\ mem \in Corpus /\ stored \in Corpus /\ DirtyHasMeta(mem) /\ RefsAreWhole(mem)'
        /\ Finished(mem) /\ RefsRight(mem) /\ Same(mem, stored)
    BY DEF PInv, TypeOK, CInv, LogIsSame, RefsFollowCommits
  <1>2. P \in Corpus /\ DirtyHasMeta(P)
    BY <1>1, ProcessParts
  <1>3. mem' = Finish(P) /\ pending' = m /\ m # None
    BY NoneAssumption DEF AddMutation
  <1>4. Same(Finish(P), P)
    <2> HIDE DEF P
    <2> QED BY <1>2, FinishExactly
  <1>5. RefsAreWhole(P)
    <2> HIDE DEF P
    <2> QED BY <1>1, <1>3, <1>4 DEF RefsAreWhole, Current, Same
  <1>6. RefsRight(P)
    BY <1>1, ProcessKeepsRight
  <1>7. Finished(Finish(P))
    BY <1>1, <1>5, GrownIsFinished
  <1>8. RefsRight(Finish(P))
    <2> HIDE DEF P
    <2> QED BY <1>4, <1>6, SameKeepsRight
  <1>9. Same(Finish(P), Process(stored, m))
    <2>1. Same(P, Process(stored, m))
      BY <1>1, ProcessKeepsSame
    <2> HIDE DEF P
    <2> QED BY <1>4, <2>1, SameIsTransitive
  <1>10. \A n \in CL : \/ P.remote[<<n, 0>>] = mem.remote[<<n, 0>>]
                       \/ m.refs[<<n, 0>>] # None /\ P.remote[<<n, 0>>] = m.refs[<<n, 0>>]
    BY <1>1, RemoteAfter DEF ChangeRef
  <1> HIDE DEF P
  <1>11. Finished(mem)'
    BY <1>3, <1>7 DEF Finished, FollowsMeta
  <1>12. RefsRight(mem)' /\ RefsRight(stored)' /\ Plain(stored)'
    BY <1>3, <1>8 DEF CInv, RefsRight, Plain
  <1>13. LogIsSame'
    BY <1>3, <1>9 DEF LogIsSame
  <1>14. \A n \in CL : mem'.remote[<<n, 0>>] = P.remote[<<n, 0>>]
    BY <1>3, <1>4 DEF Same
  <1> QED BY <1>10, <1>11, <1>12, <1>13, <1>14

LEMMA CInvInit ==
  ASSUME Init
  PROVE  CInv
  <1>1. \A n \in CL : /\ EmptyCorpus.cl[n] = NoChange /\ EmptyCorpus.remote[<<n, 0>>] = None
                      /\ upstream[<<n, 0>>] = None /\ listed[<<n, 0>>] = None
    BY DEF Init, EmptyCorpus, NoRefs, ChangeRef, Name
  <1>2. EmptyCorpus.dirty = {}
    BY DEF EmptyCorpus
  <1>3. RefsRight(EmptyCorpus) /\ Plain(EmptyCorpus)
    <2>1. /\ NoChange.meta = None /\ NoChange.commit = None /\ NoChange.metas = {}
          /\ NoChange.status = NoStatus /\ NoChange.private = FALSE /\ NoChange.labels = 0
      BY DEF NoChange
    <2>2. RefsRight(EmptyCorpus)
      BY <1>1, <2>1 DEF RefsRight
    <2> QED BY <1>1, <1>2, <2>1, <2>2 DEF Plain
  <1>4. Finished(EmptyCorpus)
    <2>1. Cardinality({} \intersect Labelled) = 0
      <3>1. {} \intersect Labelled = {}
        OBVIOUS
      <3> QED BY <3>1, FS_EmptySet
    <2>2. NoChange.meta = None /\ NoChange.metas = {} /\ NoChange.status = NoStatus
      BY DEF NoChange
    <2>3. NoChange.private = ({} \intersect Private # {})
      BY DEF NoChange
    <2>4. NoChange.labels = 0
      BY DEF NoChange
    <2>5. NoChange.labels >= Cardinality({} \intersect Labelled)
      BY <2>1, <2>4
    <2> QED BY <1>1, <1>2, <2>2, <2>3, <2>5 DEF Finished, FollowsMeta
  <1>5. LogIsSame
    BY DEF Init, LogIsSame, Same
  <1>6. MetaGrows
    BY <1>1 DEF Init, MetaGrows, Linear, Grew
  <1> QED BY <1>3, <1>4, <1>5, <1>6 DEF Init, CInv

\* A step that leaves the server, the corpora and the pending mutation alone.
LEMMA QuietKeeps ==
  ASSUME CInv, UNCHANGED <<upstream, mem, stored, pending>>,
         UNCHANGED listed \/ listed' = NoRefs
  PROVE  CInv'
  <1>1. RefsRight(mem)' /\ RefsRight(stored)' /\ Plain(stored)' /\ Finished(mem)'
    BY DEF CInv, RefsRight, Plain, Finished, FollowsMeta
  <1>2. LogIsSame'
    BY DEF CInv, LogIsSame
  <1>3. \A n \in CL : NoRefs[<<n, 0>>] = None
    BY DEF NoRefs, ChangeRef, Name
  <1>4. MetaGrows'
    BY <1>3 DEF CInv, MetaGrows, Grew
  <1> QED BY <1>1, <1>2, <1>4 DEF CInv

LEMMA ListRefsKeeps ==
  ASSUME PInv, PInv', CInv, ListRefs
  PROVE  CInv'
  <1> DEFINE deleted == {b \in Branch : mem.ref[b] # None /\ upstream[b] = None}
             m == DeletionMutation(deleted)
  <1>1. UNCHANGED <<upstream, stored>> /\ pending = None
    BY DEF ListRefs, At
  <1>2. \A n \in CL : /\ <<n, 0>> \in Name /\ upstream[<<n, 0>>] \in Hash
                      /\ listed'[<<n, 0>>] \in {None, upstream[<<n, 0>>]}
    BY DEF ListRefs, ChangeRef, Name, PInv, TypeOK
  <1>3. \A n \in CL : Grew(listed'[<<n, 0>>], upstream[<<n, 0>>])
    BY <1>2, GrewIsReflexive DEF Grew
  <1>4. CASE deleted = {}
    <2>1. UNCHANGED <<mem, pending>>
      BY <1>4 DEF ListRefs
    <2>2. RefsRight(mem)' /\ RefsRight(stored)' /\ Plain(stored)' /\ Finished(mem)'
      BY <1>1, <2>1 DEF CInv, RefsRight, Plain, Finished, FollowsMeta
    <2>3. LogIsSame'
      BY <1>1, <2>1 DEF CInv, LogIsSame
    <2>4. MetaGrows'
      BY <1>1, <1>2, <1>3, <2>1 DEF CInv, MetaGrows
    <2> QED BY <2>2, <2>3, <2>4 DEF CInv
  <1>5. CASE deleted # {}
    <2>1. m \in Mutation /\ \A n \in CL : m.refs[<<n, 0>>] = None
      BY <1>2 DEF DeletionMutation, Mutation, Hash, NoRefs
    <2>2. AddMutation(m) /\ pending' = m
      BY <1>5 DEF ListRefs, AddMutation
    <2> HIDE DEF m
    <2>3. /\ RefsRight(mem)' /\ RefsRight(stored)' /\ Plain(stored)' /\ Finished(mem)' /\ LogIsSame'
          /\ \A n \in CL : mem'.remote[<<n, 0>>] = mem.remote[<<n, 0>>]
      BY <1>1, <2>1, <2>2, AddKeeps
    <2>4. MetaGrows'
      BY <1>1, <1>2, <1>3, <2>1, <2>2, <2>3 DEF CInv, MetaGrows, Grew
    <2> QED BY <2>3, <2>4 DEF CInv
  <1> QED BY <1>4, <1>5

LEMMA SyncCommitKeeps ==
  ASSUME PInv, PInv', CInv, SyncCommit
  PROVE  CInv'
  <1>1. PICK c \in mem.need \intersect scratch : AddMutation(CommitMutation(c))
    BY DEF SyncCommit
  <1> DEFINE m == CommitMutation(c)
  <1>2. UNCHANGED <<upstream, stored, listed>> /\ pending = None /\ AddMutation(m) /\ pending' = m
    BY <1>1 DEF SyncCommit, At, AddMutation
  <1>3. m \in Mutation /\ \A n \in CL : m.refs[<<n, 0>>] = None
    <2>1. c \in Commit
      BY DEF PInv, TypeOK
    <2> QED BY <2>1 DEF CommitMutation, Mutation, Hash, NoRefs, ChangeRef, Name
  <1> HIDE DEF m
  <1>4. /\ RefsRight(mem)' /\ RefsRight(stored)' /\ Plain(stored)' /\ Finished(mem)' /\ LogIsSame'
        /\ \A n \in CL : mem'.remote[<<n, 0>>] = mem.remote[<<n, 0>>]
    BY <1>2, <1>3, AddKeeps
  <1>5. MetaGrows'
    BY <1>2, <1>3, <1>4 DEF CInv, MetaGrows, Grew
  <1> QED BY <1>4, <1>5 DEF CInv

LEMMA LogRefsKeeps ==
  ASSUME PInv, PInv', CInv, LogRefs
  PROVE  CInv'
  <1> DEFINE refs == [n \in Name |-> IF n \in Batch THEN listed[n] ELSE None]
             m == RefsMutation(refs)
  <1>1. UNCHANGED <<upstream, stored>> /\ pending = None /\ AddMutation(m) /\ pending' = m
    BY DEF LogRefs, At, AddMutation
  <1>2. listed \in [Name -> Hash] /\ upstream \in [Name -> Hash] /\ mem.remote \in [ChangeRef -> Hash]
    BY DEF PInv, TypeOK, Corpus
  <1>3. \A n \in CL : <<n, 0>> \in Name /\ <<n, 0>> \in ChangeRef
    BY DEF ChangeRef, Name
  <1>4. m \in Mutation /\ m.refs = refs
    BY <1>2 DEF RefsMutation, Mutation, Hash
  <1>5. \A n \in CL : \/ refs[<<n, 0>>] = None /\ listed'[<<n, 0>>] = listed[<<n, 0>>]
                      \/ refs[<<n, 0>>] = listed[<<n, 0>>] /\ listed'[<<n, 0>>] = None
    BY <1>3 DEF LogRefs
  <1>6. \A n \in CL : m.refs[<<n, 0>>] # None =>
          /\ Linear(m.refs[<<n, 0>>]) /\ Grew(mem.remote[<<n, 0>>], m.refs[<<n, 0>>])
          /\ Grew(m.refs[<<n, 0>>], upstream[<<n, 0>>])
    BY <1>2, <1>3, <1>4, <1>5, LinearIsInherited DEF CInv, MetaGrows
  <1> HIDE DEF m, refs
  <1>7. /\ RefsRight(mem)' /\ RefsRight(stored)' /\ Plain(stored)' /\ Finished(mem)' /\ LogIsSame'
        /\ \A n \in CL : \/ mem'.remote[<<n, 0>>] = mem.remote[<<n, 0>>]
                         \/ /\ m.refs[<<n, 0>>] # None
                            /\ mem'.remote[<<n, 0>>] = m.refs[<<n, 0>>]
    BY <1>1, <1>4, <1>6, AddKeeps
  <1>8. MetaGrows'
    BY <1>1, <1>4, <1>5, <1>6, <1>7 DEF CInv, MetaGrows, Grew
  <1> QED BY <1>7, <1>8 DEF CInv

LEMMA LogKeeps ==
  ASSUME PInv, CInv, Log
  PROVE  CInv'
  <1> DEFINE P == Process(stored, pending)
  <1>1. /\ stored \in Corpus /\ pending \in Mutation /\ pending # None /\ pending' = None
        /\ UNCHANGED <<upstream, mem, listed>> /\ stored' = P
    BY DEF PInv, TypeOK, Log
  <1>2. RefsRight(P) /\ Plain(P)
    BY <1>1, ProcessKeepsRight, ProcessKeepsPlain DEF CInv
  <1>3. Same(mem, P)
    BY <1>1 DEF CInv, LogIsSame
  <1>4. \A n \in CL : \/ P.remote[<<n, 0>>] = stored.remote[<<n, 0>>]
                      \/ P.remote[<<n, 0>>] = pending.refs[<<n, 0>>]
    BY <1>1, RemoteAfter DEF ChangeRef
  <1> HIDE DEF P
  <1>5. RefsRight(mem)' /\ Finished(mem)' /\ RefsRight(stored)' /\ Plain(stored)'
    BY <1>1, <1>2 DEF CInv, RefsRight, Plain, Finished, FollowsMeta
  <1>6. LogIsSame'
    BY <1>1, <1>3 DEF LogIsSame
  <1>7. MetaGrows'
    BY <1>1, <1>4 DEF CInv, MetaGrows
  <1> QED BY <1>5, <1>6, <1>7 DEF CInv

LEMMA FetchBatchKeeps ==
  ASSUME PInv, CInv, FetchBatch
  PROVE  CInv'
  <1> DEFINE need == mem.need \union (Wanted \ mem.indexed)
  <1>1. mem \in Corpus /\ mem' = [mem EXCEPT !.need = need]
    BY DEF PInv, TypeOK, FetchBatch
  <1> HIDE DEF need
  <1>2. /\ mem'.known = mem.known /\ mem'.indexed = mem.indexed /\ mem'.ref = mem.ref
        /\ mem'.remote = mem.remote /\ mem'.referencing = mem.referencing
        /\ mem'.cl = mem.cl /\ mem'.dirty = mem.dirty
    BY <1>1 DEF Corpus
  <1>3. UNCHANGED <<upstream, stored, pending, listed>> /\ pending = None
    BY DEF FetchBatch, At
  <1>4. RefsRight(mem)' /\ RefsRight(stored)' /\ Plain(stored)' /\ Finished(mem)'
    BY <1>2, <1>3 DEF CInv, RefsRight, Plain, Finished, FollowsMeta
  <1>5. LogIsSame'
    BY <1>2, <1>3 DEF CInv, LogIsSame, Same
  <1>6. MetaGrows'
    BY <1>2, <1>3 DEF CInv, MetaGrows
  <1> QED BY <1>4, <1>5, <1>6 DEF CInv

LEMMA CrashKeeps ==
  ASSUME PInv, CInv, Crash
  PROVE  CInv'
  <1> DEFINE F == Finish(stored)
  <1>1. stored \in Corpus /\ DirtyHasMeta(stored) /\ RefsAreWhole(stored) /\ RefsRight(stored) /\ Plain(stored)
    BY DEF PInv, TypeOK, RefsFollowCommits, CInv
  <1>2. Finished(F) /\ Same(F, stored)
    BY <1>1, PlainIsFinished, FinishExactly
  <1>3. mem' = F /\ pending' = None /\ listed' = NoRefs /\ UNCHANGED <<upstream, stored>>
    BY DEF Crash
  <1> HIDE DEF F
  <1>4. RefsRight(F)
    BY <1>1, <1>2, SameKeepsRight
  <1>5. RefsRight(mem)' /\ RefsRight(stored)' /\ Plain(stored)' /\ Finished(mem)'
    BY <1>1, <1>2, <1>3, <1>4 DEF RefsRight, Plain, Finished, FollowsMeta
  <1>6. LogIsSame'
    BY <1>2, <1>3 DEF LogIsSame
  <1>7. \A n \in CL : mem'.remote[<<n, 0>>] = stored.remote[<<n, 0>>] /\ listed'[<<n, 0>>] = None
    BY <1>2, <1>3 DEF Same, NoRefs, ChangeRef, Name
  <1>8. MetaGrows'
    BY <1>3, <1>7 DEF CInv, MetaGrows, Grew
  <1> QED BY <1>5, <1>6, <1>8 DEF CInv

\* On the server a meta history grows, and has no merges.
LEMMA PushGrows ==
  ASSUME TypeOK, CInv, Push, NEW n \in CL
  PROVE  Grew(upstream[<<n, 0>>], upstream'[<<n, 0>>]) /\ Linear(upstream'[<<n, 0>>])
  <1>1. PICK move \in Moves :
          /\ \A update \in move : upstream[update[1]] = update[2]
          /\ upstream' = [k \in Name |->
               IF \E update \in move : update[1] = k
               THEN (CHOOSE update \in move : update[1] = k)[3] ELSE upstream[k]]
    BY DEF Push
  <1>2. <<n, 0>> \in Name /\ <<n, 0>> \in CL \X {0} /\ upstream[<<n, 0>>] \in Hash
    BY DEF TypeOK, ChangeRef, Name
  <1>3. CASE ~ \E update \in move : update[1] = <<n, 0>>
    <2>1. upstream'[<<n, 0>>] = upstream[<<n, 0>>]
      BY <1>1, <1>2, <1>3
    <2> QED BY <1>2, <2>1, GrewIsReflexive DEF CInv, MetaGrows
  <1>4. CASE \E update \in move : update[1] = <<n, 0>>
    <2> DEFINE update == CHOOSE u \in move : u[1] = <<n, 0>>
    <2>1. update \in move /\ update[1] = <<n, 0>> /\ upstream'[<<n, 0>>] = update[3]
      BY <1>1, <1>2, <1>4
    <2> HIDE DEF update
    <2>2. /\ update[3] # None
          /\ update[2] # None => update[2] \in Ancestors[update[3]]
      BY <1>2, <2>1, ServerAssumption
    <2>3. Linear(update[3])
      BY <1>2, <2>1, <2>2, MetaAssumption DEF Linear
    <2>4. update[2] = upstream[<<n, 0>>]
      BY <1>1, <2>1
    <2> QED BY <2>1, <2>2, <2>3, <2>4 DEF Grew
  <1> QED BY <1>3, <1>4

LEMMA PushKeeps ==
  ASSUME PInv, PInv', CInv, Push
  PROVE  CInv'
  <1>1. UNCHANGED <<mem, stored, pending, listed>>
    BY DEF Push
  <1>2. RefsRight(mem)' /\ RefsRight(stored)' /\ Plain(stored)' /\ Finished(mem)'
    BY <1>1 DEF CInv, RefsRight, Plain, Finished, FollowsMeta
  <1>3. LogIsSame'
    BY <1>1 DEF CInv, LogIsSame
  <1>4. ASSUME NEW n \in CL
        PROVE  /\ Linear(upstream'[<<n, 0>>])
               /\ Grew(mem.remote[<<n, 0>>], upstream'[<<n, 0>>])
               /\ Grew(stored.remote[<<n, 0>>], upstream'[<<n, 0>>])
               /\ Grew(listed[<<n, 0>>], upstream'[<<n, 0>>])
               /\ pending # None => Grew(pending.refs[<<n, 0>>], upstream'[<<n, 0>>])
    <2>1. /\ upstream[<<n, 0>>] \in Hash /\ upstream'[<<n, 0>>] \in Hash
          /\ mem.remote[<<n, 0>>] \in Hash /\ stored.remote[<<n, 0>>] \in Hash
          /\ listed[<<n, 0>>] \in Hash
          /\ pending # None => pending.refs[<<n, 0>>] \in Hash
      BY DEF PInv, TypeOK, Corpus, Mutation, ChangeRef, Name
    <2>2. Grew(upstream[<<n, 0>>], upstream'[<<n, 0>>]) /\ Linear(upstream'[<<n, 0>>])
      BY PushGrows DEF PInv
    <2> QED BY <2>1, <2>2, GrewIsTransitive DEF CInv, MetaGrows
  <1>5. MetaGrows'
    BY <1>1, <1>4 DEF CInv, MetaGrows
  <1> QED BY <1>2, <1>3, <1>5 DEF CInv

LEMMA CInvNext ==
  ASSUME PInv, PInv', CInv, [Next]_vars
  PROVE  CInv'
  <1>1. CASE \/ SyncMissing \/ NothingMissing \/ FetchOrigin
             \/ CycleEnds \/ FetchFails \/ Fails \/ UNCHANGED vars
    <2>1. /\ UNCHANGED <<upstream, mem, stored, pending>>
          /\ UNCHANGED listed \/ listed' = NoRefs
      BY <1>1 DEF SyncMissing, NothingMissing, FetchOrigin, CycleEnds, FetchFails, Fails, Returns, vars
    <2> QED BY <2>1, QuietKeeps
  <1>2. CASE ListRefs \/ FetchBatch \/ SyncCommit \/ LogRefs \/ Log \/ Crash \/ Push
    BY <1>2, ListRefsKeeps, FetchBatchKeeps, SyncCommitKeeps, LogRefsKeeps, LogKeeps,
       CrashKeeps, PushKeeps
  <1> QED BY <1>1, <1>2 DEF Next, Poller

LEMMA CInvHolds == Spec => []CInv
  BY PInvHolds, CInvInit, CInvNext, PTL DEF Spec

-----------------------------------------------------------------------------
\* What is shown of a change is what the whole history of its meta ref says,
\* though a status is never reset and the marks only accumulate: what the history
\* said before it grew it still says (gerrit.go:838-908, 516-541).
THEOREM ChangesAreRight == Spec => []ChangesFollowMeta
  <1>1. CInv => ChangesFollowMeta
    BY DEF CInv, RefsRight, Finished, ChangesFollowMeta
  <1> QED BY <1>1, CInvHolds, PTL

LEMMA ReplayIsSame ==
  ASSUME PInv, CInv, pending = None
  PROVE  LET again == Finish(stored) IN
         /\ Same(again, mem)
         /\ \A n \in CL : [again.cl[n] EXCEPT !.labels = 0] = [mem.cl[n] EXCEPT !.labels = 0]
  <1> DEFINE F == Finish(stored)
  <1>1. /\ stored \in Corpus /\ DirtyHasMeta(stored) /\ RefsAreWhole(stored)
        /\ RefsRight(stored) /\ Plain(stored) /\ Same(mem, stored) /\ mem \in Corpus
    BY DEF PInv, TypeOK, RefsFollowCommits, CInv, LogIsSame
  <1>2. F \in Corpus /\ Finished(F) /\ Same(F, stored)
    BY <1>1, PlainIsFinished, FinishExactly
  <1> HIDE DEF F
  <1>3. Same(F, mem)
    BY <1>1, <1>2 DEF Same
  <1>4. ASSUME NEW n \in CL
        PROVE  [F.cl[n] EXCEPT !.labels = 0] = [mem.cl[n] EXCEPT !.labels = 0]
    <2> DEFINE C == F.cl[n]
               D == mem.cl[n]
    <2>1. C \in Change /\ D \in Change
      BY <1>1, <1>2 DEF Corpus
    <2>2. C.meta = D.meta /\ C.commit = D.commit /\ C.version = D.version
      BY <1>3 DEF Same
    <2>3. C.metas = D.metas /\ C.status = D.status /\ C.private = D.private
      <3>1. FollowsMeta(F, n) /\ FollowsMeta(mem, n)
        BY <1>2 DEF CInv, Finished
      <3> QED BY <2>2, <3>1 DEF FollowsMeta
    <2> HIDE DEF C, D
    <2>4. [C EXCEPT !.labels = 0] = [D EXCEPT !.labels = 0]
      BY <2>1, <2>2, <2>3 DEF Change
    <2> QED BY <2>4 DEF C, D
  <1> QED BY <1>3, <1>4 DEF F

\* A restart makes of the log what the leader has, though it looks at a change
\* once where the leader looked after each mutation (maintner.go:527-545,
\* gerrit.go:838-845).
THEOREM RestartMatches == Spec => []ReplayMatches
  <1>1. PInv /\ CInv => ReplayMatches
    BY ReplayIsSame DEF ReplayMatches, Same
  <1> QED BY <1>1, PInvHolds, CInvHolds, PTL

-----------------------------------------------------------------------------
\* A step on the server keeps the patch sets of a change that are there and brings
\* those that a meta history newly announces.
LEMMA PushAnnounces ==
  ASSUME TypeOK, Push, NEW n \in CL,
         Announced(upstream[<<n, 0>>]) \subseteq PatchSetRefs(upstream, n)
  PROVE  Announced(upstream'[<<n, 0>>]) \subseteq PatchSetRefs(upstream', n)
  <1>1. PICK move \in Moves :
          /\ \A update \in move : upstream[update[1]] = update[2]
          /\ upstream' = [k \in Name |->
               IF \E update \in move : update[1] = k
               THEN (CHOOSE update \in move : update[1] = k)[3] ELSE upstream[k]]
    BY DEF Push
  <1>2. ASSUME NEW update \in move, update[1] \in Name PROVE upstream'[update[1]] = update[3]
    <2> DEFINE other == CHOOSE u \in move : u[1] = update[1]
    <2>1. other \in move /\ other[1] = update[1] /\ upstream'[update[1]] = other[3]
      BY <1>1, <1>2
    <2> HIDE DEF other
    <2>2. other = update
      BY <2>1, ServerAssumption
    <2> QED BY <2>1, <2>2
  <1>3. ASSUME NEW k \in Name, ~ \E update \in move : update[1] = k PROVE upstream'[k] = upstream[k]
    BY <1>1, <1>3
  <1>4. \A k \in PatchSet \union {0} : <<n, k>> \in Name
    BY DEF Name, ChangeRef
  <1>5. PatchSetRefs(upstream, n) \ {None} \subseteq PatchSetRefs(upstream', n)
    <2> SUFFICES ASSUME NEW k \in PatchSet, upstream[<<n, k>>] # None
                 PROVE  upstream'[<<n, k>>] = upstream[<<n, k>>]
      BY DEF PatchSetRefs
    <2>1. ASSUME NEW update \in move, update[1] = <<n, k>> PROVE FALSE
      <3>1. update[1] \in CL \X PatchSet
        BY <2>1
      <3>2. update[2] = None
        BY <3>1, ServerAssumption
      <3> QED BY <1>1, <2>1, <3>2
    <2> QED BY <1>3, <1>4, <2>1
  <1>6. None \notin Announced(upstream[<<n, 0>>]) /\ None \notin Announced(upstream'[<<n, 0>>])
    BY DEF Announced
  <1>7. CASE ~ \E update \in move : update[1] = <<n, 0>>
    BY <1>3, <1>4, <1>5, <1>6, <1>7
  <1>8. CASE \E update \in move : update[1] = <<n, 0>>
    <2>1. PICK update \in move : update[1] = <<n, 0>>
      BY <1>8
    <2>2. upstream'[<<n, 0>>] = update[3] /\ update[2] = upstream[<<n, 0>>]
      <3>1. update[1] \in Name
        BY <1>4, <2>1
      <3>2. upstream'[update[1]] = update[3]
        BY <1>2, <3>1
      <3>3. upstream[update[1]] = update[2]
        BY <1>1
      <3> QED BY <2>1, <3>2, <3>3
    <2>3. /\ update[3] # None
          /\ \A c \in Ancestors[update[3]] : Uploads[c] # None =>
               \/ update[2] # None /\ c \in Ancestors[update[2]]
               \/ \E k \in PatchSet : << <<n, k>>, None, Uploads[c]>> \in move
      <3>1. update[1] \in CL \X {0} /\ update[1][1] = n
        BY <2>1
      <3> QED BY <3>1, ServerAssumption
    <2>4. ASSUME NEW c \in Ancestors[update[3]], Uploads[c] # None
          PROVE  Uploads[c] \in PatchSetRefs(upstream', n)
      <3>1. CASE update[2] # None /\ c \in Ancestors[update[2]]
        <4>1. Uploads[c] \in Announced(upstream[<<n, 0>>])
          BY <2>2, <2>4, <3>1 DEF Announced
        <4> QED BY <1>5, <2>4, <4>1
      <3>2. CASE \E k \in PatchSet : << <<n, k>>, None, Uploads[c]>> \in move
        <4>1. PICK k \in PatchSet : << <<n, k>>, None, Uploads[c]>> \in move
          BY <3>2
        <4>2. upstream'[<<n, k>>] = Uploads[c]
          BY <1>2, <1>4, <4>1
        <4> QED BY <4>2 DEF PatchSetRefs
      <3> QED BY <2>3, <2>4, <3>1, <3>2
    <2> QED BY <2>2, <2>3, <2>4 DEF Announced
  <1> QED BY <1>7, <1>8

\* In a listing, the announced patch sets are there or have been indexed.
LEMMA ListingAnnounces ==
  ASSUME PInv, ListRefs, NEW n \in CL,
         Announced(upstream[<<n, 0>>]) \subseteq PatchSetRefs(upstream, n)
  PROVE  Announced(listed'[<<n, 0>>]) \subseteq mem.indexed \union PatchSetRefs(listed', n)
  <1>1. \A k \in PatchSet \union {0} :
          /\ <<n, k>> \in Name /\ <<n, k>> \notin Branch /\ <<n, k>> \notin Untracked
          /\ <<n, k>> \in ChangeRef
    BY GerritAssumption DEF Name, ChangeRef
  <1>2. \A k \in PatchSet \union {0} :
          listed'[<<n, k>>] = IF upstream[<<n, k>>] = mem.remote[<<n, k>>]
                              THEN None ELSE upstream[<<n, k>>]
    BY <1>1 DEF ListRefs, Current
  <1>3. Announced(listed'[<<n, 0>>]) \subseteq Announced(upstream[<<n, 0>>])
    BY <1>2 DEF Announced
  <1>4. ASSUME NEW k \in PatchSet, upstream[<<n, k>>] # None
        PROVE  upstream[<<n, k>>] \in mem.indexed \union PatchSetRefs(listed', n)
    <2>1. CASE upstream[<<n, k>>] = mem.remote[<<n, k>>]
      <3>1. Current(mem, <<n, k>>) = upstream[<<n, k>>] /\ upstream[<<n, k>>] \in Commit
        BY <1>1, <1>4, <2>1 DEF Current, PInv, TypeOK, Hash
      <3>2. Ancestors[upstream[<<n, k>>]] \subseteq mem.indexed
        BY <1>1, <1>4, <3>1 DEF PInv, RefsFollowCommits, RefsAreWhole
      <3> QED BY <3>1, <3>2, AncestorsAreClosed
    <2>2. CASE upstream[<<n, k>>] # mem.remote[<<n, k>>]
      BY <1>2, <2>2 DEF PatchSetRefs
    <2> QED BY <2>1, <2>2
  <1>5. None \notin Announced(listed'[<<n, 0>>])
    BY DEF Announced
  <1> QED BY <1>3, <1>4, <1>5 DEF PatchSetRefs

\* A batch with the meta ref of a change has all its patch sets that are listed.
LEMMA BatchHasPatchSets ==
  ASSUME TypeOK, NEW n \in CL, <<n, 0>> \in Batch, NEW k \in PatchSet, listed[<<n, k>>] # None
  PROVE  <<n, k>> \in Batch
  <1> DEFINE Before(r) == {j \in Left : Position[j] < Position[r]}
  <1>1. <<n, 0>> \in Name /\ <<n, k>> \in Name /\ <<n, k>> \in Left
    BY DEF Name, ChangeRef, Left
  <1>2. Position \in [Name -> Nat] /\ Position[<<n, k>>] < Position[<<n, 0>>]
    BY GerritAssumption, PositionAssumption
  <1>3. Before(<<n, k>>) \subseteq Before(<<n, 0>>)
    BY <1>1, <1>2 DEF Left
  <1>4. IsFiniteSet(Before(<<n, 0>>))
    <2>1. Before(<<n, 0>>) \subseteq Name /\ IsFiniteSet(Name)
      BY GerritAssumption DEF Left
    <2> HIDE DEF Before
    <2> QED BY <2>1, FS_Subset
  <1>5. Cardinality(Before(<<n, 0>>)) < BatchSize
    BY DEF Batch
  <1>6. Cardinality(Before(<<n, k>>)) < BatchSize
    <2> HIDE DEF Before
    <2>1. /\ IsFiniteSet(Before(<<n, k>>))
          /\ Cardinality(Before(<<n, k>>)) <= Cardinality(Before(<<n, 0>>))
      BY <1>3, <1>4, FS_Subset
    <2>2. Cardinality(Before(<<n, k>>)) \in Nat /\ Cardinality(Before(<<n, 0>>)) \in Nat
      BY <1>4, <2>1, FS_CardinalityType
    <2> QED BY <1>5, <2>1, <2>2, GerritAssumption
  <1> QED BY <1>1, <1>6 DEF Batch

\* What a mutation makes of the ref of a change, in the leader.
LEMMA AddRemote ==
  ASSUME PInv, NEW m \in Mutation, AddMutation(m), NEW r \in ChangeRef
  PROVE  /\ mem.indexed \subseteq mem'.indexed
         /\ \/ mem'.remote[r] = mem.remote[r]
            \/ m.refs[r] # None /\ mem'.remote[r] = m.refs[r]
  <1> DEFINE P == Process(mem, m)
  <1>1. mem \in Corpus /\ DirtyHasMeta(mem)
    BY DEF PInv, TypeOK
  <1>2. P \in Corpus /\ DirtyHasMeta(P) /\ mem.indexed \subseteq P.indexed
    <2>1. P \in Corpus
      BY <1>1, ProcessParts
    <2>2. DirtyHasMeta(P)
      BY <1>1, ProcessParts
    <2>3. P.indexed = mem.indexed \union Parsed(m.commit)
      BY <1>1, ProcessParts
    <2> HIDE DEF P
    <2> QED BY <2>1, <2>2, <2>3
  <1>3. \/ P.remote[r] = mem.remote[r]
        \/ m.refs[r] # None /\ P.remote[r] = m.refs[r]
    BY <1>1, RemoteAfter
  <1>4. mem' = Finish(P)
    BY DEF AddMutation
  <1> HIDE DEF P
  <1>5. mem'.indexed = P.indexed /\ mem'.remote = P.remote
    BY <1>2, <1>4, FinishParts
  <1> QED BY <1>2, <1>3, <1>5

LEMMA UInvInit ==
  ASSUME Init
  PROVE  UInv
  <1>1. \A n \in CL : /\ EmptyCorpus.remote[<<n, 0>>] = None
                      /\ upstream[<<n, 0>>] = None /\ listed[<<n, 0>>] = None
    BY DEF Init, EmptyCorpus, NoRefs, ChangeRef, Name
  <1>2. Announced(None) = {}
    BY DEF Announced
  <1> QED BY <1>1, <1>2 DEF Init, UInv

LEMMA UInvNext ==
  ASSUME PInv, PInv', UInv, [Next]_vars
  PROVE  UInv'
  <1> SUFFICES ASSUME NEW n \in CL
               PROVE  /\ Announced(mem'.remote[<<n, 0>>]) \subseteq mem'.indexed
                      /\ Announced(stored'.remote[<<n, 0>>]) \subseteq stored'.indexed
                      /\ pending' # None => Announced(pending'.refs[<<n, 0>>]) \subseteq stored'.indexed
                      /\ Announced(upstream'[<<n, 0>>]) \subseteq PatchSetRefs(upstream', n)
                      /\ Announced(listed'[<<n, 0>>]) \subseteq mem'.indexed \union PatchSetRefs(listed', n)
    BY DEF UInv
  <1>1. /\ Announced(mem.remote[<<n, 0>>]) \subseteq mem.indexed
        /\ Announced(stored.remote[<<n, 0>>]) \subseteq stored.indexed
        /\ pending # None => Announced(pending.refs[<<n, 0>>]) \subseteq stored.indexed
        /\ Announced(upstream[<<n, 0>>]) \subseteq PatchSetRefs(upstream, n)
        /\ Announced(listed[<<n, 0>>]) \subseteq mem.indexed \union PatchSetRefs(listed, n)
    BY DEF UInv
  <1>2. Announced(None) = {} /\ \A v : None \notin Announced(v)
    BY DEF Announced
  <1>3. /\ TypeOK /\ mem \in Corpus /\ stored \in Corpus /\ DirtyHasMeta(mem) /\ DirtyHasMeta(stored)
        /\ <<n, 0>> \in ChangeRef /\ <<n, 0>> \in Name
    BY DEF PInv, TypeOK, ChangeRef, Name
  <1>4. NoRefs[<<n, 0>>] = None
    BY <1>3 DEF NoRefs
  <1>5. pending = None => stored.indexed = mem.indexed
    BY DEF PInv, LogLags
  <1>6. CASE \/ SyncMissing \/ NothingMissing \/ FetchOrigin
             \/ CycleEnds \/ FetchFails \/ Fails \/ UNCHANGED vars
    <2>1. /\ UNCHANGED <<upstream, mem, stored, pending>>
          /\ UNCHANGED listed \/ listed' = NoRefs
      BY <1>6 DEF SyncMissing, NothingMissing, FetchOrigin, CycleEnds, FetchFails, Fails, Returns, vars
    <2> QED BY <1>1, <1>2, <1>4, <2>1 DEF PatchSetRefs
  <1>7. CASE FetchBatch
    <2> DEFINE need == mem.need \union (Wanted \ mem.indexed)
    <2>1. mem' = [mem EXCEPT !.need = need] /\ UNCHANGED <<upstream, stored, pending, listed>>
      BY <1>7 DEF FetchBatch
    <2> HIDE DEF need
    <2>2. mem'.remote = mem.remote /\ mem'.indexed = mem.indexed
      BY <1>3, <2>1 DEF Corpus
    <2> QED BY <1>1, <2>1, <2>2 DEF PatchSetRefs
  <1>8. CASE ListRefs
    <2> DEFINE deleted == {b \in Branch : mem.ref[b] # None /\ upstream[b] = None}
               m == DeletionMutation(deleted)
    <2>1. Announced(listed'[<<n, 0>>]) \subseteq mem.indexed \union PatchSetRefs(listed', n)
      BY <1>1, <1>8, ListingAnnounces
    <2>2. UNCHANGED <<upstream, stored>> /\ pending = None
      BY <1>8 DEF ListRefs, At
    <2>3. CASE deleted = {}
      <3>1. UNCHANGED <<mem, pending>>
        BY <1>8, <2>3 DEF ListRefs
      <3> QED BY <1>1, <2>1, <2>2, <3>1 DEF PatchSetRefs
    <2>4. CASE deleted # {}
      <3>1. m \in Mutation /\ m.refs[<<n, 0>>] = None
        BY <1>3, <1>4 DEF DeletionMutation, Mutation, Hash, NoRefs
      <3>2. AddMutation(m) /\ pending' = m
        BY <1>8, <2>4 DEF ListRefs, AddMutation
      <3> HIDE DEF m
      <3>3. mem.indexed \subseteq mem'.indexed /\ mem'.remote[<<n, 0>>] = mem.remote[<<n, 0>>]
        BY <1>3, <3>1, <3>2, AddRemote
      <3> QED BY <1>1, <1>2, <2>1, <2>2, <3>1, <3>2, <3>3 DEF PatchSetRefs
    <2> QED BY <2>3, <2>4
  <1>9. CASE SyncCommit
    <2>1. PICK c \in mem.need \intersect scratch : AddMutation(CommitMutation(c))
      BY <1>9 DEF SyncCommit
    <2> DEFINE m == CommitMutation(c)
    <2>2. UNCHANGED <<upstream, stored, listed>> /\ AddMutation(m) /\ pending' = m
      BY <1>9, <2>1 DEF SyncCommit, AddMutation
    <2>3. m \in Mutation /\ m.refs[<<n, 0>>] = None
      <3>1. c \in Commit
        BY <1>3 DEF TypeOK
      <3> QED BY <1>3, <3>1 DEF CommitMutation, Mutation, Hash, NoRefs
    <2> HIDE DEF m
    <2>4. mem.indexed \subseteq mem'.indexed /\ mem'.remote[<<n, 0>>] = mem.remote[<<n, 0>>]
      BY <1>3, <2>2, <2>3, AddRemote
    <2> QED BY <1>1, <1>2, <2>2, <2>3, <2>4 DEF PatchSetRefs
  <1>10. CASE LogRefs
    <2> DEFINE refs == [r \in Name |-> IF r \in Batch THEN listed[r] ELSE None]
               m == RefsMutation(refs)
    <2>1. /\ UNCHANGED <<upstream, stored>> /\ AddMutation(m) /\ pending' = m /\ pending = None
          /\ listed' = [r \in Name |-> IF r \in Batch THEN None ELSE listed[r]]
          /\ Wanted \subseteq mem.indexed
      BY <1>10 DEF LogRefs, At, AddMutation, PInv, WalkHasBatch
    <2>2. m \in Mutation /\ m.refs = refs
      BY <1>3 DEF RefsMutation, Mutation, Hash, TypeOK
    <2>3. refs[<<n, 0>>] = IF <<n, 0>> \in Batch THEN listed[<<n, 0>>] ELSE None
      BY <1>3
    <2> HIDE DEF m, refs
    <2>4. /\ mem.indexed \subseteq mem'.indexed
          /\ \/ mem'.remote[<<n, 0>>] = mem.remote[<<n, 0>>]
             \/ mem'.remote[<<n, 0>>] = refs[<<n, 0>>]
      BY <1>3, <2>1, <2>2, AddRemote
    <2>5. ASSUME <<n, 0>> \in Batch PROVE Announced(listed[<<n, 0>>]) \subseteq mem.indexed
      <3>1. ASSUME NEW k \in PatchSet, listed[<<n, k>>] # None
            PROVE  listed[<<n, k>>] \in mem.indexed
        <4>1. <<n, k>> \in Batch
          BY <1>3, <2>5, <3>1, BatchHasPatchSets
        <4> QED BY <2>1, <4>1 DEF Wanted
      <3> QED BY <1>1, <1>2, <3>1 DEF PatchSetRefs
    <2>6. Announced(refs[<<n, 0>>]) \subseteq mem.indexed
      BY <1>2, <2>3, <2>5
    <2>7. Announced(listed'[<<n, 0>>]) \subseteq mem.indexed \union PatchSetRefs(listed', n)
      <3>1. \A k \in PatchSet : <<n, k>> \in Name
        BY DEF Name, ChangeRef
      <3>2. ASSUME NEW k \in PatchSet, listed[<<n, k>>] # None
            PROVE  listed[<<n, k>>] \in mem.indexed \union PatchSetRefs(listed', n)
        <4>1. CASE <<n, k>> \in Batch
          BY <2>1, <4>1 DEF Wanted
        <4>2. CASE <<n, k>> \notin Batch
          BY <2>1, <3>1, <4>2 DEF PatchSetRefs
        <4> QED BY <4>1, <4>2
      <3>3. Announced(listed'[<<n, 0>>]) \subseteq Announced(listed[<<n, 0>>])
        <4>1. listed'[<<n, 0>>] = IF <<n, 0>> \in Batch THEN None ELSE listed[<<n, 0>>]
          BY <1>3, <2>1
        <4>2. CASE <<n, 0>> \in Batch
          BY <1>2, <4>1, <4>2
        <4>3. CASE <<n, 0>> \notin Batch
          BY <4>1, <4>3
        <4> QED BY <4>2, <4>3
      <3>4. ASSUME NEW u \in Announced(listed[<<n, 0>>])
            PROVE  u \in mem.indexed \union PatchSetRefs(listed', n)
        <4>1. u # None
          BY <1>2
        <4>2. CASE u \in PatchSetRefs(listed, n)
          <5>1. PICK k \in PatchSet : u = listed[<<n, k>>]
            BY <4>2 DEF PatchSetRefs
          <5> QED BY <3>2, <4>1, <5>1
        <4> QED BY <1>1, <4>2
      <3> QED BY <3>3, <3>4
    <2> QED BY <1>1, <1>5, <2>1, <2>2, <2>4, <2>6, <2>7
  <1>11. CASE Log
    <2> DEFINE P == Process(stored, pending)
    <2>1. /\ UNCHANGED <<upstream, mem, listed>> /\ pending' = None /\ stored' = P
          /\ pending \in Mutation /\ pending # None
      BY <1>3, <1>11 DEF Log, TypeOK
    <2>2. /\ stored.indexed \subseteq P.indexed
          /\ P.remote[<<n, 0>>] \in {stored.remote[<<n, 0>>], pending.refs[<<n, 0>>]}
      <3>1. P.indexed = stored.indexed \union Parsed(pending.commit)
        BY <1>3, <2>1, ProcessParts
      <3>2. \/ P.remote[<<n, 0>>] = stored.remote[<<n, 0>>]
            \/ P.remote[<<n, 0>>] = pending.refs[<<n, 0>>]
        BY <1>3, <2>1, RemoteAfter
      <3> HIDE DEF P
      <3> QED BY <3>1, <3>2
    <2> HIDE DEF P
    <2> QED BY <1>1, <2>1, <2>2 DEF PatchSetRefs
  <1>12. CASE Crash
    <2>1. mem' = Finish(stored) /\ pending' = None /\ listed' = NoRefs /\ UNCHANGED <<upstream, stored>>
      BY <1>12 DEF Crash
    <2>2. mem'.indexed = stored.indexed /\ mem'.remote = stored.remote
      BY <1>3, <2>1, FinishParts
    <2> QED BY <1>1, <1>2, <1>4, <2>1, <2>2
  <1>13. CASE Push
    <2>1. UNCHANGED <<mem, stored, pending, listed>>
      BY <1>13 DEF Push
    <2>2. Announced(upstream'[<<n, 0>>]) \subseteq PatchSetRefs(upstream', n)
      BY <1>1, <1>3, <1>13, PushAnnounces
    <2> QED BY <1>1, <2>1, <2>2 DEF PatchSetRefs
  <1> QED BY <1>6, <1>7, <1>8, <1>9, <1>10, <1>11, <1>12, <1>13 DEF Next, Poller

LEMMA UInvHolds == Spec => []UInv
  BY PInvHolds, UInvInit, UInvNext, PTL DEF Spec

\* Whoever walks a meta history finds the commit of every patch set it announces,
\* though a batch may end between a patch set and the meta ref
\* (gerrit.go:1145-1174, 1495-1505).
THEOREM UploadsAreThere == Spec => []UploadsAreIndexed
  <1>1. CInv /\ UInv => UploadsAreIndexed
    <2> SUFFICES ASSUME CInv, UInv, NEW n \in CL, NEW c \in mem.cl[n].metas, Uploads[c] # None
                 PROVE  Uploads[c] \in mem.indexed
      BY DEF UploadsAreIndexed
    <2> DEFINE w == mem.remote[<<n, 0>>]
    <2>1. mem.cl[n].metas = IF w = None THEN {} ELSE Ancestors[w]
      BY DEF CInv, Finished, FollowsMeta
    <2>2. Announced(w) \subseteq mem.indexed
      BY DEF UInv
    <2> HIDE DEF w
    <2>3. Uploads[c] \in Announced(w)
      BY <2>1 DEF Announced
    <2> QED BY <2>2, <2>3
  <1> QED BY <1>1, CInvHolds, UInvHolds, PTL
=============================================================================
