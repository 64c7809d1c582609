--------------------------- MODULE GitSyncProofs ---------------------------
(***************************************************************************)
(* Proofs about GitSync, for any repositories, any graph of commits, any   *)
(* pushes and any number of failures and crashes: no corpus forgets a      *)
(* commit it has heard of, what is queued for a repository is in its       *)
(* scratch directory, the log gives what the leader has, and a ref is      *)
(* logged after the part of its history that no other remote shares.       *)
(*                                                                         *)
(* Nothing is queued that was not fetched, because a scratch directory is  *)
(* closed under parents and targets (git fetches whole histories), a       *)
(* goroutine indexes only objects it has read from its own directory, and  *)
(* a commit's parents are queued for the repository of the mutation, in    *)
(* the corpus and in any replay of the log alike.                          *)
(*                                                                         *)
(* The log gives what the leader has because each mutation says all that   *)
(* it changes: the corpus is at any moment what the log gives and what is  *)
(* on its way. A ref comes after its history because a commit that no      *)
(* other remote has is queued for one repository only, and the goroutine   *)
(* of that repository logs refs when its queue is empty.                   *)
(***************************************************************************)
EXTENDS GitSync, TLAPS

\* A directory has the parents of its commits and the targets of its tags.
Whole(S) ==
  /\ \A c \in S \intersect Commit : Parents[c] \subseteq S
  /\ \A t \in S \intersect Tag : Target[t] \in S

ScratchIsWhole == \A r \in Repo : Whole(scratch[r])

\* What step 5 has looked at is in the scratch directory.
ClassifiedIsFetched ==
  \A r \in Repo, n \in Ref :
    pc[r] = "classify" /\ updates[r][n] # None /\ n \notin left[r] =>
      updates[r][n] \in scratch[r]

\* A commit on its way to the log was read from its repository's directory.
PendingIsFetched ==
  \A r \in Repo : pending[r] # None =>
    /\ pending[r].repo = r
    /\ pending[r].kind = "commit" => pending[r].object \in scratch[r]

IndexingHasHash == \A r \in Repo : pc[r] = "index" => picked[r] # None

\* Steps 5 and 8 visit only the refs that moved.
LeftHasMoved ==
  \A r \in Repo :
    /\ \A n \in left[r] : updates[r][n] # None
    /\ pc[r] = "poll" => left[r] = {}

\* What GInv says of the places of the cycles.
PlacesAreRight == ClassifiedIsFetched /\ IndexingHasHash /\ LeftHasMoved

GInv ==
  /\ TypeOK /\ NothingForgotten /\ QueuedIsFetched
  /\ ScratchIsWhole /\ PendingIsFetched /\ PlacesAreRight

-----------------------------------------------------------------------------
\* The histories that git fetch brings are whole.
LEMMA FetchedIsWhole ==
  ASSUME NEW o \in Object
  PROVE  Fetched(o) \in SUBSET Object /\ o \in Fetched(o) /\ Whole(Fetched(o))
  <1> DEFINE c == Tip(o)
  <1>1. c \in Commit
    BY GitAssumption DEF Object, Tip
  <1>2. Ancestors[c] \subseteq Commit /\ c \in Ancestors[c]
    BY <1>1 DEF Ancestors
  <1>3. ASSUME NEW d \in Ancestors[c] PROVE Parents[d] \subseteq Ancestors[c]
    <2>1. d \in Commit /\ Parents[d] \subseteq Commit
      BY <1>2, <1>3, GitAssumption
    <2>2. ASSUME NEW S \in SUBSET Commit, c \in S, Closed(S) PROVE Parents[d] \subseteq S
      <3>1. d \in S
        BY <1>1, <1>3, <2>2 DEF Ancestors
      <3> QED BY <2>2, <3>1 DEF Closed
    <2> QED BY <1>1, <2>1, <2>2 DEF Ancestors
  <1>4. Fetched(o) = {o} \union Ancestors[c]
    BY DEF Fetched
  <1>5. Fetched(o) \intersect Commit \subseteq Ancestors[c]
    BY <1>2, <1>4, GitAssumption DEF Object, Tip
  <1>6. ASSUME NEW t \in Fetched(o) \intersect Tag PROVE Target[t] \in Fetched(o)
    <2>1. t = o
      BY <1>2, <1>4, <1>6, GitAssumption
    <2> QED BY <1>2, <1>4, <1>6, <2>1 DEF Tip
  <1> HIDE DEF c
  <1>7. Whole(Fetched(o))
    BY <1>3, <1>4, <1>5, <1>6 DEF Whole
  <1> QED BY <1>2, <1>4, <1>7 DEF Object

\* More of whole histories is whole.
LEMMA UnionIsWhole ==
  ASSUME NEW S, Whole(S), NEW F, \A X \in F : Whole(X)
  PROVE  Whole(S \union UNION F)
  BY DEF Whole

\* What Enqueue does to each part of a corpus.
LEMMA EnqueueParts ==
  ASSUME NEW corp \in Corpus, NEW r \in Repo, NEW hashes \in SUBSET Commit
  PROVE  LET D == Enqueue(corp, r, hashes) IN
         /\ D \in Corpus
         /\ D.real = corp.real /\ D.missing = corp.missing
         /\ D.todo = [corp.todo EXCEPT ![r] = @ \union (hashes \ Known(corp))]
  BY DEF Enqueue, Corpus

LEMMA WithParentsParts ==
  ASSUME NEW corp \in Corpus, NEW r \in Repo, NEW c \in Commit
  PROVE  LET D == WithParents(corp, r, c) IN
         /\ D \in Corpus
         /\ D.real = corp.real
         /\ D.missing = corp.missing \union (Parents[c] \ Known(corp))
         /\ D.todo = [corp.todo EXCEPT ![r] = @ \union (Parents[c] \ Known(corp))]
  <1>1. Parents[c] \in SUBSET Commit
    BY GitAssumption
  <1> DEFINE E == Enqueue(corp, r, Parents[c])
             missing == corp.missing \union (Parents[c] \ Known(corp))
  <1>2. /\ E \in Corpus
        /\ E.real = corp.real /\ E.missing = corp.missing
        /\ E.todo = [corp.todo EXCEPT ![r] = @ \union (Parents[c] \ Known(corp))]
    BY <1>1, EnqueueParts
  <1>3. WithParents(corp, r, c) = [E EXCEPT !.missing = missing]
    BY <1>2 DEF WithParents
  <1>4. missing \in SUBSET Commit
    BY <1>1 DEF Corpus
  <1> HIDE DEF E, missing
  <1>5. /\ [E EXCEPT !.missing = missing] \in Corpus
        /\ [E EXCEPT !.missing = missing].missing = missing
        /\ [E EXCEPT !.missing = missing].real = E.real
        /\ [E EXCEPT !.missing = missing].todo = E.todo
    BY <1>2, <1>4 DEF Corpus
  <1> QED BY <1>2, <1>3, <1>5 DEF missing

LEMMA FilledParts ==
  ASSUME NEW corp \in Corpus, NEW r \in Repo, NEW c \in Commit
  PROVE  LET D == Filled(corp, r, c) IN
         /\ D \in Corpus
         /\ D.real = corp.real \union {c}
         /\ D.missing = corp.missing \ {c}
         /\ D.todo = [q \in Repo |-> corp.todo[q] \ {c}]
  <1> DEFINE D == Filled(corp, r, c)
             owner == [corp.owner EXCEPT ![c] = IF c \in Known(corp) THEN None ELSE r]
             count == [corp.count EXCEPT ![r] = @ + 1]
             todo == [q \in Repo |-> corp.todo[q] \ {c}]
  <1>1. D = [real |-> corp.real \union {c}, missing |-> corp.missing \ {c},
             owner |-> owner, count |-> count, todo |-> todo,
             refs |-> corp.refs, tags |-> corp.tags]
    BY DEF Filled, Corpus
  <1>2. corp.real \union {c} \in SUBSET Commit /\ corp.missing \ {c} \in SUBSET Commit
    BY DEF Corpus
  <1>3. owner \in [Commit -> Repo \union {None}]
    BY DEF Corpus
  <1>4. count \in [Repo -> Nat]
    BY DEF Corpus
  <1>5. todo \in [Repo -> SUBSET Commit]
    BY DEF Corpus
  <1> HIDE DEF D, owner, count
  <1> QED BY <1>1, <1>2, <1>3, <1>4, <1>5 DEF Corpus, D

-----------------------------------------------------------------------------
\* A corpus that keeps track of its commits does so after each operation, and
\* an operation queues for a repository only what it is given, or the parents
\* of a commit it is given.
LEMMA EnqueueKeeps ==
  ASSUME NEW corp \in Corpus, KeepsTrack(corp),
         NEW r \in Repo, NEW hashes \in SUBSET Commit
  PROVE  KeepsTrack(Enqueue(corp, r, hashes))
  <1> DEFINE D == Enqueue(corp, r, hashes)
  <1>1. /\ D \in Corpus
        /\ D.real = corp.real /\ D.missing = corp.missing
        /\ D.todo = [corp.todo EXCEPT ![r] = @ \union (hashes \ Known(corp))]
    BY EnqueueParts
  <1>2. \A q \in Repo :
          /\ corp.todo[q] \subseteq D.todo[q]
          /\ D.todo[q] \subseteq corp.todo[q] \union (hashes \ Known(corp))
    BY <1>1 DEF Corpus
  <1> HIDE DEF D
  <1>3. KeepsTrack(D)
    BY <1>1, <1>2 DEF KeepsTrack, Known
  <1> QED BY <1>3 DEF D

LEMMA WithParentsKeeps ==
  ASSUME NEW corp \in Corpus, KeepsTrack(corp), NEW r \in Repo, NEW c \in Commit
  PROVE  /\ KeepsTrack(WithParents(corp, r, c))
         /\ Parents[c] \subseteq Known(WithParents(corp, r, c))
  <1> DEFINE D == WithParents(corp, r, c)
             new == Parents[c] \ Known(corp)
  <1>1. /\ D \in Corpus
        /\ D.real = corp.real /\ D.missing = corp.missing \union new
        /\ D.todo = [corp.todo EXCEPT ![r] = @ \union new]
    BY WithParentsParts
  <1>2. \A q \in Repo : corp.todo[q] \subseteq D.todo[q] /\ D.todo[q] \subseteq corp.todo[q] \union new
    BY <1>1 DEF Corpus
  <1>3. new \subseteq D.todo[r]
    BY <1>1 DEF Corpus
  <1>4. new \intersect corp.real = {}
    BY DEF Known
  <1>5. Known(corp) \subseteq Known(D) /\ Parents[c] \subseteq Known(D)
    BY <1>1 DEF Known
  <1> HIDE DEF D, new
  <1>6. KeepsTrack(D)
    <2>1. \A d \in D.real : Parents[d] \subseteq Known(D)
      BY <1>1, <1>5 DEF KeepsTrack
    <2>2. D.missing \intersect D.real = {}
      BY <1>1, <1>4 DEF KeepsTrack
    <2>3. \A d \in D.missing : \E q \in Repo : d \in D.todo[q]
      BY <1>1, <1>2, <1>3 DEF KeepsTrack
    <2>4. \A q \in Repo : D.todo[q] \intersect D.real = {}
      BY <1>1, <1>2, <1>4 DEF KeepsTrack
    <2> QED BY <2>1, <2>2, <2>3, <2>4 DEF KeepsTrack
  <1> QED BY <1>5, <1>6 DEF D

LEMMA FilledKeeps ==
  ASSUME NEW corp \in Corpus, KeepsTrack(corp), NEW r \in Repo, NEW c \in Commit,
         Parents[c] \subseteq Known(corp)
  PROVE  KeepsTrack(Filled(corp, r, c))
  <1> DEFINE D == Filled(corp, r, c)
  <1>1. /\ D.real = corp.real \union {c}
        /\ D.missing = corp.missing \ {c}
        /\ D.todo = [q \in Repo |-> corp.todo[q] \ {c}]
    BY FilledParts
  <1> HIDE DEF D
  <1>2. Known(corp) \subseteq Known(D)
    BY <1>1 DEF Known
  <1>3. KeepsTrack(D)
    <2>1. \A d \in D.real : Parents[d] \subseteq Known(D)
      BY <1>1, <1>2 DEF KeepsTrack
    <2>2. D.missing \intersect D.real = {}
      BY <1>1 DEF KeepsTrack
    <2>3. \A d \in D.missing : \E q \in Repo : d \in D.todo[q]
      BY <1>1 DEF KeepsTrack
    <2>4. \A q \in Repo : D.todo[q] \intersect D.real = {}
      BY <1>1 DEF KeepsTrack
    <2> QED BY <2>1, <2>2, <2>3, <2>4 DEF KeepsTrack
  <1> QED BY <1>3 DEF D

LEMMA ProcessCommitKeeps ==
  ASSUME NEW corp \in Corpus, KeepsTrack(corp), NEW r \in Repo, NEW c \in Commit
  PROVE  LET D == ProcessGitCommit(corp, r, c) IN
         /\ D \in Corpus
         /\ KeepsTrack(D)
         /\ \A q \in Repo : D.todo[q] \subseteq corp.todo[q] \union (IF q = r THEN Parents[c] ELSE {})
  <1> DEFINE W == WithParents(corp, r, c)
             F == Filled(W, r, c)
  <1>1. W \in Corpus /\ KeepsTrack(W) /\ Parents[c] \subseteq Known(W)
    BY WithParentsParts, WithParentsKeeps
  <1>2. \A q \in Repo : W.todo[q] \subseteq corp.todo[q] \union (IF q = r THEN Parents[c] ELSE {})
    <2>1. W.todo = [corp.todo EXCEPT ![r] = @ \union (Parents[c] \ Known(corp))]
      BY WithParentsParts
    <2> QED BY <2>1 DEF Corpus
  <1> HIDE DEF W
  <1>3. F \in Corpus /\ KeepsTrack(F) /\ \A q \in Repo : F.todo[q] \subseteq W.todo[q]
    <2>1. F \in Corpus /\ F.todo = [q \in Repo |-> W.todo[q] \ {c}]
      BY <1>1, FilledParts
    <2>2. KeepsTrack(F)
      BY <1>1, FilledKeeps
    <2> HIDE DEF F
    <2> QED BY <2>1, <2>2
  <1>4. ProcessGitCommit(corp, r, c) = IF c \in Unparseable THEN W ELSE F
    BY DEF ProcessGitCommit, W
  <1> HIDE DEF F
  <1>5. CASE c \in Unparseable
    BY <1>1, <1>2, <1>4, <1>5
  <1>6. CASE c \notin Unparseable
    <2>1. \A q \in Repo : F.todo[q] \subseteq corp.todo[q] \union (IF q = r THEN Parents[c] ELSE {})
      BY <1>2, <1>3
    <2> QED BY <1>3, <1>4, <1>6, <2>1
  <1> QED BY <1>5, <1>6

\* The mutation of a commit queues its parents, for its repository; the others
\* queue nothing.
LEMMA ProcessKeeps ==
  ASSUME NEW corp \in Corpus, KeepsTrack(corp), NEW m \in Mutation
  PROVE  LET D == ProcessGitMutation(corp, m) IN
         /\ D \in Corpus
         /\ KeepsTrack(D)
         /\ \A q \in Repo :
              D.todo[q] \subseteq corp.todo[q] \union
                (IF m.kind = "commit" /\ q = m.repo THEN Parents[m.object] ELSE {})
  <1> DEFINE D == ProcessGitMutation(corp, m)
  <1>1. m.repo \in Repo /\ m.object \in Object /\ m.kind \in {"commit", "tag", "ref"}
    BY DEF Mutation
  <1>2. CASE m.kind = "commit"
    <2>1. D = ProcessGitCommit(corp, m.repo, m.object) /\ m.object \in Commit
      BY <1>2 DEF ProcessGitMutation, Mutation
    <2> HIDE DEF D
    <2> QED BY <1>1, <1>2, <2>1, ProcessCommitKeeps DEF D
  <1>3. CASE m.kind = "tag"
    <2> DEFINE tags == [corp.tags EXCEPT ![m.repo] = @ \union {m.object}]
    <2>1. D = [corp EXCEPT !.tags = tags] /\ m.object \in Tag
      BY <1>3 DEF ProcessGitMutation, ProcessGitTag, Mutation
    <2>2. tags \in [Repo -> SUBSET Tag]
      BY <1>1, <2>1 DEF Corpus
    <2> HIDE DEF D, tags
    <2>3. /\ D \in Corpus
          /\ D.real = corp.real /\ D.missing = corp.missing /\ D.todo = corp.todo
      BY <2>1, <2>2 DEF Corpus
    <2>4. KeepsTrack(D)
      BY <2>3 DEF KeepsTrack, Known
    <2> QED BY <1>3, <2>3, <2>4 DEF D
  <1>4. CASE m.kind = "ref"
    <2> DEFINE refs == [corp.refs EXCEPT ![m.repo][m.ref] = m.object]
    <2>1. D = [corp EXCEPT !.refs = refs] /\ m.ref \in Ref
      BY <1>4 DEF ProcessGitMutation, Mutation
    <2>2. refs \in [Repo -> [Ref -> Object \union {None}]]
      BY <1>1, <2>1 DEF Corpus
    <2> HIDE DEF D, refs
    <2>3. /\ D \in Corpus
          /\ D.real = corp.real /\ D.missing = corp.missing /\ D.todo = corp.todo
      BY <2>1, <2>2 DEF Corpus
    <2>4. KeepsTrack(D)
      BY <2>3 DEF KeepsTrack, Known
    <2> QED BY <1>4, <2>3, <2>4 DEF D
  <1> QED BY <1>1, <1>2, <1>3, <1>4

-----------------------------------------------------------------------------
LEMMA GInvInit ==
  ASSUME Init
  PROVE  GInv
  <1>1. EmptyCorpus \in Corpus
    BY DEF EmptyCorpus, Corpus
  <1>2. KeepsTrack(EmptyCorpus) /\ \A r \in Repo : EmptyCorpus.todo[r] = {}
    BY DEF EmptyCorpus, KeepsTrack, Known
  <1>3. NoUpdates \in [Ref -> Object \union {None}]
    BY DEF NoUpdates
  <1>4. TypeOK
    BY <1>1, <1>3 DEF Init, TypeOK
  <1>5. NothingForgotten /\ QueuedIsFetched
    BY <1>2 DEF Init, NothingForgotten, QueuedIsFetched
  <1>6. ScratchIsWhole /\ PendingIsFetched
    BY DEF Init, ScratchIsWhole, Whole, PendingIsFetched
  <1>7. PlacesAreRight
    BY DEF Init, PlacesAreRight, ClassifiedIsFetched, IndexingHasHash, LeftHasMoved
  <1> QED BY <1>4, <1>5, <1>6, <1>7 DEF GInv

\* A step that touches neither a corpus nor a directory has to keep only the
\* types and PlacesAreRight.
LEMMA QuietStep ==
  ASSUME GInv, UNCHANGED <<scratch, mem, stored, pending>>,
         TypeOK', PlacesAreRight'
  PROVE  GInv'
  <1>1. NothingForgotten' /\ QueuedIsFetched' /\ ScratchIsWhole'
    BY DEF GInv, NothingForgotten, QueuedIsFetched, ScratchIsWhole
  <1>2. PendingIsFetched'
    BY DEF GInv, PendingIsFetched
  <1> QED BY <1>1, <1>2 DEF GInv

LEMMA GInvLsRemote ==
  ASSUME GInv, NEW r \in Repo, LsRemote(r)
  PROVE  GInv'
  <1> DEFINE new == [n \in Ref |->
                       IF upstream[r][n] = mem.refs[r][n] THEN None ELSE upstream[r][n]]
  <1>1. new \in [Ref -> Object \union {None}]
    BY DEF GInv, TypeOK
  <1>2. /\ updates' = [updates EXCEPT ![r] = new]
        /\ pc' = [pc EXCEPT ![r] = "fetch"]
        /\ pc[r] = "poll"
        /\ UNCHANGED <<upstream, scratch, mem, stored, left, picked, pending, faults, crashes>>
    BY DEF LsRemote, Goto, At
  <1> HIDE DEF new
  <1>3. TypeOK'
    BY <1>1, <1>2 DEF GInv, TypeOK
  <1>4. PlacesAreRight'
    BY <1>2 DEF GInv, TypeOK, PlacesAreRight, ClassifiedIsFetched,
      IndexingHasHash, LeftHasMoved
  <1> QED BY <1>2, <1>3, <1>4, QuietStep

LEMMA GInvPick ==
  ASSUME GInv, NEW r \in Repo, Pick(r)
  PROVE  GInv'
  <1>1. PICK h \in ToIndex(r) : picked' = [picked EXCEPT ![r] = h]
    BY DEF Pick
  <1>2. h \in Commit /\ h # None
    BY <1>1, GitAssumption DEF GInv, TypeOK, Corpus, ToIndex, Object
  <1>3. /\ pc' = [pc EXCEPT ![r] = "index"]
        /\ UNCHANGED <<upstream, scratch, mem, stored, updates, left, pending, faults, crashes>>
    BY DEF Pick, Goto
  <1>4. TypeOK'
    BY <1>1, <1>2, <1>3 DEF GInv, TypeOK
  <1>5. PlacesAreRight'
    BY <1>1, <1>2, <1>3 DEF GInv, TypeOK, PlacesAreRight, ClassifiedIsFetched,
      IndexingHasHash, LeftHasMoved
  <1> QED BY <1>3, <1>4, <1>5, QuietStep

LEMMA GInvWalkEnds ==
  ASSUME GInv, NEW r \in Repo, WalkEnds(r)
  PROVE  GInv'
  <1>1. /\ left' = [left EXCEPT ![r] = Moved(r)]
        /\ pc' = [pc EXCEPT ![r] = "refs"]
        /\ UNCHANGED <<upstream, scratch, mem, stored, updates, picked, pending, faults, crashes>>
    BY DEF WalkEnds, Goto
  <1>2. TypeOK'
    BY <1>1 DEF GInv, TypeOK, Moved
  <1>3. PlacesAreRight'
    BY <1>1 DEF GInv, TypeOK, PlacesAreRight, ClassifiedIsFetched,
      IndexingHasHash, LeftHasMoved, Moved
  <1> QED BY <1>1, <1>2, <1>3, QuietStep

\* A cycle ends, by itself or with an error.
LEMMA GInvReturns ==
  ASSUME GInv, NEW r \in Repo, Returns(r), faults' \in Nat
  PROVE  GInv'
  <1>1. /\ pc' = [pc EXCEPT ![r] = "poll"]
        /\ updates' = [updates EXCEPT ![r] = NoUpdates]
        /\ left' = [left EXCEPT ![r] = {}]
        /\ picked' = [picked EXCEPT ![r] = None]
        /\ UNCHANGED <<upstream, scratch, mem, stored, pending, crashes>>
    BY DEF Returns, Goto
  <1>2. NoUpdates \in [Ref -> Object \union {None}]
    BY DEF NoUpdates
  <1>3. TypeOK'
    BY <1>1, <1>2 DEF GInv, TypeOK
  <1>4. PlacesAreRight'
    BY <1>1 DEF GInv, TypeOK, PlacesAreRight, ClassifiedIsFetched,
      IndexingHasHash, LeftHasMoved
  <1> QED BY <1>1, <1>3, <1>4, QuietStep

LEMMA GInvPush ==
  ASSUME GInv, NEW r \in Repo, Push(r)
  PROVE  GInv'
  <1>1. PICK move \in Moves[r] : upstream' = [upstream EXCEPT ![r][move[1]] = move[3]]
    BY DEF Push
  <1>2. move[1] \in Ref /\ move[3] \in Object \union {None}
    BY GitAssumption
  <1>3. UNCHANGED <<scratch, mem, stored, pc, updates, left, picked, pending, faults, crashes>>
    BY DEF Push, cycleVars
  <1>4. upstream' \in [Repo -> [Ref -> Object \union {None}]]
    BY <1>1, <1>2 DEF GInv, TypeOK
  <1>5. TypeOK'
    BY <1>3, <1>4 DEF GInv, TypeOK
  <1>6. PlacesAreRight'
    BY <1>3 DEF GInv, TypeOK, PlacesAreRight, ClassifiedIsFetched,
      IndexingHasHash, LeftHasMoved
  <1> QED BY <1>3, <1>5, <1>6, QuietStep

\* A fetch adds whole histories to the directory.
LEMMA GInvFetch ==
  ASSUME GInv, NEW r \in Repo, Fetch(r)
  PROVE  GInv'
  <1> DEFINE histories == {Fetched(upstream[r][n]) : n \in Moved(r)}
             grown == scratch[r] \union UNION histories
  <1>1. /\ scratch' = [scratch EXCEPT ![r] = grown]
        /\ left' = [left EXCEPT ![r] = Moved(r)]
        /\ pc' = [pc EXCEPT ![r] = "classify"]
        /\ UNCHANGED <<upstream, mem, stored, updates, picked, pending, faults, crashes>>
    BY DEF Fetch, Goto
  <1>2. \A n \in Moved(r) : upstream[r][n] \in Object
    BY DEF Fetch, GInv, TypeOK, Moved
  <1>3. \A X \in histories : X \in SUBSET Object /\ Whole(X)
    BY <1>2, FetchedIsWhole
  <1>4. Whole(scratch[r]) /\ scratch[r] \in SUBSET Object
    BY DEF GInv, TypeOK, ScratchIsWhole
  <1> HIDE DEF histories
  <1>5. grown \in SUBSET Object /\ Whole(grown) /\ scratch[r] \subseteq grown
    BY <1>3, <1>4, UnionIsWhole
  <1> HIDE DEF grown
  <1>6. scratch' \in [Repo -> SUBSET Object] /\ \A q \in Repo : scratch[q] \subseteq scratch'[q]
    BY <1>1, <1>5 DEF GInv, TypeOK
  <1>7. TypeOK'
    BY <1>1, <1>6 DEF GInv, TypeOK, Moved
  <1>8. NothingForgotten' /\ QueuedIsFetched'
    BY <1>1, <1>6 DEF GInv, NothingForgotten, QueuedIsFetched
  <1>9. ScratchIsWhole'
    BY <1>1, <1>5 DEF GInv, TypeOK, ScratchIsWhole
  <1>10. PendingIsFetched'
    BY <1>1, <1>6 DEF GInv, PendingIsFetched
  <1>11. ClassifiedIsFetched'
    BY <1>1, <1>6 DEF GInv, TypeOK, PlacesAreRight, ClassifiedIsFetched, Moved
  <1>12. IndexingHasHash' /\ LeftHasMoved'
    BY <1>1 DEF GInv, TypeOK, PlacesAreRight, IndexingHasHash, LeftHasMoved, Moved
  <1> QED BY <1>7, <1>8, <1>9, <1>10, <1>11, <1>12 DEF GInv, PlacesAreRight

\* The tips queued by step 6 were classified, hence fetched.
LEMMA GInvEnqueueTips ==
  ASSUME GInv, NEW r \in Repo, EnqueueTips(r)
  PROVE  GInv'
  <1> DEFINE tips == {Tip(updates[r][n]) : n \in Moved(r)}
  <1>1. /\ mem' = Enqueue(mem, r, tips)
        /\ pc' = [pc EXCEPT ![r] = "walk"]
        /\ UNCHANGED <<upstream, scratch, stored, updates, left, picked, pending, faults, crashes>>
    BY DEF EnqueueTips, Goto, cycleVars
  <1>2. tips \subseteq Commit /\ tips \subseteq scratch[r]
    <2> SUFFICES ASSUME NEW n \in Moved(r)
                 PROVE  Tip(updates[r][n]) \in Commit \intersect scratch[r]
      OBVIOUS
    <2>1. n \in Ref /\ updates[r][n] \in Object
      BY DEF Moved, GInv, TypeOK
    <2>2. updates[r][n] \in scratch[r]
      BY <2>1 DEF EnqueueTips, At, Moved, GInv, PlacesAreRight, ClassifiedIsFetched
    <2>3. CASE updates[r][n] \in Tag
      BY <2>2, <2>3, GitAssumption DEF Tip, GInv, ScratchIsWhole, Whole
    <2>4. CASE updates[r][n] \notin Tag
      BY <2>1, <2>2, <2>4 DEF Tip, Object
    <2> QED BY <2>3, <2>4
  <1> HIDE DEF tips
  <1>3. mem \in Corpus /\ KeepsTrack(mem)
    BY DEF GInv, TypeOK, NothingForgotten
  <1>4. mem' \in Corpus /\ KeepsTrack(mem')
    BY <1>1, <1>2, <1>3, EnqueueParts, EnqueueKeeps
  <1>5. mem'.todo = [mem.todo EXCEPT ![r] = @ \union (tips \ Known(mem))]
    BY <1>1, <1>2, <1>3, EnqueueParts
  <1>6. \A q \in Repo : mem'.todo[q] \subseteq scratch[q]
    <2>1. mem.todo \in [Repo -> SUBSET Commit] /\ \A q \in Repo : mem.todo[q] \subseteq scratch[q]
      BY <1>3 DEF Corpus, GInv, QueuedIsFetched
    <2> QED BY <1>2, <1>5, <2>1
  <1>7. TypeOK'
    BY <1>1, <1>4 DEF GInv, TypeOK
  <1>8. NothingForgotten' /\ QueuedIsFetched'
    BY <1>1, <1>4, <1>6 DEF GInv, NothingForgotten, QueuedIsFetched
  <1>9. ScratchIsWhole' /\ PendingIsFetched'
    BY <1>1 DEF GInv, ScratchIsWhole, PendingIsFetched
  <1>10. PlacesAreRight'
    BY <1>1 DEF GInv, TypeOK, PlacesAreRight, ClassifiedIsFetched,
      IndexingHasHash, LeftHasMoved
  <1> QED BY <1>7, <1>8, <1>9, <1>10 DEF GInv

\* A mutation of a repository that, if it is of a commit, was read from the
\* repository's directory, may be processed in any corpus whose queues are fetched.
LEMMA ProcessIsFetched ==
  ASSUME GInv, NEW corp \in Corpus, KeepsTrack(corp),
         \A q \in Repo : corp.todo[q] \subseteq scratch[q],
         NEW m \in Mutation, m.kind = "commit" => m.object \in scratch[m.repo]
  PROVE  LET D == ProcessGitMutation(corp, m) IN
         /\ D \in Corpus /\ KeepsTrack(D)
         /\ \A q \in Repo : D.todo[q] \subseteq scratch[q]
  <1> DEFINE D == ProcessGitMutation(corp, m)
  <1>1. /\ D \in Corpus /\ KeepsTrack(D)
        /\ \A q \in Repo :
             D.todo[q] \subseteq corp.todo[q] \union
               (IF m.kind = "commit" /\ q = m.repo THEN Parents[m.object] ELSE {})
    BY ProcessKeeps
  <1> HIDE DEF D
  <1>2. ASSUME m.kind = "commit" PROVE Parents[m.object] \subseteq scratch[m.repo]
    BY <1>2 DEF Mutation, GInv, ScratchIsWhole, Whole
  <1>3. ASSUME NEW q \in Repo PROVE D.todo[q] \subseteq scratch[q]
    <2>1. CASE m.kind = "commit" /\ q = m.repo
      BY <1>1, <1>2, <2>1
    <2>2. CASE ~(m.kind = "commit" /\ q = m.repo)
      BY <1>1, <2>2
    <2> QED BY <2>1, <2>2
  <1> QED BY <1>1, <1>3 DEF D

\* The first half of addMutation.
LEMMA AddMutationStep ==
  ASSUME GInv, NEW r \in Repo, NEW m \in Mutation, m.repo = r,
         m.kind = "commit" => m.object \in scratch[r],
         AddMutation(r, m), UNCHANGED <<scratch, stored>>
  PROVE  /\ mem' \in Corpus /\ pending' \in [Repo -> Mutation \union {None}]
         /\ NothingForgotten' /\ QueuedIsFetched' /\ ScratchIsWhole' /\ PendingIsFetched'
  <1>1. mem' = ProcessGitMutation(mem, m) /\ pending' = [pending EXCEPT ![r] = m]
    BY DEF AddMutation
  <1>2. mem \in Corpus /\ KeepsTrack(mem) /\ \A q \in Repo : mem.todo[q] \subseteq scratch[q]
    BY DEF GInv, TypeOK, NothingForgotten, QueuedIsFetched
  <1>3. mem' \in Corpus /\ KeepsTrack(mem') /\ \A q \in Repo : mem'.todo[q] \subseteq scratch[q]
    BY <1>1, <1>2, ProcessIsFetched
  <1>4. NothingForgotten' /\ QueuedIsFetched'
    BY <1>3 DEF GInv, NothingForgotten, QueuedIsFetched
  <1>5. ScratchIsWhole'
    BY DEF GInv, ScratchIsWhole
  <1>6. pending' \in [Repo -> Mutation \union {None}] /\ PendingIsFetched'
    BY <1>1 DEF GInv, TypeOK, PendingIsFetched
  <1> QED BY <1>3, <1>4, <1>5, <1>6

LEMMA GInvClassify ==
  ASSUME GInv, NEW r \in Repo, NEW n \in Ref, Classify(r, n)
  PROVE  GInv'
  <1>1. /\ updates[r][n] \in scratch[r] /\ updates[r][n] \in Object
        /\ left' = [left EXCEPT ![r] = @ \ {n}]
        /\ UNCHANGED <<upstream, scratch, stored, pc, updates, picked, faults, crashes>>
    BY DEF Classify, GInv, TypeOK
  <1>2. /\ mem' \in Corpus /\ pending' \in [Repo -> Mutation \union {None}]
        /\ NothingForgotten' /\ QueuedIsFetched' /\ ScratchIsWhole' /\ PendingIsFetched'
    <2>1. CASE updates[r][n] \in Tag
      <3> DEFINE m == TagMutation(r, updates[r][n])
      <3>1. m \in Mutation /\ m.repo = r /\ m.kind # "commit"
        BY <1>1, <2>1 DEF TagMutation, Mutation
      <3>2. AddMutation(r, m)
        BY <2>1 DEF Classify
      <3> HIDE DEF m
      <3> QED BY <1>1, <3>1, <3>2, AddMutationStep
    <2>2. CASE updates[r][n] \notin Tag
      <3>1. UNCHANGED <<mem, pending>>
        BY <2>2 DEF Classify
      <3> QED BY <1>1, <3>1
            DEF GInv, TypeOK, NothingForgotten, QueuedIsFetched, ScratchIsWhole, PendingIsFetched
    <2> QED BY <2>1, <2>2
  <1>3. TypeOK'
    BY <1>1, <1>2 DEF GInv, TypeOK
  <1>4. PlacesAreRight'
    BY <1>1 DEF GInv, TypeOK, PlacesAreRight, ClassifiedIsFetched,
      IndexingHasHash, LeftHasMoved
  <1> QED BY <1>2, <1>3, <1>4 DEF GInv

LEMMA GInvIndex ==
  ASSUME GInv, NEW r \in Repo, Index(r)
  PROVE  GInv'
  <1> DEFINE m == CommitMutation(r, picked[r])
  <1>1. /\ picked[r] \in scratch[r] /\ AddMutation(r, m)
        /\ picked' = [picked EXCEPT ![r] = None]
        /\ pc' = [pc EXCEPT ![r] = "walk"]
        /\ UNCHANGED <<upstream, scratch, stored, updates, left, faults, crashes>>
    BY DEF Index, Goto
  <1>2. picked[r] \in Commit
    BY DEF Index, At, GInv, TypeOK, PlacesAreRight, IndexingHasHash
  <1>3. m \in Mutation /\ m.repo = r /\ m.object \in scratch[r]
    BY <1>1, <1>2 DEF CommitMutation, Mutation, Object
  <1> HIDE DEF m
  <1>4. /\ mem' \in Corpus /\ pending' \in [Repo -> Mutation \union {None}]
        /\ NothingForgotten' /\ QueuedIsFetched' /\ ScratchIsWhole' /\ PendingIsFetched'
    BY <1>1, <1>3, AddMutationStep
  <1>5. TypeOK'
    BY <1>1, <1>4 DEF GInv, TypeOK
  <1>6. PlacesAreRight'
    BY <1>1 DEF GInv, TypeOK, PlacesAreRight, ClassifiedIsFetched,
      IndexingHasHash, LeftHasMoved
  <1> QED BY <1>4, <1>5, <1>6 DEF GInv

LEMMA GInvLogRef ==
  ASSUME GInv, NEW r \in Repo, NEW n \in Ref, LogRef(r, n)
  PROVE  GInv'
  <1> DEFINE m == RefMutation(r, n, updates[r][n])
  <1>1. /\ AddMutation(r, m)
        /\ left' = [left EXCEPT ![r] = @ \ {n}]
        /\ pc[r] = "refs"
        /\ UNCHANGED <<upstream, scratch, stored, pc, updates, picked, faults, crashes>>
    BY DEF LogRef, At
  <1>2. updates[r][n] \in Object
    BY DEF LogRef, GInv, TypeOK, PlacesAreRight, LeftHasMoved
  <1>3. m \in Mutation /\ m.repo = r /\ m.kind # "commit"
    BY <1>2 DEF RefMutation, Mutation
  <1> HIDE DEF m
  <1>4. /\ mem' \in Corpus /\ pending' \in [Repo -> Mutation \union {None}]
        /\ NothingForgotten' /\ QueuedIsFetched' /\ ScratchIsWhole' /\ PendingIsFetched'
    BY <1>1, <1>3, AddMutationStep
  <1>5. TypeOK'
    BY <1>1, <1>4 DEF GInv, TypeOK
  <1>6. PlacesAreRight'
    BY <1>1 DEF GInv, TypeOK, PlacesAreRight, ClassifiedIsFetched, IndexingHasHash, LeftHasMoved
  <1> QED BY <1>4, <1>5, <1>6 DEF GInv

\* The second half of addMutation: replaying the mutation queues what is fetched.
LEMMA GInvLog ==
  ASSUME GInv, NEW r \in Repo, Log(r)
  PROVE  GInv'
  <1> DEFINE m == pending[r]
  <1>1. /\ stored' = ProcessGitMutation(stored, m)
        /\ pending' = [pending EXCEPT ![r] = None]
        /\ UNCHANGED <<upstream, scratch, mem, pc, updates, left, picked, faults, crashes>>
    BY DEF Log, cycleVars
  <1>2. m \in Mutation /\ (m.kind = "commit" => m.object \in scratch[m.repo])
    BY DEF Log, GInv, TypeOK, PendingIsFetched
  <1> HIDE DEF m
  <1>3. stored \in Corpus /\ KeepsTrack(stored) /\ \A q \in Repo : stored.todo[q] \subseteq scratch[q]
    BY DEF GInv, TypeOK, NothingForgotten, QueuedIsFetched
  <1>4. stored' \in Corpus /\ KeepsTrack(stored') /\ \A q \in Repo : stored'.todo[q] \subseteq scratch[q]
    BY <1>1, <1>2, <1>3, ProcessIsFetched
  <1>5. TypeOK'
    BY <1>1, <1>4 DEF GInv, TypeOK
  <1>6. NothingForgotten' /\ QueuedIsFetched'
    BY <1>1, <1>4 DEF GInv, NothingForgotten, QueuedIsFetched
  <1>7. ScratchIsWhole' /\ PendingIsFetched'
    BY <1>1 DEF GInv, TypeOK, ScratchIsWhole, PendingIsFetched
  <1>8. PlacesAreRight'
    BY <1>1 DEF GInv, PlacesAreRight, ClassifiedIsFetched, IndexingHasHash, LeftHasMoved
  <1> QED BY <1>5, <1>6, <1>7, <1>8 DEF GInv

LEMMA GInvCrash ==
  ASSUME GInv, Crash
  PROVE  GInv'
  <1>1. NoUpdates \in [Ref -> Object \union {None}]
    BY DEF NoUpdates
  <1>2. crashes' \in Nat
    BY DEF Crash, GInv, TypeOK
  <1>3. TypeOK'
    BY <1>1, <1>2 DEF Crash, GInv, TypeOK
  <1>4. NothingForgotten' /\ QueuedIsFetched'
    BY DEF Crash, GInv, NothingForgotten, QueuedIsFetched
  <1>5. ScratchIsWhole' /\ PendingIsFetched'
    BY DEF Crash, GInv, ScratchIsWhole, PendingIsFetched
  <1>6. PlacesAreRight'
    BY DEF Crash, PlacesAreRight, ClassifiedIsFetched, IndexingHasHash, LeftHasMoved
  <1> QED BY <1>3, <1>4, <1>5, <1>6 DEF GInv

LEMMA GInvStep ==
  ASSUME GInv, [Next]_vars
  PROVE  GInv'
  <1>1. CASE UNCHANGED vars
    <2>1. UNCHANGED <<upstream, scratch, mem, stored, pc, updates, left, picked, pending, faults, crashes>>
      BY <1>1 DEF vars, cycleVars
    <2>2. TypeOK'
      BY <2>1 DEF GInv, TypeOK
    <2>3. PlacesAreRight'
      BY <2>1 DEF GInv, PlacesAreRight, ClassifiedIsFetched, IndexingHasHash, LeftHasMoved
    <2> QED BY <2>1, <2>2, <2>3, QuietStep
  <1>2. ASSUME NEW r \in Repo, Poller(r) PROVE GInv'
    <2>1. faults \in Nat
      BY DEF GInv, TypeOK
    <2>2. CASE CycleEnds(r) \/ FetchFails(r) \/ Lacks(r)
      <3>1. Returns(r) /\ faults' = faults
        BY <2>2 DEF CycleEnds, FetchFails, Lacks
      <3> QED BY <2>1, <3>1, GInvReturns
    <2> QED BY <1>2, <2>2, GInvLsRemote, GInvFetch, GInvClassify, GInvEnqueueTips, GInvPick,
               GInvIndex, GInvWalkEnds, GInvLogRef, GInvLog DEF Poller
  <1>3. ASSUME NEW r \in Repo, Fails(r) PROVE GInv'
    <2>1. Returns(r) /\ faults' \in Nat
      BY <1>3 DEF Fails, GInv, TypeOK
    <2> QED BY <2>1, GInvReturns
  <1>4. ASSUME NEW r \in Repo, Push(r) PROVE GInv'
    BY <1>4, GInvPush
  <1>5. CASE Crash
    BY <1>5, GInvCrash
  <1> QED BY <1>1, <1>2, <1>3, <1>4, <1>5 DEF Next

LEMMA GInvHolds == Spec => []GInv
  <1>1. Init => GInv
    BY GInvInit
  <1>2. GInv /\ [Next]_vars => GInv'
    BY GInvStep
  <1> QED BY <1>1, <1>2, PTL DEF Spec

\* Every variable keeps its type, whatever is pushed, fails or crashes.
THEOREM GitTypes == Spec => []TypeOK
  <1>1. GInv => TypeOK
    BY DEF GInv
  <1> QED BY <1>1, GInvHolds, PTL

\* Neither the leader's corpus nor the one that the log gives forgets a commit: a
\* parent is known or queued from the mutation that names it on, though goroutines
\* log in another order than they process, and crash anywhere (git.go:541-563).
THEOREM NothingIsForgotten == Spec => []NothingForgotten
  <1>1. GInv => NothingForgotten
    BY DEF GInv
  <1> QED BY <1>1, GInvHolds, PTL

\* No goroutine is ever given a hash that is not in its own scratch directory, even
\* after a restart that rebuilt the queues from the log (git.go:207-212).
THEOREM QueuedHashesAreFetched == Spec => []QueuedIsFetched
  <1>1. GInv => QueuedIsFetched
    BY DEF GInv
  <1> QED BY <1>1, GInvHolds, PTL

-----------------------------------------------------------------------------
(***************************************************************************)
(* The log and the leader.  Processing a mutation adds to each part of a   *)
(* corpus the same, whatever the corpus and in whatever order, so that the *)
(* leader's is the log's and what the goroutines have on their way to it.  *)
(***************************************************************************)
NewCommits(m) == IF m.kind = "commit" /\ m.object \notin Unparseable THEN {m.object} ELSE {}
NewKnown(m) == NewCommits(m) \union IF m.kind = "commit" THEN Parents[m.object] ELSE {}
NewTags(m, r) == IF m.kind = "tag" /\ m.repo = r THEN {m.object} ELSE {}
SetsRef(m, r, n) == m.kind = "ref" /\ m.repo = r /\ m.ref = n

\* D is corp and what m adds to it.
Adds(corp, m, D) ==
  /\ D.real = corp.real \union NewCommits(m)
  /\ Known(D) = Known(corp) \union NewKnown(m)
  /\ \A r \in Repo :
       /\ D.count[r] = IF m.repo = r /\ NewCommits(m) # {} THEN corp.count[r] + 1 ELSE corp.count[r]
       /\ D.tags[r] = corp.tags[r] \union NewTags(m, r)
       /\ \A n \in Ref : D.refs[r][n] = IF SetsRef(m, r, n) THEN m.object ELSE corp.refs[r][n]
       /\ Known(corp) \union corp.todo[r] \subseteq Known(D) \union D.todo[r]

LEMMA ProcessAdds ==
  ASSUME NEW corp \in Corpus, NEW m \in Mutation
  PROVE  Adds(corp, m, ProcessGitMutation(corp, m))
  <1> DEFINE r == m.repo
             c == m.object
  <1>1. r \in Repo /\ m.kind \in {"commit", "tag", "ref"}
    BY DEF Mutation
  <1>2. CASE m.kind = "commit"
    <2> DEFINE todo == [corp.todo EXCEPT ![r] = @ \union (Parents[c] \ Known(corp))]
               E == Enqueue(corp, r, Parents[c])
               W == WithParents(corp, r, c)
               F == Filled(W, r, c)
    <2>1. c \in Commit
      BY <1>2 DEF Mutation
    <2>2. /\ E.count = corp.count /\ E.refs = corp.refs /\ E.tags = corp.tags
          /\ E.missing = corp.missing /\ E.todo = todo /\ E.real = corp.real
          /\ E = [real |-> corp.real, missing |-> corp.missing, owner |-> corp.owner,
                  count |-> corp.count, todo |-> todo, refs |-> corp.refs, tags |-> corp.tags]
      <3>1. E = [corp EXCEPT !.todo = todo]
        BY DEF Enqueue
      <3> HIDE DEF todo, E
      <3> QED BY <3>1 DEF Corpus
    <2>3. /\ W.count = corp.count /\ W.refs = corp.refs /\ W.tags = corp.tags
          /\ W.real = corp.real /\ W.missing = corp.missing \union (Parents[c] \ Known(corp))
          /\ W.todo = todo
      <3>1. W = [E EXCEPT !.missing = corp.missing \union (Parents[c] \ Known(corp))]
        BY <2>2 DEF WithParents
      <3> HIDE DEF E, W, todo
      <3> QED BY <2>2, <3>1
    <2>4. /\ F.count = [corp.count EXCEPT ![r] = @ + 1]
          /\ F.refs = corp.refs /\ F.tags = corp.tags
          /\ F.real = corp.real \union {c}
          /\ F.missing = W.missing \ {c}
          /\ F.todo = [q \in Repo |-> W.todo[q] \ {c}]
      <3> HIDE DEF W
      <3> QED BY <2>3 DEF Filled
    <2>5. \A q \in Repo : corp.todo[q] \subseteq W.todo[q]
      BY <2>3 DEF Corpus
    <2>6. Known(W) = Known(corp) \union Parents[c]
      BY <2>3 DEF Known
    <2>7. /\ Known(F) = Known(W) \union {c}
          /\ \A q \in Repo : Known(W) \union W.todo[q] \subseteq Known(F) \union F.todo[q]
      <3> HIDE DEF W, F
      <3> QED BY <2>3, <2>4 DEF Known
    <2>8. \A q \in Repo : F.count[q] = IF r = q THEN corp.count[q] + 1 ELSE corp.count[q]
      <3> HIDE DEF F
      <3> QED BY <1>1, <2>4 DEF Corpus
    <2>9. ProcessGitMutation(corp, m) = IF c \in Unparseable THEN W ELSE F
      BY <1>2 DEF ProcessGitMutation, ProcessGitCommit
    <2>10. /\ \A q \in Repo : NewTags(m, q) = {} /\ \A n \in Ref : ~ SetsRef(m, q, n)
           /\ NewCommits(m) = IF c \in Unparseable THEN {} ELSE {c}
           /\ NewKnown(m) = NewCommits(m) \union Parents[c]
      BY <1>2 DEF NewTags, SetsRef, NewCommits, NewKnown
    <2> HIDE DEF W, F, c
    <2>11. CASE c \in Unparseable
      BY <2>3, <2>5, <2>6, <2>9, <2>10, <2>11 DEF Adds
    <2>12. CASE c \notin Unparseable
      <3> DEFINE D == ProcessGitMutation(corp, m)
      <3>1. D = F /\ NewCommits(m) = {c} /\ NewKnown(m) = {c} \union Parents[c]
        BY <2>9, <2>10, <2>12
      <3> HIDE DEF D
      <3>2. \A q \in Repo : Known(corp) \union corp.todo[q] \subseteq Known(D) \union D.todo[q]
        BY <2>5, <2>6, <2>7, <3>1
      <3>3. D.real = corp.real \union NewCommits(m) /\ Known(D) = Known(corp) \union NewKnown(m)
        BY <2>4, <2>6, <2>7, <3>1
      <3>4. \A q \in Repo :
              /\ D.count[q] = IF m.repo = q /\ NewCommits(m) # {} THEN corp.count[q] + 1
                             ELSE corp.count[q]
              /\ D.tags[q] = corp.tags[q] \union NewTags(m, q)
              /\ \A n \in Ref : D.refs[q][n] = IF SetsRef(m, q, n) THEN m.object ELSE corp.refs[q][n]
        BY <2>4, <2>8, <2>10, <3>1
      <3>5. Adds(corp, m, D)
        BY <3>2, <3>3, <3>4 DEF Adds
      <3> QED BY <3>5 DEF D
    <2> QED BY <2>11, <2>12
  <1>3. CASE m.kind = "tag"
    <2> DEFINE tags == [corp.tags EXCEPT ![r] = @ \union {c}]
               D == ProcessGitMutation(corp, m)
    <2>1. D = [corp EXCEPT !.tags = tags]
      BY <1>3 DEF ProcessGitMutation, ProcessGitTag
    <2>2. \A q \in Repo : tags[q] = corp.tags[q] \union NewTags(m, q)
      BY <1>1, <1>3 DEF Corpus, NewTags
    <2>3. NewCommits(m) = {} /\ NewKnown(m) = {} /\ \A q \in Repo, n \in Ref : ~ SetsRef(m, q, n)
      BY <1>3 DEF NewCommits, NewKnown, SetsRef
    <2> HIDE DEF D, tags
    <2>4. /\ D.real = corp.real /\ D.missing = corp.missing /\ D.todo = corp.todo
          /\ D.count = corp.count /\ D.refs = corp.refs /\ D.tags = tags
      BY <2>1 DEF Corpus
    <2>5. Adds(corp, m, D)
      BY <2>2, <2>3, <2>4 DEF Adds, Known
    <2> QED BY <2>5 DEF D
  <1>4. CASE m.kind = "ref"
    <2> DEFINE refs == [corp.refs EXCEPT ![r][m.ref] = c]
               D == ProcessGitMutation(corp, m)
    <2>1. D = [corp EXCEPT !.refs = refs]
      BY <1>4 DEF ProcessGitMutation
    <2>2. \A q \in Repo, n \in Ref : refs[q][n] = IF SetsRef(m, q, n) THEN c ELSE corp.refs[q][n]
      BY <1>1, <1>4 DEF Corpus, SetsRef, Mutation
    <2>3. NewCommits(m) = {} /\ NewKnown(m) = {} /\ \A q \in Repo : NewTags(m, q) = {}
      BY <1>4 DEF NewCommits, NewKnown, NewTags
    <2> HIDE DEF D, refs
    <2>4. /\ D.real = corp.real /\ D.missing = corp.missing /\ D.todo = corp.todo
          /\ D.count = corp.count /\ D.tags = corp.tags /\ D.refs = refs
      BY <2>1 DEF Corpus
    <2>5. Adds(corp, m, D)
      BY <2>2, <2>3, <2>4 DEF Adds, Known
    <2> QED BY <2>5 DEF D
  <1> QED BY <1>1, <1>2, <1>3, <1>4

\* The leader's corpus has what the log's has, and what is on its way to the log.
CommitsLag ==
  \A c \in Commit :
    /\ c \in mem.real <=>
         c \in stored.real \/ \E r \in Repo : pending[r] # None /\ c \in NewCommits(pending[r])
    /\ c \in Known(mem) <=>
         c \in Known(stored) \/ \E r \in Repo : pending[r] # None /\ c \in NewKnown(pending[r])
RepoLags(r) ==
  LET busy == pending[r] # None IN
  /\ mem.count[r] =
       IF busy /\ NewCommits(pending[r]) # {} THEN stored.count[r] + 1 ELSE stored.count[r]
  /\ mem.tags[r] = stored.tags[r] \union IF busy THEN NewTags(pending[r], r) ELSE {}
  /\ \A n \in Ref : mem.refs[r][n] =
       IF busy /\ SetsRef(pending[r], r, n) THEN pending[r].object ELSE stored.refs[r][n]
LogLags == CommitsLag /\ \A r \in Repo : RepoLags(r)

LEMMA AddsNothingElsewhere ==
  ASSUME NEW corp, NEW m, NEW D, Adds(corp, m, D), NEW q \in Repo, q # m.repo
  PROVE  /\ D.count[q] = corp.count[q] /\ D.tags[q] = corp.tags[q]
         /\ \A n \in Ref : D.refs[q][n] = corp.refs[q][n]
  <1>1. NewTags(m, q) = {} /\ \A n \in Ref : ~ SetsRef(m, q, n)
    BY DEF NewTags, SetsRef
  <1> QED BY <1>1 DEF Adds

LEMMA AddedLags ==
  ASSUME GInv, LogLags, NEW r \in Repo, pending[r] = None, NEW m \in Mutation, m.repo = r,
         AddMutation(r, m), stored' = stored
  PROVE  LogLags'
  <1>1. /\ Adds(mem, m, mem') /\ pending' = [pending EXCEPT ![r] = m]
        /\ pending'[r] = m /\ \A q \in Repo : q # r => pending'[q] = pending[q]
    BY ProcessAdds DEF AddMutation, GInv, TypeOK
  <1>2. m # None
    BY NoneAssumption
  <1>3. CommitsLag'
    BY <1>1, <1>2 DEF LogLags, CommitsLag, Adds
  <1>4. ASSUME NEW q \in Repo PROVE RepoLags(q)'
    <2>1. RepoLags(q)
      BY DEF LogLags
    <2>2. CASE q = r
      <3>1. mem'.count[r] = IF NewCommits(m) # {} THEN stored.count[r] + 1 ELSE stored.count[r]
        BY <1>1, <2>1, <2>2 DEF Adds, RepoLags
      <3>2. mem'.tags[r] = stored.tags[r] \union NewTags(m, r)
        BY <1>1, <2>1, <2>2 DEF Adds, RepoLags
      <3>3. \A n \in Ref : mem'.refs[r][n] = IF SetsRef(m, r, n) THEN m.object ELSE stored.refs[r][n]
        BY <1>1, <2>1, <2>2 DEF Adds, RepoLags
      <3> QED BY <1>1, <1>2, <2>2, <3>1, <3>2, <3>3 DEF RepoLags
    <2>3. CASE q # r
      <3>1. /\ mem'.count[q] = mem.count[q] /\ mem'.tags[q] = mem.tags[q]
            /\ \A n \in Ref : mem'.refs[q][n] = mem.refs[q][n]
        BY <1>1, <2>3, AddsNothingElsewhere
      <3> QED BY <1>1, <2>1, <2>3, <3>1 DEF RepoLags
    <2> QED BY <2>2, <2>3
  <1> QED BY <1>3, <1>4 DEF LogLags

LEMMA LoggedLags ==
  ASSUME GInv, LogLags, NEW r \in Repo, Log(r)
  PROVE  LogLags'
  <1> DEFINE m == pending[r]
  <1>1. m # None /\ m \in Mutation /\ m.repo = r /\ mem' = mem
    BY DEF Log, GInv, TypeOK, PendingIsFetched
  <1>2. /\ Adds(stored, m, stored') /\ pending'[r] = None
        /\ \A q \in Repo : q # r => pending'[q] = pending[q]
    BY <1>1, ProcessAdds DEF Log, GInv, TypeOK
  <1>3. CommitsLag'
    BY <1>1, <1>2 DEF LogLags, CommitsLag, Adds
  <1>4. ASSUME NEW q \in Repo PROVE RepoLags(q)'
    <2>1. RepoLags(q)
      BY DEF LogLags
    <2>2. CASE q = r
      <3>1. /\ mem.count[r] = stored'.count[r] /\ mem.tags[r] = stored'.tags[r]
            /\ \A n \in Ref : mem.refs[r][n] = stored'.refs[r][n]
        BY <1>1, <1>2, <2>1, <2>2 DEF Adds, RepoLags
      <3> QED BY <1>1, <1>2, <2>2, <3>1 DEF RepoLags
    <2>3. CASE q # r
      <3>1. /\ stored'.count[q] = stored.count[q] /\ stored'.tags[q] = stored.tags[q]
            /\ \A n \in Ref : stored'.refs[q][n] = stored.refs[q][n]
        BY <1>1, <1>2, <2>3, AddsNothingElsewhere
      <3> QED BY <1>1, <1>2, <2>1, <2>3, <3>1 DEF RepoLags
    <2> QED BY <2>2, <2>3
  <1> QED BY <1>3, <1>4 DEF LogLags

LEMMA EnqueuedLags ==
  ASSUME LogLags, NEW r \in Repo, NEW hashes, mem \in Corpus, mem' = Enqueue(mem, r, hashes),
         UNCHANGED <<stored, pending>>
  PROVE  LogLags'
  <1> DEFINE todo == [mem.todo EXCEPT ![r] = @ \union (hashes \ Known(mem))]
  <1>1. mem' = [mem EXCEPT !.todo = todo]
    BY DEF Enqueue
  <1> HIDE DEF todo
  <1>2. /\ mem'.real = mem.real /\ mem'.missing = mem.missing /\ mem'.count = mem.count
        /\ mem'.refs = mem.refs /\ mem'.tags = mem.tags
    BY <1>1 DEF Corpus
  <1> QED BY <1>2 DEF LogLags, CommitsLag, RepoLags, Known

LEMMA LagsInit == Init => LogLags
  BY DEF Init, LogLags, CommitsLag, RepoLags, EmptyCorpus, Known

LEMMA LagsStep ==
  ASSUME GInv, LogLags, [Next]_vars
  PROVE  LogLags'
  <1>1. ASSUME UNCHANGED <<mem, stored, pending>> PROVE LogLags'
    BY <1>1 DEF LogLags, CommitsLag, RepoLags, Known
  <1>2. ASSUME NEW r \in Repo, Poller(r) PROVE LogLags'
    <2>1. CASE \E n \in Ref : Classify(r, n)
      <3>1. PICK n \in Ref : Classify(r, n)
        BY <2>1
      <3> DEFINE m == TagMutation(r, updates[r][n])
      <3>2. CASE updates[r][n] \in Tag
        <4>1. m \in Mutation /\ m.repo = r
          BY <3>2 DEF TagMutation, Mutation, Object
        <4>2. AddMutation(r, m) /\ stored' = stored /\ pending[r] = None
          BY <3>1, <3>2 DEF Classify, At
        <4> HIDE DEF m
        <4> QED BY <4>1, <4>2, AddedLags
      <3>3. CASE updates[r][n] \notin Tag
        BY <1>1, <3>1, <3>3 DEF Classify
      <3> QED BY <3>2, <3>3
    <2>2. CASE EnqueueTips(r)
      BY <2>2, EnqueuedLags DEF EnqueueTips, GInv, TypeOK
    <2>3. CASE Index(r)
      <3> DEFINE m == CommitMutation(r, picked[r])
      <3>1. AddMutation(r, m) /\ stored' = stored /\ pending[r] = None
        BY <2>3 DEF Index, At
      <3>2. picked[r] \in Commit
        BY <2>3 DEF Index, At, GInv, TypeOK, PlacesAreRight, IndexingHasHash
      <3>3. m \in Mutation /\ m.repo = r
        BY <3>2 DEF CommitMutation, Mutation, Object
      <3> HIDE DEF m
      <3> QED BY <3>1, <3>3, AddedLags
    <2>4. CASE \E n \in Ref : LogRef(r, n)
      <3>1. PICK n \in Ref : LogRef(r, n)
        BY <2>4
      <3> DEFINE m == RefMutation(r, n, updates[r][n])
      <3>2. AddMutation(r, m) /\ stored' = stored /\ pending[r] = None
        BY <3>1 DEF LogRef, At
      <3>3. updates[r][n] \in Object
        BY <3>1 DEF LogRef, GInv, TypeOK, PlacesAreRight, LeftHasMoved
      <3>4. m \in Mutation /\ m.repo = r
        BY <3>3 DEF RefMutation, Mutation
      <3> HIDE DEF m
      <3> QED BY <3>2, <3>4, AddedLags
    <2>5. CASE Log(r)
      BY <2>5, LoggedLags
    <2>6. CASE LsRemote(r) \/ Fetch(r) \/ FetchFails(r) \/ Lacks(r) \/ Pick(r) \/ WalkEnds(r) \/ CycleEnds(r)
      BY <1>1, <2>6 DEF LsRemote, Fetch, FetchFails, Lacks, Pick, WalkEnds, CycleEnds, Returns
    <2> QED BY <1>2, <2>1, <2>2, <2>3, <2>4, <2>5, <2>6 DEF Poller
  <1>3. ASSUME NEW r \in Repo, Fails(r) \/ Push(r) PROVE LogLags'
    BY <1>1, <1>3 DEF Fails, Returns, Push
  <1>4. CASE Crash
    BY <1>4 DEF Crash, LogLags, CommitsLag, RepoLags, Known
  <1>5. CASE UNCHANGED vars
    BY <1>1, <1>5 DEF vars
  <1> QED BY <1>2, <1>3, <1>4, <1>5 DEF Next

LEMMA LagsHolds == Spec => []LogLags
  <1>1. GInv /\ LogLags /\ [Next]_vars => LogLags'
    BY LagsStep
  <1> QED BY <1>1, LagsInit, GInvHolds, PTL DEF Spec

\* In whatever order the goroutines log, when nothing is on its way the log gives the
\* commits, the counts, the refs and the tags that the leader has (maintner.go:527-545).
THEOREM LogIsReplayed == Spec => []ReplayMatches
  <1>1. GInv /\ LogLags => ReplayMatches
    <2> SUFFICES ASSUME GInv, LogLags, \A r \in Repo : pending[r] = None
                 PROVE  /\ mem.real = stored.real /\ mem.missing = stored.missing
                        /\ mem.count = stored.count
                        /\ mem.refs = stored.refs /\ mem.tags = stored.tags
      BY DEF ReplayMatches
    <2>1. mem \in Corpus /\ stored \in Corpus /\ KeepsTrack(mem) /\ KeepsTrack(stored)
      BY DEF GInv, TypeOK, NothingForgotten
    <2>2. mem.real = stored.real /\ Known(mem) = Known(stored)
      <3>1. mem.real \subseteq Commit /\ stored.real \subseteq Commit
            /\ Known(mem) \subseteq Commit /\ Known(stored) \subseteq Commit
        BY <2>1 DEF Corpus, Known
      <3> QED BY <3>1 DEF LogLags, CommitsLag
    <2>3. mem.missing = stored.missing
      <3>1. mem.missing = Known(mem) \ mem.real /\ stored.missing = Known(stored) \ stored.real
        <4>1. mem.missing \intersect mem.real = {} /\ stored.missing \intersect stored.real = {}
          BY <2>1 DEF KeepsTrack
        <4> QED BY <4>1 DEF Known
      <3> QED BY <2>2, <3>1
    <2>4. \A r \in Repo : /\ mem.count[r] = stored.count[r] /\ mem.tags[r] = stored.tags[r]
                          /\ \A n \in Ref : mem.refs[r][n] = stored.refs[r][n]
      BY DEF LogLags, RepoLags
    <2>5. mem.count = stored.count /\ mem.tags = stored.tags
      BY <2>1, <2>4 DEF Corpus
    <2>6. mem.refs = stored.refs
      <3>1. /\ mem.refs \in [Repo -> [Ref -> Object \union {None}]]
            /\ stored.refs \in [Repo -> [Ref -> Object \union {None}]]
        BY <2>1 DEF Corpus
      <3>2. ASSUME NEW r \in Repo PROVE mem.refs[r] = stored.refs[r]
        BY <2>4, <3>1
      <3> QED BY <3>1, <3>2
    <2> QED BY <2>2, <2>3, <2>5, <2>6
  <1> QED BY <1>1, GInvHolds, LagsHolds, PTL

-----------------------------------------------------------------------------
(***************************************************************************)
(* Refs and histories.  A commit that only one remote leads to is fetched, *)
(* queued and logged by that remote's goroutine alone, so that what is     *)
(* missing of it is in that goroutine's queue, and none of it is missing   *)
(* when the queue is empty.  All commits on the way to such a commit are   *)
(* such commits, or have another remote that leads to them and to it.      *)
(***************************************************************************)
LEMMA AncestorsAre ==
  ASSUME NEW c \in Commit
  PROVE  /\ Ancestors[c] \subseteq Commit /\ c \in Ancestors[c] /\ Closed(Ancestors[c])
         /\ \A S \in SUBSET Commit : c \in S /\ Closed(S) => Ancestors[c] \subseteq S
  <1>1. Ancestors[c] \subseteq Commit /\ c \in Ancestors[c]
    BY DEF Ancestors
  <1>2. \A S \in SUBSET Commit : c \in S /\ Closed(S) => Ancestors[c] \subseteq S
    BY DEF Ancestors
  <1>3. ASSUME NEW d \in Ancestors[c] PROVE Parents[d] \subseteq Ancestors[c]
    <2>1. d \in Commit /\ Parents[d] \subseteq Commit
      BY <1>1, <1>3, GitAssumption
    <2>2. ASSUME NEW S \in SUBSET Commit, c \in S, Closed(S) PROVE Parents[d] \subseteq S
      BY <1>2, <1>3, <2>2 DEF Closed
    <2> QED BY <2>1, <2>2 DEF Ancestors
  <1> QED BY <1>1, <1>2, <1>3 DEF Closed

LEMMA TipIsCommit == \A o \in Object : Tip(o) \in Commit
  BY GitAssumption DEF Object, Tip

LEMMA ReachIsClosed ==
  ASSUME NEW r \in Repo
  PROVE  Reach(r) \subseteq Commit /\ Closed(Reach(r))
  <1> DEFINE heads == {Ancestors[Tip(m[3])] : m \in {m \in Moves[r] : m[3] # None}}
  <1>1. \A H \in heads : H \subseteq Commit /\ Closed(H)
    <2> SUFFICES ASSUME NEW m \in Moves[r], m[3] # None
                 PROVE  Ancestors[Tip(m[3])] \subseteq Commit /\ Closed(Ancestors[Tip(m[3])])
      OBVIOUS
    <2>1. m[3] \in Object
      BY GitAssumption
    <2> QED BY <2>1, TipIsCommit, AncestorsAre
  <1>2. Reach(r) = UNION heads
    BY DEF Reach
  <1> HIDE DEF heads
  <1> QED BY <1>1, <1>2 DEF Closed

\* The remotes have what their moves give them, and the directories what they had.
Leads(r, o) == Ancestors[Tip(o)] \subseteq Reach(r)
RemotesLead ==
  \A r \in Repo, n \in Ref : /\ upstream[r][n] # None => Leads(r, upstream[r][n])
                             /\ updates[r][n] # None => Leads(r, updates[r][n])
ScratchIsReach == \A r \in Repo : scratch[r] \intersect Commit \subseteq Reach(r)

\* The leader's corpus has what a ref leads to.
Ready(r, o) ==
  /\ o \in Tag => o \in mem.tags[r]
  /\ Ancestors[Tip(o)] \intersect Private(r) \subseteq mem.real
Comes(r) ==
  /\ \A n \in Ref : updates[r][n] # None =>
       /\ pc[r] \in {"walk", "index"} \/ (pc[r] = "classify" /\ n \notin left[r]) =>
            (updates[r][n] \in Tag => updates[r][n] \in mem.tags[r])
       /\ pc[r] \in {"walk", "index"} => Tip(updates[r][n]) \in Known(mem) \union mem.todo[r]
       /\ pc[r] = "refs" => Ready(r, updates[r][n])
  /\ pending[r] # None /\ pending[r].kind = "ref" => Ready(r, pending[r].object)

FInv == RemotesLead /\ ScratchIsReach /\ (\A r \in Repo : Comes(r)) /\ RefsFollowCommits

\* With an empty queue no private commit of the histories of known commits is missing.
LEMMA HistoryIsIndexed ==
  ASSUME GInv, ScratchIsReach, NEW r \in Repo, ToIndex(r) = {},
         NEW c \in Commit, c \in Reach(r), c \in Known(mem) \union mem.todo[r]
  PROVE  Ancestors[c] \intersect Private(r) \subseteq mem.real
  <1> DEFINE Others == UNION {Reach(q) : q \in Repo \ {r}}
             S == (mem.real \intersect Reach(r)) \union Others
  <1>1. /\ mem \in Corpus /\ KeepsTrack(mem) /\ mem.todo[r] \subseteq mem.real
        /\ \A q \in Repo : mem.todo[q] \intersect Commit \subseteq Reach(q)
    BY DEF GInv, TypeOK, NothingForgotten, QueuedIsFetched, ScratchIsReach, ToIndex
  <1>2. Private(r) = Reach(r) \ Others
    BY DEF Private
  <1>3. Others \subseteq Commit /\ Closed(Others) /\ Reach(r) \subseteq Commit /\ Closed(Reach(r))
    <2>1. \A q \in Repo : Reach(q) \subseteq Commit /\ Closed(Reach(q))
      BY ReachIsClosed
    <2> QED BY <2>1 DEF Closed
  <1>4. ASSUME NEW p \in Known(mem), p \in Private(r) PROVE p \in mem.real
    <2>1. CASE p \in mem.missing
      <3>1. PICK q \in Repo : p \in mem.todo[q]
        BY <1>1, <2>1 DEF KeepsTrack
      <3>2. p \in Reach(q)
        BY <1>1, <1>2, <1>3, <1>4, <3>1
      <3>3. q = r
        BY <1>2, <1>4, <3>2
      <3> QED BY <1>1, <3>1, <3>3
    <2> QED BY <1>4, <2>1 DEF Known
  <1> HIDE DEF Others
  <1>5. ASSUME NEW d \in S PROVE Parents[d] \subseteq S
    <2>1. CASE d \in Others
      BY <1>3, <2>1 DEF Closed
    <2>2. CASE d \in mem.real \intersect Reach(r)
      <3>1. Parents[d] \subseteq Known(mem) /\ Parents[d] \subseteq Reach(r)
        BY <1>1, <1>3, <2>2 DEF KeepsTrack, Closed
      <3> QED BY <1>2, <1>4, <3>1
    <2> QED BY <1>5, <2>1, <2>2
  <1>6. c \in S
    BY <1>1, <1>2, <1>4
  <1>7. S \in SUBSET Commit
    BY <1>3
  <1>8. Ancestors[c] \subseteq S
    <2> HIDE DEF S
    <2>1. Closed(S)
      BY <1>5 DEF Closed
    <2> QED BY <1>6, <1>7, <2>1, AncestorsAre
  <1> QED BY <1>2, <1>8

\* What the leader's corpus may do while it runs.
Grows ==
  /\ mem.real \subseteq mem'.real
  /\ \A r \in Repo : /\ mem.tags[r] \subseteq mem'.tags[r]
                     /\ Known(mem) \union mem.todo[r] \subseteq Known(mem') \union mem'.todo[r]

LEMMA AddingGrows ==
  ASSUME GInv, NEW m \in Mutation, mem' = ProcessGitMutation(mem, m)
  PROVE  Grows /\ \A r \in Repo : NewTags(m, r) \subseteq mem'.tags[r]
  <1>1. Adds(mem, m, mem')
    BY ProcessAdds DEF GInv, TypeOK
  <1> QED BY <1>1 DEF Adds, Grows

LEMMA EnqueuingGrows ==
  ASSUME GInv, NEW r \in Repo, NEW hashes \in SUBSET Commit, mem' = Enqueue(mem, r, hashes)
  PROVE  Grows /\ hashes \subseteq Known(mem') \union mem'.todo[r]
  <1> DEFINE todo == [mem.todo EXCEPT ![r] = @ \union (hashes \ Known(mem))]
  <1>1. mem \in Corpus /\ mem' = [mem EXCEPT !.todo = todo]
    BY DEF Enqueue, GInv, TypeOK
  <1>2. (\A q \in Repo : mem.todo[q] \subseteq todo[q]) /\ hashes \subseteq Known(mem) \union todo[r]
    BY <1>1 DEF Corpus
  <1> HIDE DEF todo
  <1>3. /\ mem'.real = mem.real /\ mem'.missing = mem.missing /\ mem'.tags = mem.tags
        /\ mem'.todo = todo
    BY <1>1 DEF Corpus
  <1> QED BY <1>2, <1>3 DEF Grows, Known

LEMMA ReadyStays ==
  ASSUME Grows, NEW r \in Repo, NEW o, Ready(r, o)
  PROVE  Ready(r, o)'
  BY DEF Grows, Ready

\* A ref that is logged is ready, and the log lacks nothing of what it leads to.
LEMMA LoggedFollows ==
  ASSUME GInv, LogLags, FInv, NEW r \in Repo, Log(r)
  PROVE  RefsFollowCommits'
  <1> DEFINE m == pending[r]
  <1>1. /\ m # None /\ m \in Mutation /\ m.repo = r
        /\ \A q \in Repo : pending[q] # None /\ pending[q].kind = "commit" =>
             pending[q].object \in scratch[q] \intersect Commit
    BY DEF Log, GInv, TypeOK, PendingIsFetched, Mutation
  <1>2. Adds(stored, m, stored')
    BY <1>1, ProcessAdds DEF Log, GInv, TypeOK
  <1>3. /\ stored.real \subseteq stored'.real
        /\ \A q \in Repo : stored.tags[q] \subseteq stored'.tags[q]
    BY <1>2 DEF Adds
  <1>4. ASSUME m.kind = "ref"
        PROVE  /\ m.object \in Tag => m.object \in stored.tags[r]
               /\ Ancestors[Tip(m.object)] \intersect Private(r) \subseteq stored.real
    <2>1. Ready(r, m.object)
      BY <1>1, <1>4 DEF FInv, Comes
    <2>2. mem.tags[r] = stored.tags[r]
      BY <1>1, <1>4 DEF LogLags, RepoLags, NewTags
    <2>3. ASSUME NEW c \in mem.real, c \in Private(r) PROVE c \in stored.real
      <3>1. c \in Commit /\ c \in Reach(r) /\ \A q \in Repo : q # r => c \notin Reach(q)
        BY <2>3 DEF GInv, TypeOK, Corpus, Private
      <3>2. ASSUME NEW q \in Repo, pending[q] # None, c \in NewCommits(pending[q]) PROVE FALSE
        <4>1. pending[q].kind = "commit" /\ pending[q].object = c
          BY <3>2 DEF NewCommits
        <4>2. c \in Reach(q)
          BY <1>1, <3>2, <4>1 DEF FInv, ScratchIsReach
        <4> QED BY <1>4, <3>1, <4>1, <4>2
      <3> QED BY <3>1, <3>2 DEF LogLags, CommitsLag
    <2> QED BY <2>1, <2>2, <2>3 DEF Ready
  <1>5. ASSUME NEW q \in Repo, NEW n \in Ref, stored'.refs[q][n] # None
        PROVE  /\ stored'.refs[q][n] \in Tag => stored'.refs[q][n] \in stored'.tags[q]
               /\ Ancestors[Tip(stored'.refs[q][n])] \intersect Private(q) \subseteq stored'.real
    <2>1. CASE SetsRef(m, q, n)
      <3>1. stored'.refs[q][n] = m.object /\ q = r /\ m.kind = "ref"
        BY <1>1, <1>2, <2>1 DEF Adds, SetsRef
      <3> QED BY <1>3, <1>4, <3>1
    <2>2. CASE ~ SetsRef(m, q, n)
      <3>1. stored'.refs[q][n] = stored.refs[q][n]
        BY <1>2, <2>2 DEF Adds
      <3> QED BY <1>3, <1>5, <3>1 DEF FInv, RefsFollowCommits
    <2> QED BY <2>1, <2>2
  <1> QED BY <1>5 DEF RefsFollowCommits

LEMMA ComesStays ==
  ASSUME Grows, NEW r \in Repo, Comes(r), pc'[r] = pc[r], updates'[r] = updates[r],
         left'[r] = left[r], pending'[r] \in {None, pending[r]}
  PROVE  Comes(r)'
  BY ReadyStays DEF Comes, Grows

\* A step of one goroutine is about its own refs.
LEMMA FInvStays ==
  ASSUME FInv, Grows, NEW r \in Repo,
         \A q \in Repo \ {r} : /\ pc'[q] = pc[q] /\ updates'[q] = updates[q]
                               /\ left'[q] = left[q] /\ pending'[q] = pending[q],
         Comes(r)', UNCHANGED stored, RemotesLead', ScratchIsReach'
  PROVE  FInv'
  <1>1. ASSUME NEW q \in Repo PROVE Comes(q)'
    BY ComesStays DEF FInv
  <1>2. RefsFollowCommits'
    BY DEF FInv, RefsFollowCommits
  <1> QED BY <1>1, <1>2 DEF FInv

LEMMA SameGrows == UNCHANGED mem => Grows
  BY DEF Grows

LEMMA FInvLsRemote ==
  ASSUME GInv, FInv, NEW r \in Repo, LsRemote(r)
  PROVE  FInv'
  <1> DEFINE new == [n \in Ref |->
                       IF upstream[r][n] = mem.refs[r][n] THEN None ELSE upstream[r][n]]
  <1>1. /\ updates' = [updates EXCEPT ![r] = new] /\ pc' = [pc EXCEPT ![r] = "fetch"]
        /\ pending[r] = None
        /\ UNCHANGED <<upstream, scratch, mem, stored, left, pending>>
    BY DEF LsRemote, Goto, At
  <1>2. \A n \in Ref : new[n] \in {None, upstream[r][n]}
    OBVIOUS
  <1> HIDE DEF new
  <1>3. /\ updates'[r] = new /\ pc'[r] = "fetch"
        /\ \A q \in Repo \ {r} : pc'[q] = pc[q] /\ updates'[q] = updates[q]
    BY <1>1 DEF GInv, TypeOK
  <1>4. RemotesLead'
    <2> SUFFICES ASSUME NEW q \in Repo, NEW n \in Ref
                 PROVE  /\ upstream[q][n] # None => Leads(q, upstream[q][n])
                        /\ updates'[q][n] # None => Leads(q, updates'[q][n])
      BY <1>1 DEF RemotesLead, Leads
    <2> QED BY <1>2, <1>3 DEF FInv, RemotesLead
  <1>5. ScratchIsReach' /\ Comes(r)'
    BY <1>1, <1>3 DEF FInv, ScratchIsReach, Comes
  <1> QED BY <1>1, <1>3, <1>4, <1>5, SameGrows, FInvStays

LEMMA FInvFetch ==
  ASSUME GInv, FInv, NEW r \in Repo, Fetch(r)
  PROVE  FInv'
  <1> DEFINE histories == {Fetched(upstream[r][n]) : n \in Moved(r)}
  <1>1. /\ scratch' = [scratch EXCEPT ![r] = @ \union UNION histories]
        /\ left' = [left EXCEPT ![r] = Moved(r)]
        /\ pc' = [pc EXCEPT ![r] = "classify"]
        /\ pending[r] = None
        /\ UNCHANGED <<upstream, mem, stored, updates, pending>>
    BY DEF Fetch, Goto, At
  <1>2. \A H \in histories : H \intersect Commit \subseteq Reach(r)
    <2> SUFFICES ASSUME NEW n \in Moved(r), NEW c \in Fetched(upstream[r][n]) \intersect Commit
                 PROVE  c \in Reach(r)
      OBVIOUS
    <2>1. n \in Ref /\ upstream[r][n] \in Object /\ Leads(r, upstream[r][n])
      BY DEF Moved, Fetch, GInv, TypeOK, FInv, RemotesLead
    <2>2. c \in Ancestors[Tip(upstream[r][n])]
      <3>1. CASE c = upstream[r][n]
        <4>1. Tip(upstream[r][n]) = c
          BY <3>1, GitAssumption DEF Tip
        <4> QED BY <4>1, AncestorsAre
      <3> QED BY <3>1 DEF Fetched
    <2> QED BY <2>1, <2>2 DEF Leads
  <1> HIDE DEF histories
  <1>3. /\ scratch'[r] = scratch[r] \union UNION histories /\ left'[r] = Moved(r)
        /\ pc'[r] = "classify"
        /\ \A q \in Repo \ {r} : pc'[q] = pc[q] /\ scratch'[q] = scratch[q] /\ left'[q] = left[q]
    BY <1>1 DEF GInv, TypeOK
  <1>4. ScratchIsReach'
    BY <1>1, <1>2, <1>3 DEF FInv, ScratchIsReach, Reach
  <1>5. Comes(r)'
    BY <1>1, <1>3 DEF Comes, Moved
  <1>6. RemotesLead'
    BY <1>1 DEF FInv, RemotesLead, Leads
  <1> QED BY <1>1, <1>3, <1>4, <1>5, <1>6, SameGrows, FInvStays

LEMMA FInvClassify ==
  ASSUME GInv, FInv, NEW r \in Repo, NEW n \in Ref, Classify(r, n)
  PROVE  FInv'
  <1> DEFINE o == updates[r][n]
  <1>1. /\ pc[r] = "classify" /\ pending[r] = None
        /\ left' = [left EXCEPT ![r] = @ \ {n}]
        /\ UNCHANGED <<upstream, scratch, stored, pc, updates>>
    BY DEF Classify, At
  <1>2. \A q \in Repo \ {r} : left'[q] = left[q]
    BY <1>1 DEF GInv, TypeOK
  <1>3. left'[r] = left[r] \ {n}
    BY <1>1 DEF GInv, TypeOK
  <1>4. /\ Grows /\ (o \in Tag => o \in mem'.tags[r])
        /\ \A q \in Repo \ {r} : pending'[q] = pending[q]
        /\ pending'[r] = None \/ pending'[r].kind = "tag"
    <2>1. CASE o \in Tag
      <3> DEFINE m == TagMutation(r, o)
      <3>1. m \in Mutation /\ m.kind = "tag" /\ NewTags(m, r) = {o}
        BY <2>1 DEF TagMutation, Mutation, Object, NewTags
      <3>2. mem' = ProcessGitMutation(mem, m) /\ pending' = [pending EXCEPT ![r] = m]
        BY <2>1 DEF Classify, AddMutation
      <3> HIDE DEF m
      <3> QED BY <3>1, <3>2, AddingGrows DEF GInv, TypeOK
    <2>2. CASE o \notin Tag
      BY <1>1, <2>2, SameGrows DEF Classify
    <2> QED BY <2>1, <2>2
  <1>5. Comes(r)'
    BY <1>1, <1>3, <1>4 DEF FInv, Comes, Grows
  <1>6. RemotesLead' /\ ScratchIsReach'
    BY <1>1 DEF FInv, RemotesLead, Leads, ScratchIsReach
  <1> QED BY <1>1, <1>2, <1>4, <1>5, <1>6, FInvStays

LEMMA FInvEnqueueTips ==
  ASSUME GInv, FInv, NEW r \in Repo, EnqueueTips(r)
  PROVE  FInv'
  <1> DEFINE tips == {Tip(updates[r][n]) : n \in Moved(r)}
  <1>1. /\ mem' = Enqueue(mem, r, tips) /\ pc' = [pc EXCEPT ![r] = "walk"]
        /\ pc[r] = "classify" /\ left[r] = {} /\ pending[r] = None
        /\ UNCHANGED <<upstream, scratch, stored, updates, left, pending>>
    BY DEF EnqueueTips, Goto, At, cycleVars
  <1>2. tips \in SUBSET Commit
    <2>1. \A n \in Moved(r) : updates[r][n] \in Object
      BY DEF Moved, GInv, TypeOK
    <2> QED BY <2>1, TipIsCommit
  <1>3. \A n \in Ref : updates[r][n] # None => Tip(updates[r][n]) \in tips
    BY DEF Moved
  <1> HIDE DEF tips
  <1>4. Grows /\ tips \subseteq Known(mem') \union mem'.todo[r]
    BY <1>1, <1>2, EnqueuingGrows
  <1>5. pc'[r] = "walk" /\ \A q \in Repo \ {r} : pc'[q] = pc[q]
    BY <1>1 DEF GInv, TypeOK
  <1>6. Comes(r)'
    BY <1>1, <1>3, <1>4, <1>5 DEF FInv, Comes, Grows
  <1>7. RemotesLead' /\ ScratchIsReach'
    BY <1>1 DEF FInv, RemotesLead, Leads, ScratchIsReach
  <1> QED BY <1>1, <1>4, <1>5, <1>6, <1>7, FInvStays

LEMMA FInvIndex ==
  ASSUME GInv, FInv, NEW r \in Repo, Index(r)
  PROVE  FInv'
  <1> DEFINE m == CommitMutation(r, picked[r])
  <1>1. /\ mem' = ProcessGitMutation(mem, m) /\ pending' = [pending EXCEPT ![r] = m]
        /\ pc' = [pc EXCEPT ![r] = "walk"] /\ pc[r] = "index"
        /\ UNCHANGED <<upstream, scratch, stored, updates, left>>
    BY DEF Index, Goto, At, AddMutation
  <1>2. picked[r] \in Commit
    BY DEF Index, At, GInv, TypeOK, PlacesAreRight, IndexingHasHash
  <1>3. m \in Mutation /\ m.kind = "commit"
    BY <1>2 DEF CommitMutation, Mutation, Object
  <1> HIDE DEF m
  <1>4. Grows
    BY <1>1, <1>3, AddingGrows
  <1>5. /\ pc'[r] = "walk" /\ pending'[r] = m
        /\ \A q \in Repo \ {r} : pc'[q] = pc[q] /\ pending'[q] = pending[q]
    BY <1>1 DEF GInv, TypeOK
  <1>6. Comes(r)'
    BY <1>1, <1>3, <1>4, <1>5 DEF FInv, Comes, Grows
  <1>7. RemotesLead' /\ ScratchIsReach'
    BY <1>1 DEF FInv, RemotesLead, Leads, ScratchIsReach
  <1> QED BY <1>1, <1>4, <1>5, <1>6, <1>7, FInvStays

\* The queue is empty: the refs that moved are ready.
LEMMA FInvWalkEnds ==
  ASSUME GInv, FInv, NEW r \in Repo, WalkEnds(r)
  PROVE  FInv'
  <1>1. /\ pc[r] = "walk" /\ pending[r] = None /\ ToIndex(r) = {}
        /\ pc' = [pc EXCEPT ![r] = "refs"] /\ left' = [left EXCEPT ![r] = Moved(r)]
        /\ UNCHANGED <<upstream, scratch, mem, stored, updates, pending>>
    BY DEF WalkEnds, Goto, At
  <1>2. ASSUME NEW n \in Ref, updates[r][n] # None PROVE Ready(r, updates[r][n])
    <2> DEFINE c == Tip(updates[r][n])
    <2>1. /\ updates[r][n] \in Tag => updates[r][n] \in mem.tags[r]
          /\ c \in Known(mem) \union mem.todo[r]
      BY <1>1, <1>2 DEF FInv, Comes
    <2>2. updates[r][n] \in Object /\ c \in Commit
      BY <1>2, TipIsCommit DEF GInv, TypeOK
    <2>3. c \in Reach(r)
      <3>1. c \in Ancestors[c] /\ Leads(r, updates[r][n])
        BY <1>2, <2>2, AncestorsAre DEF FInv, RemotesLead
      <3> QED BY <3>1 DEF Leads
    <2>4. Ancestors[c] \intersect Private(r) \subseteq mem.real
      BY <1>1, <2>1, <2>2, <2>3, HistoryIsIndexed DEF FInv
    <2> QED BY <2>1, <2>4 DEF Ready
  <1>3. /\ pc'[r] = "refs"
        /\ \A q \in Repo \ {r} : pc'[q] = pc[q] /\ left'[q] = left[q]
    BY <1>1 DEF GInv, TypeOK
  <1>4. Comes(r)'
    BY <1>1, <1>2, <1>3 DEF Comes, Ready
  <1>5. RemotesLead' /\ ScratchIsReach'
    BY <1>1 DEF FInv, RemotesLead, Leads, ScratchIsReach
  <1> QED BY <1>1, <1>3, <1>4, <1>5, SameGrows, FInvStays

LEMMA FInvLogRef ==
  ASSUME GInv, FInv, NEW r \in Repo, NEW n \in Ref, LogRef(r, n)
  PROVE  FInv'
  <1> DEFINE m == RefMutation(r, n, updates[r][n])
  <1>1. /\ mem' = ProcessGitMutation(mem, m) /\ pending' = [pending EXCEPT ![r] = m]
        /\ left' = [left EXCEPT ![r] = @ \ {n}] /\ pc[r] = "refs"
        /\ UNCHANGED <<upstream, scratch, stored, pc, updates>>
    BY DEF LogRef, At, AddMutation
  <1>2. updates[r][n] \in Object /\ updates[r][n] # None
    BY DEF LogRef, GInv, TypeOK, PlacesAreRight, LeftHasMoved
  <1>3. m \in Mutation /\ m.object = updates[r][n]
    BY <1>2 DEF RefMutation, Mutation
  <1> HIDE DEF m
  <1>4. Grows
    BY <1>1, <1>3, AddingGrows
  <1>5. /\ pending'[r] = m
        /\ \A q \in Repo \ {r} : left'[q] = left[q] /\ pending'[q] = pending[q]
    BY <1>1 DEF GInv, TypeOK
  <1>6. ASSUME NEW k \in Ref, updates[r][k] # None
        PROVE  /\ updates[r][k] \in Tag => updates[r][k] \in mem'.tags[r]
               /\ Ancestors[Tip(updates[r][k])] \intersect Private(r) \subseteq mem'.real
    <2>1. Ready(r, updates[r][k])
      BY <1>1, <1>6 DEF FInv, Comes
    <2>2. mem.real \subseteq mem'.real /\ mem.tags[r] \subseteq mem'.tags[r]
      BY <1>4 DEF Grows
    <2> QED BY <2>1, <2>2 DEF Ready
  <1>7. Comes(r)'
    <2>1. pc'[r] = "refs" /\ updates' = updates
      BY <1>1
    <2>2. pending'[r].object = updates[r][n]
      BY <1>3, <1>5
    <2>3. /\ pending'[r].object \in Tag => pending'[r].object \in mem'.tags[r]
          /\ Ancestors[Tip(pending'[r].object)] \intersect Private(r) \subseteq mem'.real
      BY <1>2, <1>6, <2>2
    <2> QED BY <1>6, <2>1, <2>3 DEF Comes, Ready
  <1>8. RemotesLead' /\ ScratchIsReach'
    BY <1>1 DEF FInv, RemotesLead, Leads, ScratchIsReach
  <1> QED BY <1>1, <1>4, <1>5, <1>7, <1>8, FInvStays

LEMMA FInvReturns ==
  ASSUME GInv, FInv, NEW r \in Repo, Returns(r)
  PROVE  FInv'
  <1>1. /\ pc' = [pc EXCEPT ![r] = "poll"] /\ updates' = [updates EXCEPT ![r] = NoUpdates]
        /\ left' = [left EXCEPT ![r] = {}]
        /\ UNCHANGED <<upstream, scratch, mem, stored, pending>>
    BY DEF Returns, Goto
  <1>2. /\ pc'[r] = "poll" /\ (\A n \in Ref : updates'[r][n] = None)
        /\ \A q \in Repo \ {r} : pc'[q] = pc[q] /\ left'[q] = left[q] /\ updates'[q] = updates[q]
    BY <1>1 DEF GInv, TypeOK, NoUpdates
  <1>3. Comes(r)'
    BY <1>1, <1>2 DEF FInv, Comes, Ready
  <1>4. RemotesLead' /\ ScratchIsReach'
    BY <1>1, <1>2 DEF FInv, RemotesLead, Leads, ScratchIsReach
  <1> QED BY <1>1, <1>2, <1>3, <1>4, SameGrows, FInvStays

LEMMA FInvPush ==
  ASSUME GInv, FInv, NEW r \in Repo, Push(r)
  PROVE  FInv'
  <1>1. PICK move \in Moves[r] : upstream' = [upstream EXCEPT ![r][move[1]] = move[3]]
    BY DEF Push
  <1>2. UNCHANGED <<scratch, mem, stored, pc, updates, left, pending>>
    BY DEF Push, cycleVars
  <1>3. move[1] \in Ref /\ (move[3] # None => Leads(r, move[3]))
    BY GitAssumption DEF Leads, Reach
  <1>4. \A q \in Repo, n \in Ref : upstream'[q][n] = upstream[q][n] \/ (q = r /\ upstream'[q][n] = move[3])
    BY <1>1, <1>3 DEF GInv, TypeOK
  <1>5. RemotesLead'
    BY <1>2, <1>3, <1>4 DEF FInv, RemotesLead, Leads
  <1>6. Comes(r)' /\ ScratchIsReach'
    BY <1>2 DEF FInv, Comes, Ready, ScratchIsReach
  <1> QED BY <1>2, <1>5, <1>6, SameGrows, FInvStays

LEMMA FInvLog ==
  ASSUME GInv, LogLags, FInv, NEW r \in Repo, Log(r)
  PROVE  FInv'
  <1>1. /\ pending' = [pending EXCEPT ![r] = None]
        /\ UNCHANGED <<upstream, scratch, mem, pc, updates, left>>
    BY DEF Log, cycleVars
  <1>2. \A q \in Repo : pending'[q] \in {None, pending[q]}
    BY <1>1 DEF GInv, TypeOK
  <1>3. \A q \in Repo : Comes(q)'
    BY <1>1, <1>2, SameGrows, ComesStays DEF FInv
  <1>4. RemotesLead' /\ ScratchIsReach'
    BY <1>1 DEF FInv, RemotesLead, Leads, ScratchIsReach
  <1> QED BY <1>3, <1>4, LoggedFollows DEF FInv

LEMMA FInvCrash ==
  ASSUME GInv, FInv, Crash
  PROVE  FInv'
  <1>1. \A r \in Repo : pc'[r] = "poll" /\ pending'[r] = None /\ \A n \in Ref : updates'[r][n] = None
    BY DEF Crash, NoUpdates
  <1>2. \A r \in Repo : Comes(r)'
    BY <1>1 DEF Comes
  <1>3. RemotesLead' /\ ScratchIsReach' /\ RefsFollowCommits'
    BY <1>1 DEF Crash, FInv, RemotesLead, Leads, ScratchIsReach, RefsFollowCommits
  <1> QED BY <1>2, <1>3 DEF FInv

LEMMA FInvInit == Init => FInv
  <1> SUFFICES ASSUME Init PROVE FInv
    OBVIOUS
  <1>1. RemotesLead /\ ScratchIsReach
    BY DEF Init, RemotesLead, ScratchIsReach, NoUpdates
  <1>2. \A r \in Repo : Comes(r)
    BY DEF Init, Comes, NoUpdates
  <1>3. RefsFollowCommits
    BY DEF Init, RefsFollowCommits, EmptyCorpus
  <1> QED BY <1>1, <1>2, <1>3 DEF FInv

LEMMA FInvStep ==
  ASSUME GInv, LogLags, FInv, [Next]_vars
  PROVE  FInv'
  <1>1. CASE UNCHANGED vars
    <2>1. UNCHANGED <<upstream, scratch, mem, stored, pc, updates, left, pending>>
      BY <1>1 DEF vars, cycleVars
    <2>2. \A r \in Repo : Comes(r)'
      BY <2>1, SameGrows, ComesStays DEF FInv
    <2>3. RemotesLead' /\ ScratchIsReach' /\ RefsFollowCommits'
      BY <2>1 DEF FInv, RemotesLead, Leads, ScratchIsReach, RefsFollowCommits
    <2> QED BY <2>2, <2>3 DEF FInv
  <1>2. ASSUME NEW r \in Repo, Poller(r) PROVE FInv'
    <2>1. CASE CycleEnds(r) \/ FetchFails(r) \/ Lacks(r)
      <3>1. Returns(r)
        BY <2>1 DEF CycleEnds, FetchFails, Lacks
      <3> QED BY <3>1, FInvReturns
    <2>2. CASE Pick(r)
      <3>1. /\ pc[r] = "walk" /\ pc' = [pc EXCEPT ![r] = "index"]
            /\ UNCHANGED <<upstream, scratch, mem, stored, updates, left, pending>>
        BY <2>2 DEF Pick, Goto, At
      <3>2. pc'[r] = "index" /\ \A q \in Repo \ {r} : pc'[q] = pc[q]
        BY <3>1 DEF GInv, TypeOK
      <3>3. Comes(r)'
        BY <3>1, <3>2 DEF FInv, Comes, Ready
      <3>4. RemotesLead' /\ ScratchIsReach'
        BY <3>1 DEF FInv, RemotesLead, Leads, ScratchIsReach
      <3> QED BY <3>1, <3>2, <3>3, <3>4, SameGrows, FInvStays
    <2> QED BY <1>2, <2>1, <2>2, FInvLsRemote, FInvFetch, FInvClassify, FInvEnqueueTips,
               FInvIndex, FInvWalkEnds, FInvLogRef, FInvLog DEF Poller
  <1>3. ASSUME NEW r \in Repo, Fails(r) PROVE FInv'
    BY <1>3, FInvReturns DEF Fails
  <1>4. ASSUME NEW r \in Repo, Push(r) PROVE FInv'
    BY <1>4, FInvPush
  <1>5. CASE Crash
    BY <1>5, FInvCrash
  <1> QED BY <1>1, <1>2, <1>3, <1>4, <1>5 DEF Next

\* A ref that is in the log has its tag object and all of its history that no other
\* remote shares before it, for any graph, pushes, failures and crashes (git.go:874).
THEOREM HistoriesAreBeforeRefs == Spec => []RefsFollowCommits
  <1>1. GInv /\ LogLags /\ FInv /\ [Next]_vars => FInv'
    BY FInvStep
  <1>2. FInv => RefsFollowCommits
    BY DEF FInv
  <1> QED BY <1>1, <1>2, FInvInit, GInvHolds, LagsHolds, PTL DEF Spec
=============================================================================
