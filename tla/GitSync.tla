------------------------------ MODULE GitSync ------------------------------
(***************************************************************************)
(* The leader's git pollers.  One goroutine per watched repository runs    *)
(* syncGitRepo: it lists the remote's refs, fetches those that moved into  *)
(* a scratch directory, indexes every new commit on the way to them, and   *)
(* then logs the refs.  The goroutines share the corpus: one map of        *)
(* commits, in which a commit known only as a parent is a placeholder, and *)
(* for each repository a queue of hashes still to index, its refs and its  *)
(* tags.                                                                   *)
(*                                                                         *)
(* addMutation processes a mutation under c.mu and logs it after the       *)
(* unlock, so the log may hold the mutations of two goroutines in another  *)
(* order than the corpus processed them.  A crash loses the corpus and     *)
(* what was not logged; the scratch directories stay on disk.              *)
(***************************************************************************)
EXTENDS Naturals, FiniteSets

CONSTANTS
  Repo,         \* the watched repositories
  Ref,          \* names of refs
  Commit, Tag,  \* the git objects: commits and annotated tags
  Parents,      \* Parents[c]: the parents of commit c
  Target,       \* Target[t]: the commit that tag t points to
  Unparseable,  \* commits whose author or committer line does not parse
  Moves,        \* Moves[r]: <<ref, old, new>>, what may happen to a ref of r's remote
  None,         \* no object, no repository
  MaxFaults,    \* bound: git commands that fail
  MaxCrashes    \* bound: restarts of the leader

Object == Commit \union Tag

ASSUME GitAssumption ==
  /\ Parents \in [Commit -> SUBSET Commit]
  /\ Target \in [Tag -> Commit]
  /\ Unparseable \subseteq Commit
  /\ Commit \intersect Tag = {}
  /\ Moves \in [Repo -> SUBSET (Ref \X (Object \union {None}) \X (Object \union {None}))]
  /\ None \notin Object \union Repo
  /\ MaxFaults \in Nat /\ MaxCrashes \in Nat

VARIABLES
  upstream,  \* upstream[r][ref]: what the ref points to in r's remote
  scratch,   \* scratch[r]: the objects in r's scratch directory
  mem,       \* the leader's corpus, see Corpus
  stored,    \* the corpus that replaying the log gives: a follower's, or ours
             \* after a restart
  pc,        \* pc[r]: where the goroutine of r is in syncGitRepoOnce
  updates,   \* updates[r][ref]: the new value of a ref that moved, or None
  left,      \* left[r]: the refs that the loop of step 5 or 8 has still to visit
  picked,    \* picked[r]: the hash gitCommitToIndex returned
  pending,   \* pending[r]: the mutation addMutation processed but has not logged
  faults, crashes

cycleVars == <<updates, left, picked>>
vars == <<upstream, scratch, mem, stored, pc, cycleVars, pending, faults, crashes>>

Corpus ==
  [real : SUBSET Commit,                  \* c.gitCommit: the commits indexed
   missing : SUBSET Commit,               \* c.gitCommit: the placeholders
   owner : [Commit -> Repo \union {None}],  \* GitCommit.Repo
   count : [Repo -> Nat],                 \* c.gitCommitCount
   todo : [Repo -> SUBSET Commit],        \* per repository: hashes to index,
   refs : [Repo -> [Ref -> Object \union {None}]],  \* refs,
   tags : [Repo -> SUBSET Tag]]           \* and tag objects

\* A git mutation carries a commit, a tag object or the new value of a ref.
Mutation ==
  {m \in [kind : {"commit", "tag", "ref"}, repo : Repo, object : Object, ref : Ref \union {None}] :
     /\ m.kind = "commit" => m.object \in Commit
     /\ m.kind = "tag" => m.object \in Tag
     /\ m.kind = "ref" => m.ref \in Ref}
ASSUME NoneAssumption == None \notin Mutation

CommitMutation(r, c) == [kind |-> "commit", repo |-> r, object |-> c, ref |-> None]
TagMutation(r, t)    == [kind |-> "tag", repo |-> r, object |-> t, ref |-> None]
RefMutation(r, n, o) == [kind |-> "ref", repo |-> r, object |-> o, ref |-> n]

EmptyCorpus ==
  [real |-> {}, missing |-> {}, owner |-> [c \in Commit |-> None],
   count |-> [r \in Repo |-> 0], todo |-> [r \in Repo |-> {}],
   refs |-> [r \in Repo |-> [n \in Ref |-> None]], tags |-> [r \in Repo |-> {}]]

\* The commit to index for an object a ref points to.
Tip(o) == IF o \in Tag THEN Target[o] ELSE o

\* Ancestors[c]: c and the commits reachable from it, the least set closed
\* under Parents with c in it.
Closed(S) == \A c \in S : Parents[c] \subseteq S
Ancestors ==
  [c \in Commit |-> {d \in Commit : \A S \in SUBSET Commit : c \in S /\ Closed(S) => d \in S}]

\* What git fetch of a ref brings into the scratch directory.
Fetched(o) == {o} \union Ancestors[Tip(o)]

Known(corp) == corp.real \union corp.missing

\* Mutant: one queue for all repositories.
EnqueueForAll(corp, r, hashes) ==
  [corp EXCEPT !.todo = [q \in Repo |-> @[q] \union (hashes \ Known(corp))]]

\* A goroutine queues hashes for its repository, unless the corpus has an
\* entry for them, if only a placeholder.
Enqueue(corp, r, hashes) ==
  [corp EXCEPT !.todo[r] = @ \union (hashes \ Known(corp))]

\* Mutant: the placeholder is installed before the parent is queued.
ParentsFirst(corp, r, c) ==
  Enqueue([corp EXCEPT !.missing = @ \union (Parents[c] \ Known(corp))], r, Parents[c])

\* The parents of c that are new become placeholders, and are queued.
WithParents(corp, r, c) ==
  [Enqueue(corp, r, Parents[c]) EXCEPT !.missing = @ \union (Parents[c] \ Known(corp))]

\* Mutant: a commit is counted for the repository that indexes it first.
CountedForFirst(corp, r, c) ==
  [real |-> corp.real \union {c},
   missing |-> corp.missing \ {c},
   owner |-> [corp.owner EXCEPT ![c] = IF c \in Known(corp) THEN None ELSE r],
   count |-> [corp.count EXCEPT ![r] = IF c \in corp.real THEN @ ELSE @ + 1],
   todo |-> [q \in Repo |-> corp.todo[q] \ {c}],
   refs |-> corp.refs, tags |-> corp.tags]

\* An entry that was there already is overwritten in place by the new commit,
\* before that one is given its repository: the entry ends without one.  The
\* commit is counted for the repository either way.
Filled(corp, r, c) ==
  [real |-> corp.real \union {c},
   missing |-> corp.missing \ {c},
   owner |-> [corp.owner EXCEPT ![c] = IF c \in Known(corp) THEN None ELSE r],
   count |-> [corp.count EXCEPT ![r] = @ + 1],
   todo |-> [q \in Repo |-> corp.todo[q] \ {c}],
   refs |-> corp.refs, tags |-> corp.tags]

\* Of a commit that does not parse, only the parents are processed.
ProcessGitCommit(corp, r, c) ==
  IF c \in Unparseable THEN WithParents(corp, r, c)
  ELSE Filled(WithParents(corp, r, c), r, c)

ProcessGitTag(corp, r, t) == [corp EXCEPT !.tags[r] = @ \union {t}]

ProcessGitMutation(corp, m) ==
  CASE m.kind = "commit" -> ProcessGitCommit(corp, m.repo, m.object)
    [] m.kind = "tag"    -> ProcessGitTag(corp, m.repo, m.object)
    [] m.kind = "ref"    -> [corp EXCEPT !.refs[m.repo][m.ref] = m.object]

NoUpdates == [n \in Ref |-> None]

Init ==
  /\ upstream = [r \in Repo |-> NoUpdates]
  /\ scratch = [r \in Repo |-> {}]
  /\ mem = EmptyCorpus /\ stored = EmptyCorpus
  /\ pc = [r \in Repo |-> "poll"]
  /\ updates = [r \in Repo |-> NoUpdates]
  /\ left = [r \in Repo |-> {}]
  /\ picked = [r \in Repo |-> None]
  /\ pending = [r \in Repo |-> None]
  /\ faults = 0 /\ crashes = 0

\* The goroutine of r is at that place of its cycle, and not inside addMutation.
At(r, place) == pc[r] = place /\ pending[r] = None

Goto(r, place) == pc' = [pc EXCEPT ![r] = place]

Moved(r) == {n \in Ref : updates[r][n] # None}

\* The first half of addMutation: the mutation is processed under c.mu.
AddMutation(r, m) ==
  /\ mem' = ProcessGitMutation(mem, m)
  /\ pending' = [pending EXCEPT ![r] = m]

\* The second half, after the unlock: it goes to the log.
Log(r) ==
  /\ pending[r] # None
  /\ stored' = ProcessGitMutation(stored, pending[r])
  /\ pending' = [pending EXCEPT ![r] = None]
  /\ UNCHANGED <<upstream, scratch, mem, pc, cycleVars, faults, crashes>>

-----------------------------------------------------------------------------
\* Steps 1 to 3: list the remote's refs, keep those that are not what the
\* corpus knows.  A ref the remote has lost is not listed.
LsRemote(r) ==
  /\ At(r, "poll")
  /\ updates' = [updates EXCEPT ![r] = [n \in Ref |->
                   IF upstream[r][n] = mem.refs[r][n] THEN None ELSE upstream[r][n]]]
  /\ updates'[r] # NoUpdates
  /\ Goto(r, "fetch")
  /\ UNCHANGED <<upstream, scratch, mem, stored, left, picked, pending, faults, crashes>>

\* Step 4: fetch them, as they are by now.
Fetch(r) ==
  /\ At(r, "fetch")
  /\ \A n \in Moved(r) : upstream[r][n] # None
  /\ scratch' = [scratch EXCEPT ![r] =
                   @ \union UNION {Fetched(upstream[r][n]) : n \in Moved(r)}]
  /\ left' = [left EXCEPT ![r] = Moved(r)]
  /\ Goto(r, "classify")
  /\ UNCHANGED <<upstream, mem, stored, updates, picked, pending, faults, crashes>>

\* Step 5, for one ref: a tag object is logged, and leads to the commit.
Classify(r, n) ==
  /\ At(r, "classify")
  /\ n \in left[r]
  /\ updates[r][n] \in scratch[r]
  /\ left' = [left EXCEPT ![r] = @ \ {n}]
  /\ IF updates[r][n] \in Tag
     THEN AddMutation(r, TagMutation(r, updates[r][n]))
     ELSE UNCHANGED <<mem, pending>>
  /\ UNCHANGED <<upstream, scratch, stored, pc, updates, picked, faults, crashes>>

\* Mutant: it queues what the refs point to, tag objects included.
EnqueueHashes(r) ==
  /\ At(r, "classify")
  /\ left[r] = {}
  /\ mem' = Enqueue(mem, r, {updates[r][n] : n \in Moved(r)})
  /\ Goto(r, "walk")
  /\ UNCHANGED <<upstream, scratch, stored, cycleVars, pending, faults, crashes>>

\* Step 6: queue the commits.
EnqueueTips(r) ==
  /\ At(r, "classify")
  /\ left[r] = {}
  /\ mem' = Enqueue(mem, r, {Tip(updates[r][n]) : n \in Moved(r)})
  /\ Goto(r, "walk")
  /\ UNCHANGED <<upstream, scratch, stored, cycleVars, pending, faults, crashes>>

\* gitCommitToIndex: any hash of the queue that is not in the corpus yet.
ToIndex(r) == mem.todo[r] \ mem.real

\* Step 7: take a hash from the queue, and read the commit from the scratch
\* directory, not holding c.mu.
Pick(r) ==
  /\ At(r, "walk")
  /\ \E h \in ToIndex(r) : picked' = [picked EXCEPT ![r] = h]
  /\ Goto(r, "index")
  /\ UNCHANGED <<upstream, scratch, mem, stored, updates, left, pending, faults, crashes>>

\* indexCommit.
Index(r) ==
  /\ At(r, "index")
  /\ picked[r] \in scratch[r]
  /\ AddMutation(r, CommitMutation(r, picked[r]))
  /\ picked' = [picked EXCEPT ![r] = None]
  /\ Goto(r, "walk")
  /\ UNCHANGED <<upstream, scratch, stored, updates, left, faults, crashes>>

\* Mutant: the refs are logged while commits are still queued.
WalkEndsEarly(r) ==
  /\ At(r, "walk")
  /\ left' = [left EXCEPT ![r] = Moved(r)]
  /\ Goto(r, "refs")
  /\ UNCHANGED <<upstream, scratch, mem, stored, updates, picked, pending, faults, crashes>>

\* Nothing is left to index.
WalkEnds(r) ==
  /\ At(r, "walk")
  /\ ToIndex(r) = {}
  /\ left' = [left EXCEPT ![r] = Moved(r)]
  /\ Goto(r, "refs")
  /\ UNCHANGED <<upstream, scratch, mem, stored, updates, picked, pending, faults, crashes>>

\* Step 8, for one ref.
LogRef(r, n) ==
  /\ At(r, "refs")
  /\ n \in left[r]
  /\ left' = [left EXCEPT ![r] = @ \ {n}]
  /\ AddMutation(r, RefMutation(r, n, updates[r][n]))
  /\ UNCHANGED <<upstream, scratch, stored, pc, updates, picked, faults, crashes>>

\* syncGitRepoOnce returns; its locals are gone, the queue of r is not.
Returns(r) ==
  /\ Goto(r, "poll")
  /\ updates' = [updates EXCEPT ![r] = NoUpdates]
  /\ left' = [left EXCEPT ![r] = {}]
  /\ picked' = [picked EXCEPT ![r] = None]
  /\ UNCHANGED <<upstream, scratch, mem, stored, pending, crashes>>

CycleEnds(r) == At(r, "refs") /\ left[r] = {} /\ Returns(r) /\ UNCHANGED faults

\* Mutant: the same fetch is tried again, not the cycle.
FetchRetried(r) ==
  /\ At(r, "fetch")
  /\ \E n \in Moved(r) : upstream[r][n] = None
  /\ UNCHANGED vars

\* git fetch of a ref the remote has lost since step 1.
FetchFails(r) ==
  /\ At(r, "fetch")
  /\ \E n \in Moved(r) : upstream[r][n] = None
  /\ Returns(r) /\ UNCHANGED faults

\* git cat-file of an object that is not in the scratch directory: the remote's
\* ref moved on between ls-remote and fetch.
Lacks(r) ==
  /\ \/ At(r, "classify") /\ \E n \in left[r] : updates[r][n] \notin scratch[r]
     \/ At(r, "index") /\ picked[r] \notin scratch[r]
  /\ Returns(r) /\ UNCHANGED faults

\* A git command fails for a reason of its own.
Fails(r) ==
  /\ At(r, "fetch") \/ (At(r, "classify") /\ left[r] # {}) \/ At(r, "index")
  /\ faults < MaxFaults
  /\ faults' = faults + 1
  /\ Returns(r)

-----------------------------------------------------------------------------
\* Somebody pushes to the remote.
Push(r) ==
  /\ \E move \in Moves[r] :
       /\ upstream[r][move[1]] = move[2]
       /\ upstream' = [upstream EXCEPT ![r][move[1]] = move[3]]
  /\ UNCHANGED <<scratch, mem, stored, pc, cycleVars, pending, faults, crashes>>

\* The leader's process ends, or log.Fatalf ends it when a mutation cannot be
\* logged; the next one replays the log.
Crash ==
  /\ crashes < MaxCrashes
  /\ crashes' = crashes + 1
  /\ mem' = stored
  /\ pc' = [r \in Repo |-> "poll"]
  /\ updates' = [r \in Repo |-> NoUpdates]
  /\ left' = [r \in Repo |-> {}]
  /\ picked' = [r \in Repo |-> None]
  /\ pending' = [r \in Repo |-> None]
  /\ UNCHANGED <<upstream, scratch, stored, faults>>

\* What the goroutine of r does next, if no command fails.
Poller(r) ==
  \/ LsRemote(r) \/ Fetch(r) \/ FetchFails(r)
  \/ (\E n \in Ref : Classify(r, n)) \/ Lacks(r) \/ EnqueueTips(r)
  \/ Pick(r) \/ Index(r) \/ WalkEnds(r)
  \/ (\E n \in Ref : LogRef(r, n)) \/ CycleEnds(r)
  \/ Log(r)

Next ==
  \/ \E r \in Repo : Poller(r) \/ Fails(r) \/ Push(r)
  \/ Crash

Spec == Init /\ [][Next]_vars

\* A goroutine that can go on does: after an error it sleeps 30 seconds and
\* starts over, between two cycles it sleeps for the poll interval.
FairSpec == Spec /\ \A r \in Repo : WF_vars(Poller(r))

-----------------------------------------------------------------------------
\* Every variable has its type.
TypeOK ==
  /\ upstream \in [Repo -> [Ref -> Object \union {None}]]
  /\ scratch \in [Repo -> SUBSET Object]
  /\ mem \in Corpus /\ stored \in Corpus
  /\ pc \in [Repo -> {"poll", "fetch", "classify", "walk", "index", "refs"}]
  /\ updates \in [Repo -> [Ref -> Object \union {None}]]
  /\ left \in [Repo -> SUBSET Ref]
  /\ picked \in [Repo -> Commit \union {None}]
  /\ pending \in [Repo -> Mutation \union {None}]
  /\ faults \in Nat /\ crashes \in Nat

\* A corpus forgets no commit it has heard of: it has an entry for every parent
\* of a commit it has indexed, every placeholder is still queued for some
\* repository, and no queue holds a commit that is indexed already.
KeepsTrack(corp) ==
  /\ \A c \in corp.real : Parents[c] \subseteq Known(corp)
  /\ corp.missing \intersect corp.real = {}
  /\ \A c \in corp.missing : \E r \in Repo : c \in corp.todo[r]
  /\ \A r \in Repo : corp.todo[r] \intersect corp.real = {}

\* The leader's corpus forgets no commit, and neither does the corpus that a
\* follower, or the leader after a crash at any point, makes from the log
\* (git.go:541-563, 612-625), though the mutations of two goroutines may be
\* logged in another order than they were processed.
NothingForgotten == KeepsTrack(mem) /\ KeepsTrack(stored)

\* What is queued for a repository is in its scratch directory, before and
\* after a restart, so no goroutine asks git for an object that only another
\* one has fetched (git.go:207-212, maintner.go:106-112).
QueuedIsFetched ==
  \A r \in Repo : mem.todo[r] \union stored.todo[r] \subseteq scratch[r]

\* The commits that only the remote of r can have.
Reach(r) == UNION {Ancestors[Tip(m[3])] : m \in {m \in Moves[r] : m[3] # None}}
Private(r) == Reach(r) \ UNION {Reach(q) : q \in Repo \ {r}}

\* A ref is logged after what it leads to (git.go:874): for a ref of the log,
\* the log has its tag object, if it is one, and every commit of its history
\* that no other repository shares.
RefsFollowCommits ==
  \A r \in Repo, n \in Ref :
    LET o == stored.refs[r][n] IN
    o # None =>
      /\ o \in Tag => o \in stored.tags[r]
      /\ Ancestors[Tip(o)] \intersect Private(r) \subseteq stored.real

\* GitCommit.Repo names the repository of the commit (git.go:104), by which
\* ForeachGitCommitForRepo finds those "that belong to the named repo"
\* (maintner.go:748).  It does not hold for a commit that was a placeholder.
CommitsHaveRepo == \A c \in mem.real : mem.owner[c] # None

\* When no mutation is on its way to the log, the leader's corpus and the one
\* the log gives have the same commits, counts, refs and tags, in whatever
\* order the goroutines logged (maintner.go:527-545).
ReplayMatches ==
  (\A r \in Repo : pending[r] = None) =>
    /\ mem.real = stored.real /\ mem.missing = stored.missing
    /\ mem.count = stored.count
    /\ mem.refs = stored.refs /\ mem.tags = stored.tags

\* No commit that does not parse is in the queue of r.  One that is stays there until the
\* process ends, also when the remote has moved away from it.
Clear(r) == mem.todo[r] \intersect Unparseable = {}

UpToDate(r) ==
  \A n \in Ref : upstream[r][n] # None => stored.refs[r][n] = upstream[r][n]

\* Every commit of the history of every ref of the log is in the log.
HistoriesAreLogged ==
  \A r \in Repo, n \in Ref :
    stored.refs[r][n] # None => Ancestors[Tip(stored.refs[r][n])] \subseteq stored.real

\* Once the pushes stop, the log has the refs of every remote, whatever failed,
\* moved or crashed before, unless the repository's queue holds a commit that does
\* not parse: its goroutine then logs that commit again and again, and no ref any
\* more, wherever the remote goes.  If nothing failed or crashed and no queue holds
\* one, the log has the complete histories of its refs, shared commits included
\* (git.go:723-890).
CatchesUp ==
  <>[][FALSE]_upstream =>
    /\ \A r \in Repo : <>[](Clear(r) => UpToDate(r))
    /\ <>[](faults = 0 /\ crashes = 0 /\ (\A r \in Repo : Clear(r)) =>
             HistoriesAreLogged)
=============================================================================
