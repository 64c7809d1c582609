----------------------------- MODULE GerritSync -----------------------------
(***************************************************************************)
(* The leader's poller of a Gerrit project, and the part of the corpus it  *)
(* fills.  A change (CL) is on the server as a number of refs: one for     *)
(* each patch set, and a meta ref, whose history of commits records what   *)
(* happened to the change.  A sync lists the refs and takes those that     *)
(* moved in batches: it fetches a batch, indexes every new commit on the   *)
(* way to it, and logs its refs.  What the corpus shows of a change is     *)
(* computed from the history of its meta ref, after each mutation in the   *)
(* leader, at the end of the log in a follower or after a restart.         *)
(*                                                                         *)
(* addMutation processes a mutation under c.mu and logs it after the       *)
(* unlock.  A crash loses the corpus and the mutation that was not logged; *)
(* the project's git directory stays on disk.                              *)
(*                                                                         *)
(* One project is modelled: its goroutine alone changes it, and pollers of *)
(* other projects share nothing but the map of commits, which here only    *)
(* says which hashes are known.  The hash of an annotated tag is indexed   *)
(* as a commit with the parents of the one it points to (git cat-file      *)
(* peels it), and so is a member of Commit.                                *)
(***************************************************************************)
EXTENDS Naturals, FiniteSets

CONSTANTS
  Branch,       \* names of refs that are not of a change
  Untracked,    \* those of them that trackGerritRef refuses
  CL,           \* the changes
  PatchSet,     \* numbers of patch sets
  Commit,       \* hashes of commits
  Parents,      \* Parents[c]: the parents of commit c
  Unparseable,  \* commits whose author or committer line does not parse
  StatusOf,     \* StatusOf[c]: the status that meta commit c sets, or NoStatus
  Private,      \* meta commits that say the change is private
  Labelled,     \* meta commits with a vote
  Uploads,      \* Uploads[c]: the patch set commit that meta commit c announces
  Issues,       \* Issues[c]: the GitHub issues that the message of c refers to
  Issue, Status, NoStatus,
  Position,     \* Position[n]: where ls-remote, sorted by name, lists n
  Moves,        \* sets of <<ref, old, new>>: what may happen to the server's refs
  BatchSize,    \* how many refs are fetched and logged at a time; 250 in the code
  None,         \* no commit
  MaxFaults,    \* bound: git commands that fail
  MaxCrashes    \* bound: restarts of the leader

\* A change's ref is that of a patch set, or, with number 0, its meta ref.
ChangeRef == CL \X (PatchSet \union {0})
Name == Branch \union ChangeRef
Hash == Commit \union {None}

\* Ancestors[c]: c and the commits reachable from it.
Closed(S) == \A c \in S : Parents[c] \subseteq S
Ancestors ==
  [c \in Commit |-> {d \in Commit : \A S \in SUBSET Commit : c \in S /\ Closed(S) => d \in S}]

ASSUME GerritAssumption ==
  /\ Untracked \subseteq Branch /\ Branch \intersect ChangeRef = {}
  /\ PatchSet \subseteq Nat \ {0}
  /\ Parents \in [Commit -> SUBSET Commit]
  /\ Unparseable \subseteq Commit /\ Private \subseteq Commit /\ Labelled \subseteq Commit
  /\ StatusOf \in [Commit -> Status \union {NoStatus}] /\ "new" \in Status /\ NoStatus \notin Status
  /\ Uploads \in [Commit -> Hash]
  /\ Issues \in [Commit -> SUBSET Issue]
  /\ IsFiniteSet(Commit) /\ IsFiniteSet(Name)
  /\ Position \in [Name -> Nat]
  /\ \A n, k \in Name : Position[n] = Position[k] => n = k
  /\ None \notin Commit
  /\ Moves \subseteq SUBSET (Name \X Hash \X Hash)
  /\ BatchSize \in Nat \ {0} /\ MaxFaults \in Nat /\ MaxCrashes \in Nat

\* "meta tree has no merge commits": foreachCommit would give up at one.
ASSUME MetaAssumption ==
  \A move \in Moves : \A update \in move :
    update[1] \in CL \X {0} /\ update[3] # None =>
      \A c \in Ancestors[update[3]] : Cardinality(Parents[c]) <= 1

\* What a Gerrit server does to a change, unless it is deleted: a patch set stays
\* what it is, the history of a meta ref only grows, and a meta commit that announces
\* a patch set comes with its ref.
ASSUME ServerAssumption ==
  \A move \in Moves : \A update \in move :
    /\ \A other \in move : other[1] = update[1] => other = update
    /\ update[1] \in CL \X PatchSet => update[2] = None
    /\ update[1] \in CL \X {0} =>
         /\ update[3] # None
         /\ update[2] # None => update[2] \in Ancestors[update[3]]
         /\ \A c \in Ancestors[update[3]] : Uploads[c] # None =>
              \/ update[2] # None /\ c \in Ancestors[update[2]]
              \/ \E k \in PatchSet : << <<update[1][1], k>>, None, Uploads[c]>> \in move

\* A listing sorted by name has the meta ref of a change after its patch sets.
ASSUME PositionAssumption ==
  \A n \in CL, k \in PatchSet : Position[<<n, k>>] < Position[<<n, 0>>]

VARIABLES
  upstream,  \* upstream[n]: what ref n points to on the server
  scratch,   \* the commits in the project's git directory
  mem,       \* the leader's corpus, see Corpus
  stored,    \* the corpus that the log gives, its end not yet reached
  pc,        \* where the goroutine is in syncOnce
  listed,    \* listed[n]: what ls-remote says of a ref that moved and whose batch
             \* has not been logged, or None
  pending,   \* the mutation that addMutation processed but has not logged
  faults, crashes

vars == <<upstream, scratch, mem, stored, pc, listed, pending, faults, crashes>>

Change ==
  [meta : Hash,                        \* Meta, the head of the meta ref
   metas : SUBSET Commit,              \* Metas, in the order of their history
   status : Status \union {NoStatus},  \* Status
   private : BOOLEAN,                  \* Private
   labels : Nat,                       \* its share of gp.numLabelChanges
   commit : Hash,                      \* Commit
   version : PatchSet \union {0}]      \* and Version, the latest patch set

Corpus ==
  [known : SUBSET Commit,              \* c.gitCommit, placeholders included
   indexed : SUBSET Commit,            \* gp.commit
   need : SUBSET Commit,               \* gp.need
   ref : [Branch -> Hash],             \* gp.ref
   remote : [ChangeRef -> Hash],       \* gp.remote
   cl : [CL -> Change],                \* gp.cls
   dirty : SUBSET CL,                  \* gp.dirtyCL
   referencing : SUBSET (Issue \X CL)] \* clsReferencingGithubIssue

NoChange ==
  [meta |-> None, metas |-> {}, status |-> NoStatus, private |-> FALSE, labels |-> 0,
   commit |-> None, version |-> 0]

EmptyCorpus ==
  [known |-> {}, indexed |-> {}, need |-> {},
   ref |-> [b \in Branch |-> None], remote |-> [r \in ChangeRef |-> None],
   cl |-> [n \in CL |-> NoChange], dirty |-> {}, referencing |-> {}]

\* A mutation carries a commit, deleted refs or refs and their values.
NoRefs == [n \in Name |-> None]
Mutation == [commit : Hash, deleted : SUBSET Branch, refs : [Name -> Hash]]

ASSUME NoneAssumption == None \notin Mutation

CommitMutation(c)    == [commit |-> c, deleted |-> {}, refs |-> NoRefs]
DeletionMutation(bs) == [commit |-> None, deleted |-> bs, refs |-> NoRefs]
RefsMutation(refs)   == [commit |-> None, deleted |-> {}, refs |-> refs]

-----------------------------------------------------------------------------
\* Mutant: the parents are not marked as needed.
ForgetParents(corp, c) ==
  IF c = None THEN corp
  ELSE [corp EXCEPT !.known = @ \union Parents[c] \union {c},
                    !.indexed = @ \union {c}, !.need = @ \ {c}]

\* The parents become known; a commit that does not parse stays needed, and the
\* mutation does nothing else.
ProcessCommit(corp, c) ==
  IF c = None THEN corp
  ELSE IF c \in Unparseable THEN [corp EXCEPT !.known = @ \union Parents[c]]
  ELSE [corp EXCEPT !.known = @ \union Parents[c] \union {c},
                    !.indexed = @ \union {c},
                    !.need = (@ \ {c}) \union (Parents[c] \ (corp.indexed \union {c}))]

ProcessDeletions(corp, deleted) ==
  [corp EXCEPT !.ref = [b \in Branch |-> IF b \in deleted THEN None ELSE @[b]]]

\* The refs of a mutation that are not ignored: those to a known hash.
Effective(corp, refs) == {n \in Name : refs[n] \in corp.known}

\* The patch sets of change n among them, and the one that is processed last.
PatchSetsIn(names, n) == {r \in names \intersect ChangeRef : r[1] = n /\ r[2] # 0}
LastOf(names) == CHOOSE r \in names : \A s \in names : Position[s] <= Position[r]

\* What the refs of a mutation do to change n.
UpdateChange(corp, refs, n) ==
  LET names == Effective(corp, refs)
      sets == PatchSetsIn(names, n)
      last == LastOf(sets)
      cl == corp.cl[n] IN
  [cl EXCEPT !.meta = IF <<n, 0>> \in names THEN refs[<<n, 0>>] ELSE @,
             !.commit = IF sets # {} THEN refs[last] ELSE @,
             !.version = IF sets # {} THEN last[2] ELSE @]

\* Every patch set adds its change to the issues it refers to; none takes it away.
References(names, refs) ==
  UNION {Issues[refs[r]] \X {r[1]} : r \in {r \in names \intersect ChangeRef : r[2] # 0}}

ProcessRefs(corp, refs) ==
  LET names == Effective(corp, refs) IN
  [corp EXCEPT
     !.ref = [b \in Branch |-> IF b \in names THEN refs[b] ELSE @[b]],
     !.remote = [r \in ChangeRef |-> IF r \in names THEN refs[r] ELSE @[r]],
     !.cl = [n \in CL |-> UpdateChange(corp, refs, n)],
     !.dirty = @ \union {n \in CL : <<n, 0>> \in names},
     !.referencing = @ \union References(names, refs)]

\* processMutation.
Process(corp, m) ==
  ProcessRefs(ProcessDeletions(ProcessCommit(corp, m.commit), m.deleted), m.refs)

\* foreachCommit: the walk from c to the root of its history; it takes a
\* placeholder, which has no parents, for the root.
Walked(corp, c) ==
  {d \in Ancestors[c] : \A e \in Ancestors[c] : d \in Ancestors[e] \ {e} => e \in corp.indexed}

\* The status that the newest of the commits that set one sets.
NewestStatus(metas) ==
  LET setting == {c \in metas : StatusOf[c] # NoStatus}
      newest == {c \in setting : setting \subseteq Ancestors[c]} IN
  IF newest = {} THEN NoStatus ELSE StatusOf[CHOOSE c \in newest : TRUE]

\* Mutant: a status that was found is kept.
KeepStatus(corp, n) ==
  LET walked == Walked(corp, corp.cl[n].meta)
      found == NewestStatus(walked) IN
  [corp.cl[n] EXCEPT
     !.metas = walked,
     !.status = IF @ # NoStatus THEN @ ELSE IF found = NoStatus THEN "new" ELSE found,
     !.private = @ \/ walked \intersect Private # {},
     !.labels = @ + Cardinality(walked \intersect Labelled)]

\* finishProcessingCL.
FinishChange(corp, n) ==
  LET walked == Walked(corp, corp.cl[n].meta)
      found == NewestStatus(walked) IN
  [corp.cl[n] EXCEPT
     !.metas = walked,
     !.status = IF found # NoStatus THEN found ELSE IF @ = NoStatus THEN "new" ELSE @,
     !.private = @ \/ walked \intersect Private # {},
     !.labels = @ + Cardinality(walked \intersect Labelled)]

\* Mutant: the changes of an earlier mutation are not looked at again.
FinishNew(corp) ==
  [corp EXCEPT
     !.cl = [n \in CL |-> IF n \in corp.dirty /\ corp.cl[n].metas = {}
                          THEN FinishChange(corp, n) ELSE corp.cl[n]],
     !.dirty = {}]

\* finishProcessing.
Finish(corp) ==
  [corp EXCEPT
     !.cl = [n \in CL |-> IF n \in corp.dirty THEN FinishChange(corp, n) ELSE corp.cl[n]],
     !.dirty = {}]

\* complete: whether readers are shown a change.
Complete(cl) == cl.meta # None /\ cl.metas # {} /\ cl.commit # None

-----------------------------------------------------------------------------
Init ==
  /\ upstream = NoRefs
  /\ scratch = {}
  /\ mem = EmptyCorpus /\ stored = EmptyCorpus
  /\ pc = "poll"
  /\ listed = NoRefs
  /\ pending = None
  /\ faults = 0 /\ crashes = 0

\* The goroutine is at that place of syncOnce, and not inside addMutation.
At(place) == pc = place /\ pending = None

\* The first half of addMutation.
AddMutation(m) ==
  /\ mem' = Finish(Process(mem, m))
  /\ pending' = m

\* The second half, after the unlock: it goes to the log.
Log ==
  /\ pending # None
  /\ stored' = Process(stored, pending)
  /\ pending' = None
  /\ UNCHANGED <<upstream, scratch, mem, pc, listed, faults, crashes>>

\* The server gives what its refs lead to; git fetch asks for no more than
\* the directory lacks.
Served == UNION {Ancestors[upstream[n]] : n \in {k \in Name : upstream[k] # None}}
Fetchable == scratch \union Served
Fetch(hashes) == scratch' = scratch \union UNION {Ancestors[c] : c \in hashes}

\* syncMissingCommits: the commits an earlier run of the loop, or one of an
\* earlier process, has left.
SyncMissing ==
  /\ At("poll") /\ mem.need # {}
  /\ mem.need \subseteq Fetchable
  /\ Fetch(mem.need)
  /\ pc' = "missing"
  /\ UNCHANGED <<upstream, mem, stored, listed, pending, faults, crashes>>

NothingMissing ==
  /\ At("poll") \/ At("missing")
  /\ mem.need = {}
  /\ pc' = "fetch"
  /\ UNCHANGED <<upstream, scratch, mem, stored, listed, pending, faults, crashes>>

\* git fetch origin brings the branches.
FetchOrigin ==
  /\ At("fetch")
  /\ Fetch({upstream[b] : b \in {k \in Branch : upstream[k] # None}})
  /\ pc' = "list"
  /\ UNCHANGED <<upstream, mem, stored, listed, pending, faults, crashes>>

\* What the corpus has for a ref.
Current(corp, n) == IF n \in Branch THEN corp.ref[n] ELSE corp.remote[n]

\* Mutant: every ref is listed.
ListAllRefs ==
  /\ At("list")
  /\ listed' = [n \in Name |-> IF upstream[n] = Current(mem, n) THEN None ELSE upstream[n]]
  /\ UNCHANGED <<mem, pending>>
  /\ pc' = "batch"
  /\ UNCHANGED <<upstream, scratch, stored, faults, crashes>>

\* git ls-remote, compared with the corpus.  Refs that are gone are logged, if
\* they are not of a change.
ListRefs ==
  /\ At("list")
  /\ listed' = [n \in Name |->
       IF n \in Untracked \/ upstream[n] = Current(mem, n) THEN None ELSE upstream[n]]
  /\ LET deleted == {b \in Branch : mem.ref[b] # None /\ upstream[b] = None} IN
     IF deleted # {} THEN AddMutation(DeletionMutation(deleted))
     ELSE UNCHANGED <<mem, pending>>
  /\ pc' = "batch"
  /\ UNCHANGED <<upstream, scratch, stored, faults, crashes>>

\* The first BatchSize of the refs that are left.
Left == {n \in Name : listed[n] # None}

\* Mutant: the last ones.
LastOnes == {n \in Left : Cardinality({k \in Left : Position[k] > Position[n]}) < BatchSize}
Batch == {n \in Left : Cardinality({k \in Left : Position[k] < Position[n]}) < BatchSize}
Wanted == {listed[n] : n \in Batch}

\* fetchHashes of a batch, whose hashes become needed.
FetchBatch ==
  /\ At("batch") /\ Left # {}
  /\ Wanted \subseteq Fetchable
  /\ Fetch(Wanted)
  /\ mem' = [mem EXCEPT !.need = @ \union (Wanted \ mem.indexed)]
  /\ pc' = "walk"
  /\ UNCHANGED <<upstream, stored, listed, pending, faults, crashes>>

\* One round of syncCommits: any needed commit is read and logged.
SyncCommit ==
  /\ At("missing") \/ At("walk")
  /\ \E c \in mem.need \intersect scratch : AddMutation(CommitMutation(c))
  /\ UNCHANGED <<upstream, scratch, stored, pc, listed, faults, crashes>>

\* Mutant: the refs are logged while commits are still needed.
LogRefsEarly ==
  /\ At("walk")
  /\ Wanted \subseteq mem.indexed
  /\ AddMutation(RefsMutation([n \in Name |-> IF n \in Batch THEN listed[n] ELSE None]))
  /\ listed' = [n \in Name |-> IF n \in Batch THEN None ELSE listed[n]]
  /\ pc' = "batch"
  /\ UNCHANGED <<upstream, scratch, stored, faults, crashes>>

\* When none is left, the refs of the batch are logged.
LogRefs ==
  /\ At("walk")
  /\ mem.need = {}
  /\ AddMutation(RefsMutation([n \in Name |-> IF n \in Batch THEN listed[n] ELSE None]))
  /\ listed' = [n \in Name |-> IF n \in Batch THEN None ELSE listed[n]]
  /\ pc' = "batch"
  /\ UNCHANGED <<upstream, scratch, stored, faults, crashes>>

\* syncOnce returns; what is needed stays needed.
Returns ==
  /\ pc' = "poll"
  /\ listed' = NoRefs
  /\ UNCHANGED <<upstream, scratch, mem, stored, pending, crashes>>

CycleEnds == At("batch") /\ Left = {} /\ Returns /\ UNCHANGED faults

\* Mutant: the same batch is fetched again.
FetchRetried ==
  /\ At("batch")
  /\ ~ (Wanted \subseteq Fetchable)
  /\ UNCHANGED vars

\* The server has lost a hash since it listed it: a branch was moved by force.
FetchFails ==
  /\ At("batch")
  /\ ~ (Wanted \subseteq Fetchable)
  /\ Returns /\ UNCHANGED faults

\* A git command fails for a reason of its own.
Fails ==
  /\ \/ At("fetch") \/ At("list")
     \/ At("poll") /\ mem.need # {}
     \/ At("batch") /\ Left # {}
     \/ (At("missing") \/ At("walk")) /\ mem.need # {}
  /\ faults < MaxFaults
  /\ faults' = faults + 1
  /\ Returns

\* The refs of the server move; those of one move together.
Push ==
  /\ \E move \in Moves :
       /\ \A update \in move : upstream[update[1]] = update[2]
       /\ upstream' = [n \in Name |->
            IF \E update \in move : update[1] = n
            THEN (CHOOSE update \in move : update[1] = n)[3] ELSE upstream[n]]
  /\ UNCHANGED <<scratch, mem, stored, pc, listed, pending, faults, crashes>>

\* The leader's process ends; the next one replays the log to its end.
Crash ==
  /\ crashes < MaxCrashes
  /\ crashes' = crashes + 1
  /\ mem' = Finish(stored)
  /\ pc' = "poll"
  /\ listed' = NoRefs
  /\ pending' = None
  /\ UNCHANGED <<upstream, scratch, stored, faults>>

\* What the goroutine does next, if no command fails.
Poller ==
  \/ SyncMissing \/ NothingMissing \/ FetchOrigin \/ ListRefs
  \/ FetchBatch \/ FetchFails \/ SyncCommit \/ LogRefs \/ CycleEnds
  \/ Log

Next == Poller \/ Fails \/ Push \/ Crash

Spec == Init /\ [][Next]_vars

\* After an error the goroutine sleeps 30 seconds and starts over; between two
\* syncs it waits for a wake-up or five minutes.
FairSpec == Spec /\ WF_vars(Poller)

-----------------------------------------------------------------------------
\* Every variable has its type.
TypeOK ==
  /\ upstream \in [Name -> Hash]
  /\ scratch \in SUBSET Commit
  /\ mem \in Corpus /\ stored \in Corpus
  /\ pc \in {"poll", "missing", "fetch", "list", "batch", "walk"}
  /\ listed \in [Name -> Hash] /\ \A b \in Untracked : listed[b] = None
  /\ pending \in Mutation \union {None}
  /\ faults \in Nat /\ crashes \in Nat

\* A corpus loses track of no parent, and can get all it still needs.
KeepsTrack(corp) ==
  /\ corp.need \intersect corp.indexed = {}
  /\ \A c \in corp.indexed : Parents[c] \subseteq corp.indexed \union corp.need
  /\ corp.need \subseteq scratch

\* What check asks of a project (gerrit.go:1329-1347), while commits are
\* missing too: every parent of an indexed commit is indexed or needed, in the
\* leader and in what a restart after any step makes of the log; and what is
\* needed is in the git directory, where syncCommits will read it.
MissingIsNeeded == KeepsTrack(mem) /\ KeepsTrack(stored)

RefsAreWhole(corp) ==
  \A n \in Name :
    Current(corp, n) # None => Ancestors[Current(corp, n)] \subseteq corp.indexed

\* No ref is there, in the leader or in the log, before every commit of its
\* history is (gerrit.go:994-997, 1145-1174), over batches, errors and crashes.
RefsFollowCommits == RefsAreWhole(mem) /\ RefsAreWhole(stored)

\* The change that the refs of a corpus stand for, but for its patch set.
FollowsMeta(corp, n) ==
  LET cl == corp.cl[n]
      history == IF cl.meta = None THEN {} ELSE Ancestors[cl.meta]
      status == NewestStatus(history) IN
  /\ cl.meta = corp.remote[<<n, 0>>]
  /\ cl.metas = history
  /\ cl.status = IF history = {} THEN NoStatus ELSE IF status = NoStatus THEN "new" ELSE status
  /\ cl.private = (history \intersect Private # {})
  /\ cl.labels >= Cardinality(history \intersect Labelled)

\* What the leader shows of a change is that of the whole history of its meta
\* ref, at any time, however the commits came (gerrit.go:838-908); the votes are
\* not undercounted (gerrit.go:124-128), and whoever looks for the changes of an
\* issue finds those whose patch set refers to it (gerrit.go:516-541).
ChangesFollowMeta ==
  \A n \in CL :
    /\ FollowsMeta(mem, n)
    /\ mem.cl[n].commit # None =>
         /\ mem.cl[n].commit = mem.remote[<<n, mem.cl[n].version>>]
         /\ Issues[mem.cl[n].commit] \X {n} \subseteq mem.referencing

\* LabelVotes finds the commit of every patch set that the meta history
\* announces (gerrit.go:1495-1505): meta refs are listed, and so logged, after
\* the patch sets, though a batch may end between them.
UploadsAreIndexed ==
  \A n \in CL : \A c \in mem.cl[n].metas : Uploads[c] # None => Uploads[c] \in mem.indexed

\* When no mutation is on its way to the log, a restart would make the same
\* corpus of it, the counts of votes and what is needed excepted, though it
\* looks at a change once where the leader looked at it after each mutation
\* (maintner.go:527-545, gerrit.go:838-845).
ReplayMatches ==
  pending = None =>
    LET again == Finish(stored) IN
    /\ again.known = mem.known /\ again.indexed = mem.indexed
    /\ again.ref = mem.ref /\ again.remote = mem.remote
    /\ again.referencing = mem.referencing
    /\ \A n \in CL : [again.cl[n] EXCEPT !.labels = 0] = [mem.cl[n] EXCEPT !.labels = 0]

\* Nothing that does not parse is in the way.
Parseable ==
  /\ mem.need \intersect Unparseable = {}
  /\ \A n \in Name \ Untracked : upstream[n] # None =>
       Ancestors[upstream[n]] \intersect Unparseable = {}

UpToDate ==
  /\ \A b \in Branch \ Untracked : stored.ref[b] = upstream[b]
  /\ \A r \in ChangeRef : upstream[r] # None => stored.remote[r] = upstream[r]

\* Once the pushes stop, the log has the refs of the server and no branch that
\* is gone, whatever failed, moved or crashed before, unless a commit that does
\* not parse is met: it stays needed, and its mutation is logged for ever
\* (gerrit.go:752-757, 1179-1204).
CatchesUp == <>[][FALSE]_upstream => <>[](Parseable => UpToDate)
=============================================================================
