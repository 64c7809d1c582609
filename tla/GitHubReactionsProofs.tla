------------------------ MODULE GitHubReactionsProofs ------------------------
(***************************************************************************)
(* Proofs about GitHubReactions, for any issues, comments, edits, failures *)
(* and crashes: types, with the scan's position within its list; that a    *)
(* reaction is never shown but where it was made; and what the read lock   *)
(* is for.                                                                 *)
(*                                                                         *)
(* Two processes may sync one issue at a time, and neither knows what the  *)
(* other is about to add.  The leader may end with reactions that were     *)
(* withdrawn, or without some that are there.  What they cannot do is mix  *)
(* up places: wherever a reaction is held, on GitHub, in a corpus, in an   *)
(* answer or in a mutation, it is with the issue and comment that it was   *)
(* made for, and only React makes one, with an ID that nobody holds.       *)
(***************************************************************************)
EXTENDS GitHubReactions, SequenceTheorems, FiniteSetTheorems, WellFoundedInduction, TLAPS

IssueMutation ==
  [num : Issue, gone : BOOLEAN, comments : SUBSET Comment, add : Reactions,
   remove : Reactions, asOf : BOOLEAN]
Job ==
  [num : Issue \union {0}, listed : SUBSET Reaction, todo : SUBSET Comment,
   locked : BOOLEAN, add : Reactions, remove : Reactions]

\* Before the corpus is locked nothing was compared, and without an issue it is not locked.
JobRight(j) ==
  /\ j \in Job
  /\ j.locked => j.num # 0
  /\ ~ j.locked => j.todo = {} /\ j.add = NoReactions /\ j.remove = NoReactions

\* The position is in the list as long as the scan goes on.
SomeCounts == UNION {[W -> Nat] : W \in SUBSET Place}
CountsOf == UNION {[S -> SomeCounts] : S \in SUBSET Issue}
ScanVariables ==
  [on : BOOLEAN, list : Seq(Issue), pos : Nat, counts : CountsOf,
   phase : {"start", "check", "compare", "sync"}]
ScanRight ==
  /\ scan \in ScanVariables
  /\ scan.on => scan.pos < Len(scan.list)

World ==
  /\ up \in [Issue -> UpIssue]
  /\ next \in Nat /\ edits \in 0 .. MaxEdits /\ faults \in 0 .. MaxFaults

Leader ==
  /\ mem \in [Issue -> Known] /\ disk \in [Issue -> Known]
  /\ pend \in [Process -> {None} \union IssueMutation]
  /\ queue \in [Process -> SUBSET Issue]
  /\ job \in [Process -> Job] /\ \A p \in Process : JobRight(job[p])

Types == World /\ Leader /\ ScanRight

\* Reaction r is held for place w of issue i: on GitHub, in the corpus or in one replayed,
\* in what a process has listed and found new, or in a mutation on its way to the log.
InCorpus(c, i, w, r) == r \in c[i].reactions[w]
InJob(j, i, w, r) == j.num = i /\ (r \in j.add[w] \/ (w = Body /\ r \in j.listed))
InPend(m, i, w, r) == m # None /\ m.num = i /\ r \in m.add[w]
Held(i, w, r) ==
  \/ InCorpus(up, i, w, r) \/ InCorpus(mem, i, w, r) \/ InCorpus(disk, i, w, r)
  \/ \E p \in Process : InJob(job[p], i, w, r) \/ InPend(pend[p], i, w, r)

\* It is held for one place only, and was made.
OneHome ==
  /\ \A i, j \in Issue, v, w \in Place, r \in Reaction :
       Held(i, v, r) /\ Held(j, w, r) => i = j /\ v = w
  /\ \A i \in Issue, w \in Place, r \in Reaction : Held(i, w, r) => r < next

\* No corpus, the leader's or one replayed, shows a reaction that was never made, or one
\* that GitHub, or the other corpus, has at another issue or comment.
ShownWhereMade ==
  \A c \in {mem, disk}, i, j \in Issue, v, w \in Place :
    /\ c[i].reactions[v] \subseteq 1 .. next - 1
    /\ <<i, v>> # <<j, w>> =>
         /\ c[i].reactions[v] \intersect up[j].reactions[w] = {}
         /\ c[i].reactions[v] \intersect mem[j].reactions[w] = {}
         /\ c[i].reactions[v] \intersect disk[j].reactions[w] = {}

\* As long as a process lists the reactions to the comments of an issue, what it found to
\* add is not in the corpus, and what it found to remove is.
FoundStillDiffers ==
  \A p \in Process : job[p].todo # {} =>
    \A w \in Place :
      /\ job[p].add[w] \intersect mem[job[p].num].reactions[w] = {}
      /\ job[p].remove[w] \subseteq mem[job[p].num].reactions[w]

-----------------------------------------------------------------------------
\* A set of naturals that is not empty has a least element.
LEMMA LeastIsThere ==
  ASSUME NEW T \in SUBSET Nat, T # {}
  PROVE  \E m \in T : \A n \in T : m <= n
  <1>1. PICK m \in T : \A n \in T : ~ (<<n, m>> \in OpToRel(<, Nat))
    BY NatLessThanWellFounded, WFMin
  <1>2. \A n \in T : m <= n
    <2> SUFFICES ASSUME NEW n \in T, ~ (m <= n) PROVE FALSE
      OBVIOUS
    <2>1. m \in Nat /\ n \in Nat /\ n < m
      OBVIOUS
    <2>2. <<n, m>> \in OpToRel(<, Nat)
      BY <2>1 DEF OpToRel
    <2> QED BY <1>1, <2>2
  <1> QED BY <1>2

\* Of a finite set of naturals every place in its order is taken.
LEMMA RankIsTaken ==
  ASSUME NEW S \in SUBSET Nat, IsFiniteSet(S), NEW k \in 1 .. Cardinality(S)
  PROVE  \E i \in S : Cardinality({j \in S : j < i}) = k - 1
  <1> DEFINE Low(i) == {j \in S : j < i}
             Bad == {n \in 1 .. Cardinality(S) : \A i \in S : Cardinality(Low(i)) # n - 1}
  <1>1. Cardinality(S) \in Nat
    BY FS_CardinalityType
  <1>2. SUFFICES ASSUME Bad # {} PROVE FALSE
    OBVIOUS
  <1>3. PICK n \in Bad : \A m \in Bad : n <= m
    <2>1. Bad \in SUBSET Nat
      BY <1>1
    <2> HIDE DEF Bad
    <2> QED BY <1>2, <2>1, LeastIsThere
  <1>4. n \in 1 .. Cardinality(S) /\ \A i \in S : Cardinality(Low(i)) # n - 1
    BY <1>3
  <1>5. CASE n = 1
    <2>1. S # {}
      BY <1>1, <1>4, <1>5, FS_EmptySet
    <2>2. PICK i \in S : \A j \in S : i <= j
      BY <2>1, LeastIsThere
    <2>3. Low(i) = {}
      <3>1. \A j \in S : j \in Nat /\ i \in Nat /\ i <= j
        BY <2>2
      <3>2. \A j \in S : ~ (j < i)
        BY <3>1
      <3> QED BY <3>2
    <2>4. Cardinality(Low(i)) = 0
      BY <2>3, FS_EmptySet
    <2> QED BY <1>4, <1>5, <2>4
  <1>6. CASE n # 1
    <2>1. n - 1 \in 1 .. Cardinality(S) /\ ~ (n <= n - 1)
      BY <1>1, <1>4, <1>6
    <2>2. n - 1 \notin Bad
      BY <1>3, <2>1
    <2>3. PICK i \in S : Cardinality(Low(i)) = (n - 1) - 1
      BY <2>1, <2>2
    <2> DEFINE upto == Low(i) \union {i}
    <2>4. IsFiniteSet(Low(i))
      BY FS_Subset
    <2>5. IsFiniteSet(upto) /\ Cardinality(upto) = n - 1
      <3>1. i \notin Low(i)
        OBVIOUS
      <3>2. IsFiniteSet(upto) /\ Cardinality(upto) = Cardinality(Low(i)) + 1
        BY <2>4, <3>1, FS_AddElement
      <3> QED BY <1>1, <1>4, <2>3, <3>2
    <2>6. S \ upto # {}
      <3>1. upto # S
        BY <1>1, <1>4, <2>5
      <3> QED BY <3>1
    <2>7. PICK j \in S \ upto : \A m \in S \ upto : j <= m
      <3>1. S \ upto \in SUBSET Nat
        OBVIOUS
      <3> HIDE DEF upto
      <3> QED BY <2>6, <3>1, LeastIsThere
    <2>8. Low(j) = upto
      <3>1. i \in Nat /\ j \in Nat /\ i < j
        BY <2>7
      <3>2. ASSUME NEW x \in Low(j) PROVE x \in upto
        BY <2>7, <3>1, <3>2
      <3>3. ASSUME NEW x \in upto PROVE x \in Low(j)
        BY <3>1, <3>3
      <3> QED BY <3>2, <3>3
    <2>9. Cardinality(Low(j)) = n - 1
      BY <2>5, <2>8
    <2> QED BY <1>4, <2>7, <2>9
  <1> QED BY <1>5, <1>6

\* The list has the issues that the corpus knows and that are not gone.
LEMMA ScanListIs == ScanList \in Seq(Issue)
  <1>1. Exist \in SUBSET Nat /\ Exist \subseteq Issue /\ IsFiniteSet(Exist)
    BY ReactionsAssumption, FS_Subset DEF Exist
  <1>2. Cardinality(Exist) \in Nat
    BY <1>1, FS_CardinalityType
  <1>3. ASSUME NEW k \in 1 .. Cardinality(Exist)
        PROVE  (CHOOSE i \in Exist : Cardinality(Before(i)) = k - 1) \in Issue
    <2>1. \E i \in Exist : Cardinality({j \in Exist : j < i}) = k - 1
      BY <1>1, RankIsTaken
    <2>2. \E i \in Exist : Cardinality(Before(i)) = k - 1
      BY <2>1 DEF Before
    <2> QED BY <1>1, <2>2
  <1>4. ScanList \in [1 .. Cardinality(Exist) -> Issue]
    BY <1>3 DEF ScanList
  <1> QED BY <1>2, <1>4, SeqDef

LEMMA NumIsQueued ==
  ASSUME Leader, NEW p \in Process, queue[p] # {}
  PROVE  Num(p) \in queue[p] /\ Num(p) \in Issue
  <1>1. queue[p] \in SUBSET Nat /\ queue[p] \subseteq Issue
    BY ReactionsAssumption DEF Leader
  <1>2. \E i \in queue[p] : \A j \in queue[p] : i <= j
    BY <1>1, LeastIsThere
  <1> QED BY <1>1, <1>2 DEF Num

LEMMA NothingIsTyped == NoReactions \in Reactions /\ NoJob \in Job /\ JobRight(NoJob)
  BY DEF NoReactions, Reactions, NoJob, Job, JobRight

\* What processing a mutation leaves of any corpus.
LEMMA ProcessedIs ==
  ASSUME NEW c \in [Issue -> Known], NEW m \in IssueMutation
  PROVE  /\ Processed(c, m) \in [Issue -> Known]
         /\ \A i \in Issue, w \in Place : \A r :
              r \in Processed(c, m)[i].reactions[w]
                => r \in c[i].reactions[w] \/ (m.num = i /\ r \in m.add[w])
  <1> DEFINE d == Processed(c, m)
  <1>1. m.num \in Issue /\ c[m.num] \in Known /\ m.gone \in BOOLEAN /\ m.comments \subseteq Comment
        /\ m.add \in Reactions /\ m.remove \in Reactions /\ m.asOf \in BOOLEAN
    BY DEF IssueMutation
  <1>2. CASE m.gone
    <2>1. d = [c EXCEPT ![m.num] = [c[m.num] EXCEPT !.known = TRUE, !.gone = TRUE]]
      BY <1>2 DEF Processed
    <2>2. [c[m.num] EXCEPT !.known = TRUE, !.gone = TRUE] \in Known
          /\ [c[m.num] EXCEPT !.known = TRUE, !.gone = TRUE].reactions = c[m.num].reactions
      BY <1>1 DEF Known
    <2> QED BY <1>1, <2>1, <2>2
  <1>3. CASE ~ m.gone
    <2>1. d = [c EXCEPT ![m.num] = Updated(c[m.num], m)]
      BY <1>3 DEF Processed
    <2>2. Updated(c[m.num], m).reactions \in Reactions
          /\ \A w \in Place : Updated(c[m.num], m).reactions[w]
                              = (c[m.num].reactions[w] \union m.add[w]) \ m.remove[w]
      BY <1>1 DEF Updated, Reactions, Known
    <2>3. Updated(c[m.num], m) \in Known
      BY <1>1, <2>2 DEF Updated, Known, Age
    <2> QED BY <1>1, <2>1, <2>2, <2>3
  <1> QED BY <1>2, <1>3

\* A pending mutation is one.
LEMMA PendIs ==
  ASSUME Leader, NEW p \in Process, pend[p] # None
  PROVE  pend[p] \in IssueMutation
  BY DEF Leader

LEMMA AddMutationKeeps ==
  ASSUME Leader, NEW p \in Process, NEW m \in IssueMutation, AddMutation(p, m)
  PROVE  mem' \in [Issue -> Known] /\ pend' \in [Process -> {None} \union IssueMutation]
  BY ProcessedIs DEF Leader, AddMutation

-----------------------------------------------------------------------------
\* What a step of the leader leaves, but for the scan's own variables: types, no
\* reaction held where it was not, and what was found while reading still to be done.
HeldStays ==
  \A i \in Issue, w \in Place, r \in Reaction : Held(i, w, r)' => Held(i, w, r)
Keeps == Leader' /\ HeldStays /\ FoundStillDiffers'

\* A process goes on with another job.
LEMMA JobIs ==
  ASSUME Leader, NEW p \in Process, NEW j, JobRight(j), job' = [job EXCEPT ![p] = j]
  PROVE  /\ job' \in [Process -> Job] /\ \A q \in Process : JobRight(job'[q])
         /\ job'[p] = j /\ \A q \in Process \ {p} : job'[q] = job[q]
  BY DEF Leader, JobRight

\* It holds nothing that was not held, if the new job does not.
LEMMA JobHolds ==
  ASSUME Leader, NEW p \in Process, NEW j, JobRight(j), job' = [job EXCEPT ![p] = j],
         UNCHANGED <<up, mem, disk, pend>>,
         \A i \in Issue, w \in Place, r \in Reaction : InJob(j, i, w, r) => Held(i, w, r)
  PROVE  HeldStays
  <1> SUFFICES ASSUME NEW i \in Issue, NEW w \in Place, NEW r \in Reaction, Held(i, w, r)'
               PROVE  Held(i, w, r)
    BY DEF HeldStays
  <1>1. CASE \E q \in Process : InJob(job[q], i, w, r)'
    <2> PICK q \in Process : InJob(job'[q], i, w, r)
      BY <1>1 DEF InJob
    <2>1. CASE q = p
      BY <2>1, JobIs
    <2>2. CASE q # p
      BY <2>2, JobIs DEF Held
    <2> QED BY <2>1, <2>2
  <1>2. CASE ~ \E q \in Process : InJob(job[q], i, w, r)'
    BY <1>2 DEF Held, InCorpus, InPend
  <1> QED BY <1>1, <1>2

\* What it found still differs, if what the job found does.
Differs(j) ==
  j.todo # {} =>
    \A w \in Place : /\ j.add[w] \intersect mem[j.num].reactions[w] = {}
                     /\ j.remove[w] \subseteq mem[j.num].reactions[w]
LEMMA JobDiffers ==
  ASSUME Leader, FoundStillDiffers, NEW p \in Process, NEW j, JobRight(j), Differs(j),
         job' = [job EXCEPT ![p] = j], mem' = mem
  PROVE  FoundStillDiffers'
  <1> SUFFICES ASSUME NEW q \in Process, job'[q].todo # {}, NEW w \in Place
               PROVE  /\ job'[q].add[w] \intersect mem'[job'[q].num].reactions[w] = {}
                      /\ job'[q].remove[w] \subseteq mem'[job'[q].num].reactions[w]
    BY DEF FoundStillDiffers
  <1>1. CASE q = p
    BY <1>1, JobIs DEF Differs
  <1>2. CASE q # p
    BY <1>2, JobIs DEF FoundStillDiffers
  <1> QED BY <1>1, <1>2

\* A job that changes alone, or with the queue.
LEMMA JobKeeps ==
  ASSUME Leader, FoundStillDiffers, NEW p \in Process, NEW j, JobRight(j), Differs(j),
         job' = [job EXCEPT ![p] = j], UNCHANGED <<up, mem, disk, pend>>,
         queue' \in [Process -> SUBSET Issue],
         \A i \in Issue, w \in Place, r \in Reaction : InJob(j, i, w, r) => Held(i, w, r)
  PROVE  Keeps
  <1>1. Leader'
    BY JobIs DEF Leader
  <1> QED BY <1>1, JobHolds, JobDiffers DEF Keeps

\* No job.
LEMMA NoJobIsEmpty ==
  JobRight(NoJob) /\ Differs(NoJob) /\ \A i \in Issue, w \in Place : \A r : ~ InJob(NoJob, i, w, r)
  <1>1. \A i \in Issue : i # 0
    BY ReactionsAssumption
  <1>2. NoJob.todo = {} /\ NoJob.num = 0
    BY DEF NoJob
  <1> QED BY <1>1, <1>2, NothingIsTyped DEF InJob, Differs

\* The job of a process that begins with issue n, that locks the corpus, and that lists the
\* reactions of a comment.
NewJob(n, l) == [NoJob EXCEPT !.num = n, !.listed = l]
LockedJob(k, t, a, b) ==
  [k EXCEPT !.locked = TRUE, !.todo = t, !.listed = {}, !.add[Body] = a, !.remove[Body] = b]
ListingJob(k, c, a, b) == [k EXCEPT !.todo = k.todo \ {c}, !.add[c] = a, !.remove[c] = b]

LEMMA ListBodyKeeps ==
  ASSUME Types, FoundStillDiffers, NEW p \in Process, ListBody(p)
  PROVE  Keeps
  <1> DEFINE n == Num(p)
             l == up[n].reactions[Body]
             j == NewJob(n, l)
  <1>1. n \in Issue
    BY NumIsQueued DEF ListBody, Types
  <1>2. l \in SUBSET Reaction
    BY <1>1 DEF Types, World, UpIssue, Reactions, Place
  <1>3. /\ j \in Job /\ j.num = n /\ j.listed = l /\ j.todo = {} /\ j.locked = FALSE
        /\ j.add = NoReactions /\ j.remove = NoReactions
    <2> HIDE DEF n, l
    <2> QED BY <1>1, <1>2, NothingIsTyped DEF NoJob, Job, NewJob
  <1> HIDE DEF j
  <1>4. JobRight(j)
    BY <1>3 DEF JobRight
  <1>5. \A i \in Issue, w \in Place, r \in Reaction : InJob(j, i, w, r) => Held(i, w, r)
    BY <1>3 DEF InJob, NoReactions, Held, InCorpus
  <1>6. Differs(j)
    BY <1>3 DEF Differs
  <1>7. /\ job' = [job EXCEPT ![p] = j] /\ UNCHANGED <<up, mem, disk, pend>>
        /\ queue' = [queue EXCEPT ![p] = @ \ {n}]
    BY DEF ListBody, j, github, NewJob
  <1>8. queue' \in [Process -> SUBSET Issue]
    BY <1>7 DEF Types, Leader
  <1> HIDE DEF n
  <1> QED BY <1>4, <1>5, <1>6, <1>7, <1>8, JobKeeps DEF Types

LEMMA LockKeeps ==
  ASSUME Types, FoundStillDiffers, NEW p \in Process, Lock(p)
  PROVE  Keeps
  <1> DEFINE k == job[p]
             gi == mem[k.num]
             new == k.listed \ gi.reactions[Body]
             old == gi.reactions[Body] \ k.listed
             j == LockedJob(k, gi.comments, new, old)
  <1>1. /\ k \in Job /\ JobRight(k) /\ k.num # 0 /\ ~ k.locked
        /\ k.add = NoReactions /\ k.remove = NoReactions
    BY DEF Types, Leader, Lock, JobRight
  <1>2. k.num \in Issue /\ k.listed \subseteq Reaction
    BY <1>1 DEF Job
  <1>3. gi \in Known /\ gi.reactions[Body] \subseteq Reaction /\ gi.comments \subseteq Comment
    BY <1>2 DEF Types, Leader, Known, Reactions, Place
  <1>4. /\ job' = [job EXCEPT ![p] = j] /\ UNCHANGED <<up, mem, disk, pend, queue>>
    BY DEF Lock, github, LockedJob
  <1>5. Body \in Place /\ new \in SUBSET Reaction /\ old \in SUBSET Reaction
    BY <1>2, <1>3 DEF Place
  <1>6. /\ j \in Job /\ j.num = k.num /\ j.listed = {} /\ j.todo = gi.comments /\ j.locked = TRUE
        /\ j.add = [k.add EXCEPT ![Body] = new] /\ j.remove = [k.remove EXCEPT ![Body] = old]
    <2>1. gi.comments \in SUBSET Comment
      BY <1>3
    <2> HIDE DEF k, new, old, gi
    <2> QED BY <1>1, <1>5, <2>1 DEF Job, Reactions, LockedJob
  <1> HIDE DEF j
  <1>7. /\ j.add[Body] = new /\ j.remove[Body] = old
        /\ \A c \in Comment : c # Body /\ j.add[c] = {} /\ j.remove[c] = {}
    BY <1>1, <1>5, <1>6, ReactionsAssumption DEF NoReactions, Place, Body
  <1>8. JobRight(j)
    BY <1>1, <1>6 DEF JobRight
  <1>9. \A i \in Issue, w \in Place, r \in Reaction : InJob(j, i, w, r) => Held(i, w, r)
    <2> SUFFICES ASSUME NEW i \in Issue, NEW w \in Place, NEW r \in Reaction, InJob(j, i, w, r)
                 PROVE  Held(i, w, r)
      OBVIOUS
    <2>1. k.num = i /\ w = Body /\ r \in k.listed
      BY <1>6, <1>7 DEF InJob, Place
    <2> QED BY <2>1 DEF Held, InJob
  <1>10. Differs(j)
    <2> SUFFICES ASSUME NEW w \in Place
                 PROVE  /\ j.add[w] \intersect mem[j.num].reactions[w] = {}
                        /\ j.remove[w] \subseteq mem[j.num].reactions[w]
      BY DEF Differs
    <2> QED BY <1>6, <1>7 DEF Place
  <1>11. queue' \in [Process -> SUBSET Issue]
    BY <1>4 DEF Types, Leader
  <1> QED BY <1>4, <1>8, <1>9, <1>10, <1>11, JobKeeps DEF Types

LEMMA ListCommentKeeps ==
  ASSUME Types, FoundStillDiffers, NEW p \in Process, NEW c \in Comment, ListComment(p, c)
  PROVE  Keeps
  <1> DEFINE k == job[p]
             there == up[k.num].reactions[c]
             had == mem[k.num].reactions[c]
             new == there \ had
             old == had \ there
             j == ListingJob(k, c, new, old)
  <1>1. k \in Job /\ JobRight(k) /\ c \in k.todo /\ k.locked /\ k.num # 0
    BY DEF Types, Leader, ListComment, JobRight
  <1>2. /\ k.num \in Issue /\ k.listed \subseteq Reaction /\ k.todo \subseteq Comment
        /\ k.add \in Reactions /\ k.remove \in Reactions
    BY <1>1 DEF Job
  <1>3. new \in SUBSET Reaction /\ old \in SUBSET Reaction /\ c \in Place
    <2>1. up[k.num] \in UpIssue /\ mem[k.num] \in Known
      BY <1>2 DEF Types, World, Leader
    <2> QED BY <2>1 DEF UpIssue, Known, Reactions, Place
  <1>4. /\ job' = [job EXCEPT ![p] = j] /\ UNCHANGED <<up, mem, disk, pend, queue>>
    BY DEF ListComment, github, ListingJob
  <1>5. /\ j \in Job /\ j.num = k.num /\ j.listed = k.listed /\ j.todo = k.todo \ {c}
        /\ j.locked = k.locked
        /\ j.add = [k.add EXCEPT ![c] = new] /\ j.remove = [k.remove EXCEPT ![c] = old]
    <2> HIDE DEF k, new, old
    <2> QED BY <1>1, <1>2, <1>3 DEF Job, Reactions, ListingJob
  <1> HIDE DEF j
  <1>6. /\ j.add[c] = new /\ j.remove[c] = old
        /\ \A w \in Place \ {c} : j.add[w] = k.add[w] /\ j.remove[w] = k.remove[w]
    BY <1>2, <1>3, <1>5 DEF Reactions
  <1>8. JobRight(j)
    BY <1>1, <1>5 DEF JobRight
  <1>9. \A i \in Issue, w \in Place, r \in Reaction : InJob(j, i, w, r) => Held(i, w, r)
    <2> SUFFICES ASSUME NEW i \in Issue, NEW w \in Place, NEW r \in Reaction, InJob(j, i, w, r)
                 PROVE  Held(i, w, r)
      OBVIOUS
    <2>1. CASE w = c /\ r \in j.add[w]
      BY <1>5, <1>6, <2>1 DEF InJob, Held, InCorpus
    <2>2. CASE ~ (w = c /\ r \in j.add[w])
      <3>1. InJob(k, i, w, r)
        BY <1>5, <1>6, <2>2 DEF InJob
      <3> QED BY <3>1 DEF Held
    <2> QED BY <2>1, <2>2
  <1>10. Differs(j)
    <2> SUFFICES ASSUME NEW w \in Place
                 PROVE  /\ j.add[w] \intersect mem[j.num].reactions[w] = {}
                        /\ j.remove[w] \subseteq mem[j.num].reactions[w]
      BY DEF Differs
    <2>1. CASE w = c
      BY <1>5, <1>6, <2>1
    <2>2. CASE w # c
      BY <1>1, <1>5, <1>6, <2>2 DEF FoundStillDiffers
    <2> QED BY <2>1, <2>2
  <1>11. queue' \in [Process -> SUBSET Issue]
    BY <1>4 DEF Types, Leader
  <1> QED BY <1>4, <1>8, <1>9, <1>10, <1>11, JobKeeps DEF Types

LEMMA SyncFailsKeeps ==
  ASSUME Types, FoundStillDiffers, NEW p \in Process, SyncFails(p)
  PROVE  Keeps
  <1>1. job' = [job EXCEPT ![p] = NoJob] /\ UNCHANGED <<up, mem, disk, pend>>
    BY DEF SyncFails, github
  <1>2. queue' \in [Process -> SUBSET Issue]
    BY DEF SyncFails, Types, Leader
  <1> QED BY <1>1, <1>2, NoJobIsEmpty, JobKeeps DEF Types

-----------------------------------------------------------------------------
\* While nobody reads the corpus it may change: what is added was held.
LEMMA MutationKeeps ==
  ASSUME Leader, NEW p \in Process, NEW m \in IssueMutation, AddMutation(p, m),
         NEW j, JobRight(j), j.todo = {}, job' = [job EXCEPT ![p] = j],
         UNCHANGED <<up, disk, queue>>,
         \A i \in Issue, w \in Place, r \in Reaction : InJob(j, i, w, r) => Held(i, w, r),
         \A w \in Place, r \in Reaction : r \in m.add[w] => Held(m.num, w, r)
  PROVE  Keeps
  <1>1. /\ mem' = Processed(mem, m) /\ pend' = [pend EXCEPT ![p] = m]
        /\ \A q \in Process : job[q].todo = {}
    BY DEF AddMutation, Reading
  <1>2. Leader'
    BY AddMutationKeeps, JobIs DEF Leader
  <1>3. FoundStillDiffers'
    <2>1. \A q \in Process : job'[q].todo = {}
      BY <1>1, JobIs
    <2> QED BY <2>1 DEF FoundStillDiffers
  <1>4. HeldStays
    <2> SUFFICES ASSUME NEW i \in Issue, NEW w \in Place, NEW r \in Reaction, Held(i, w, r)'
                 PROVE  Held(i, w, r)
      BY DEF HeldStays
    <2>1. CASE InCorpus(mem, i, w, r)'
      <3>1. r \in Processed(mem, m)[i].reactions[w]
        BY <1>1, <2>1 DEF InCorpus
      <3>2. r \in mem[i].reactions[w] \/ (m.num = i /\ r \in m.add[w])
        BY <3>1, ProcessedIs DEF Leader
      <3> QED BY <3>2 DEF Held, InCorpus
    <2>2. CASE \E q \in Process : InJob(job[q], i, w, r)'
      <3> PICK q \in Process : InJob(job'[q], i, w, r)
        BY <2>2 DEF InJob
      <3>1. CASE q = p
        BY <3>1, JobIs
      <3>2. CASE q # p
        BY <3>2, JobIs DEF Held
      <3> QED BY <3>1, <3>2
    <2>3. CASE \E q \in Process : InPend(pend[q], i, w, r)'
      <3> PICK q \in Process : InPend(pend'[q], i, w, r)
        BY <2>3 DEF InPend
      <3>1. CASE q = p
        <4>1. pend'[q] = m
          BY <1>1, <3>1 DEF Leader
        <4> QED BY <4>1 DEF InPend
      <3>2. CASE q # p
        <4>1. pend'[q] = pend[q]
          BY <1>1, <3>2 DEF Leader
        <4> QED BY <4>1 DEF Held
      <3> QED BY <3>1, <3>2
    <2>4. CASE InCorpus(up, i, w, r)' \/ InCorpus(disk, i, w, r)'
      BY <2>4 DEF Held, InCorpus
    <2> QED BY <2>1, <2>2, <2>3, <2>4 DEF Held
  <1> QED BY <1>2, <1>3, <1>4 DEF Keeps

LEMMA AddReactionsKeeps ==
  ASSUME Types, FoundStillDiffers, NEW p \in Process, AddReactions(p)
  PROVE  Keeps
  <1> DEFINE k == job[p]
             m == [Mutation(k.num) EXCEPT !.add = k.add, !.remove = k.remove, !.asOf = TRUE]
  <1>1. k \in Job /\ JobRight(k) /\ k.locked /\ k.num # 0
    BY DEF Types, Leader, AddReactions, JobRight
  <1>2. k.num \in Issue /\ k.add \in Reactions /\ k.remove \in Reactions
    BY <1>1 DEF Job
  <1>3. job' = [job EXCEPT ![p] = NoJob] /\ UNCHANGED <<up, disk, queue>>
    BY DEF AddReactions, github
  <1>4. NoJob.todo = {}
    BY DEF NoJob
  <1>5. CASE AddMutation(p, m)
    <2>1. m \in IssueMutation /\ m.num = k.num /\ m.add = k.add
      BY <1>2, NothingIsTyped DEF Mutation, IssueMutation
    <2>2. \A w \in Place, r \in Reaction : r \in m.add[w] => Held(m.num, w, r)
      BY <2>1 DEF Held, InJob
    <2> HIDE DEF m
    <2> QED BY <1>3, <1>4, <1>5, <2>1, <2>2, NoJobIsEmpty, MutationKeeps DEF Types
  <1>6. CASE UNCHANGED <<mem, pend>>
    <2>1. queue' \in [Process -> SUBSET Issue]
      BY <1>3 DEF Types, Leader
    <2> QED BY <1>3, <1>6, <2>1, NoJobIsEmpty, JobKeeps DEF Types
  <1> QED BY <1>5, <1>6 DEF AddReactions

\* The cycle adds a mutation that brings no reaction.
LEMMA CycleMutationKeeps ==
  ASSUME Types, NEW m \in IssueMutation, AddMutation("cycle", m),
         \A w \in Place : m.add[w] = {}, UNCHANGED <<up, disk, queue, job>>
  PROVE  Keeps
  <1> DEFINE j == job["cycle"]
  <1>1. "cycle" \in Process
    BY DEF Process
  <1>2. JobRight(j) /\ job' = [job EXCEPT !["cycle"] = j]
    BY <1>1 DEF Types, Leader
  <1>3. j.todo = {}
    BY <1>1 DEF AddMutation, Reading
  <1>4. \A i \in Issue, w \in Place, r \in Reaction : InJob(j, i, w, r) => Held(i, w, r)
    BY <1>1 DEF Held
  <1>5. \A w \in Place, r \in Reaction : r \in m.add[w] => Held(m.num, w, r)
    OBVIOUS
  <1> HIDE DEF j
  <1> QED BY <1>1, <1>2, <1>3, <1>4, <1>5, MutationKeeps DEF Types

LEMMA LearnKeeps ==
  ASSUME Types, NEW i \in Issue, Learn(i) PROVE Keeps
  <1> DEFINE m == [Mutation(i) EXCEPT !.comments = up[i].comments]
  <1>1. AddMutation("cycle", m) /\ UNCHANGED <<up, disk, queue, job>>
    BY DEF Learn, github
  <1>2. up[i].comments \in SUBSET Comment
    BY DEF Types, World, UpIssue
  <1>3. m \in IssueMutation /\ \A w \in Place : m.add[w] = {}
    BY <1>2, NothingIsTyped DEF Mutation, IssueMutation, NoReactions
  <1> HIDE DEF m
  <1> QED BY <1>1, <1>3, CycleMutationKeeps

LEMMA FindGoneKeeps ==
  ASSUME Types, NEW i \in Issue, FindGone(i) PROVE Keeps
  <1> DEFINE m == [Mutation(i) EXCEPT !.gone = TRUE]
  <1>1. AddMutation("cycle", m) /\ UNCHANGED <<up, disk, queue, job>>
    BY DEF FindGone, github
  <1>2. m \in IssueMutation /\ \A w \in Place : m.add[w] = {}
    BY NothingIsTyped DEF Mutation, IssueMutation, NoReactions
  <1> HIDE DEF m
  <1> QED BY <1>1, <1>2, CycleMutationKeeps

LEMMA LogKeeps ==
  ASSUME Types, FoundStillDiffers, NEW p \in Process, Log(p) PROVE Keeps
  <1> DEFINE m == pend[p]
  <1>1. m \in IssueMutation /\ m # None
    BY PendIs DEF Log, Types
  <1>2. /\ disk' = Processed(disk, m) /\ pend' = [pend EXCEPT ![p] = None]
        /\ UNCHANGED <<up, mem, queue, job>>
    BY DEF Log, github
  <1>3. disk' \in [Issue -> Known]
    BY <1>1, <1>2, ProcessedIs DEF Types, Leader
  <1>4. Leader'
    BY <1>2, <1>3 DEF Types, Leader
  <1>5. FoundStillDiffers'
    BY <1>2 DEF FoundStillDiffers
  <1>6. HeldStays
    <2> SUFFICES ASSUME NEW i \in Issue, NEW w \in Place, NEW r \in Reaction, Held(i, w, r)'
                 PROVE  Held(i, w, r)
      BY DEF HeldStays
    <2>1. CASE InCorpus(disk, i, w, r)'
      <3>1. r \in Processed(disk, m)[i].reactions[w]
        BY <1>2, <2>1 DEF InCorpus
      <3>2. r \in disk[i].reactions[w] \/ (m.num = i /\ r \in m.add[w])
        BY <1>1, <3>1, ProcessedIs DEF Types, Leader
      <3> QED BY <1>1, <3>2 DEF Held, InCorpus, InPend
    <2>2. CASE \E q \in Process : InPend(pend[q], i, w, r)'
      <3> PICK q \in Process : InPend(pend'[q], i, w, r)
        BY <2>2 DEF InPend
      <3>1. pend'[q] # None
        BY DEF InPend
      <3>2. pend'[q] = pend[q]
        BY <1>2, <3>1 DEF Types, Leader
      <3> QED BY <3>2 DEF Held
    <2>3. CASE \E q \in Process : InJob(job[q], i, w, r)'
      BY <1>2, <2>3 DEF Held, InJob
    <2>4. CASE InCorpus(up, i, w, r)' \/ InCorpus(mem, i, w, r)'
      BY <1>2, <2>4 DEF Held, InCorpus
    <2> QED BY <2>1, <2>2, <2>3, <2>4 DEF Held
  <1> QED BY <1>4, <1>5, <1>6 DEF Keeps

\* A step that leaves all but the queues.
LEMMA QueueKeeps ==
  ASSUME Types, FoundStillDiffers, UNCHANGED <<up, mem, disk, pend, job>>,
         queue' \in [Process -> SUBSET Issue]
  PROVE  Keeps
  <1>1. Leader'
    BY DEF Types, Leader
  <1>2. FoundStillDiffers'
    BY DEF FoundStillDiffers
  <1>3. HeldStays
    BY DEF HeldStays, Held, InCorpus, InJob, InPend
  <1> QED BY <1>1, <1>2, <1>3 DEF Keeps

\* A day changes no reaction.
LEMMA DayKeeps ==
  ASSUME Types, FoundStillDiffers, Day PROVE Keeps
  <1> DEFINE Aged(c) == [i \in Issue |-> [c[i] EXCEPT !.asOf = IF @ = "recent" THEN "old" ELSE @]]
  <1>1. mem' = Aged(mem) /\ disk' = Aged(disk) /\ UNCHANGED <<up, pend, queue, job>>
    BY DEF Day, github
  <1>2. ASSUME NEW c \in [Issue -> Known]
        PROVE  Aged(c) \in [Issue -> Known] /\ \A i \in Issue : Aged(c)[i].reactions = c[i].reactions
    BY DEF Known, Age
  <1> HIDE DEF Aged
  <1>3. /\ mem' \in [Issue -> Known] /\ \A i \in Issue : mem'[i].reactions = mem[i].reactions
        /\ disk' \in [Issue -> Known] /\ \A i \in Issue : disk'[i].reactions = disk[i].reactions
    BY <1>1, <1>2 DEF Types, Leader
  <1>4. Leader'
    BY <1>1, <1>3 DEF Types, Leader
  <1>5. FoundStillDiffers'
    <2> SUFFICES ASSUME NEW p \in Process, job[p].todo # {}, NEW w \in Place
                 PROVE  /\ job[p].add[w] \intersect mem'[job[p].num].reactions[w] = {}
                        /\ job[p].remove[w] \subseteq mem'[job[p].num].reactions[w]
      BY <1>1 DEF FoundStillDiffers
    <2>1. job[p] \in Job /\ JobRight(job[p])
      BY DEF Types, Leader
    <2>2. job[p].num \in Issue
      BY <2>1 DEF JobRight, Job
    <2> QED BY <1>3, <2>2 DEF FoundStillDiffers
  <1>6. HeldStays
    BY <1>1, <1>3 DEF HeldStays, Held, InCorpus, InJob, InPend
  <1> QED BY <1>4, <1>5, <1>6 DEF Keeps

\* A restart leaves what a replay gives.
LEMMA CrashKeeps ==
  ASSUME Types, Crash PROVE Keeps
  <1>1. /\ mem' = disk /\ pend' = [p \in Process |-> None] /\ queue' = [p \in Process |-> {}]
        /\ job' = [p \in Process |-> NoJob] /\ UNCHANGED <<up, disk>>
    BY DEF Crash, github
  <1>2. Leader'
    BY <1>1, NothingIsTyped DEF Types, Leader
  <1>3. FoundStillDiffers'
    <2>1. NoJob.todo = {}
      BY DEF NoJob
    <2> QED BY <1>1, <2>1 DEF FoundStillDiffers
  <1>4. HeldStays
    <2> SUFFICES ASSUME NEW i \in Issue, NEW w \in Place, NEW r \in Reaction, Held(i, w, r)'
                 PROVE  Held(i, w, r)
      BY DEF HeldStays
    <2>1. ~ \E p \in Process : InJob(job[p], i, w, r)'
      BY <1>1, NoJobIsEmpty DEF InJob
    <2>2. ~ \E p \in Process : InPend(pend[p], i, w, r)'
      BY <1>1 DEF InPend
    <2> QED BY <1>1, <2>1, <2>2 DEF Held, InCorpus
  <1> QED BY <1>2, <1>3, <1>4 DEF Keeps

-----------------------------------------------------------------------------
\* The scan's variables stay right.  The position is that of an issue of the list.
LEMMA NextPosIsInList ==
  ASSUME ScanRight, scan.list # <<>>
  PROVE  NextPos \in Nat /\ NextPos < Len(scan.list)
  <1>1. Len(scan.list) \in Nat /\ Len(scan.list) # 0
    BY DEF ScanRight, ScanVariables
  <1>2. Size \in Nat
    BY <1>1, ReactionsAssumption DEF Size
  <1>3. scan.pos \in Nat
    BY DEF ScanRight, ScanVariables
  <1> DEFINE x == scan.pos + Size
             n == Len(scan.list)
  <1>4. x \in Nat /\ n \in Nat \ {0}
    BY <1>1, <1>2, <1>3
  <1> HIDE DEF x, n
  <1>5. x % n \in Nat /\ x % n < n
    BY <1>4
  <1> QED BY <1>5 DEF NextPos, x, n

LEMMA OnIsNotEmpty ==
  ASSUME ScanRight, scan.on PROVE scan.list # <<>>
  BY DEF ScanRight, ScanVariables

LEMMA NoCounts == <<>> \in CountsOf
  <1>1. <<>> \in [{} -> SomeCounts]
    OBVIOUS
  <1> QED BY <1>1 DEF CountsOf

LEMMA CountsAre ==
  ASSUME World, NEW i \in Issue
  PROVE  Counts(i, Asked(i)) \in SomeCounts
  <1> DEFINE W == {Body} \union Asked(i)
  <1>1. IsFiniteSet(Reaction)
    BY ReactionsAssumption, FS_Interval DEF Reaction
  <1>2. \A w \in Place : up[i].reactions[w] \subseteq Reaction
    BY DEF World, UpIssue, Reactions
  <1>3. \A w \in Place : Cardinality(up[i].reactions[w]) \in Nat
    BY <1>1, <1>2, FS_Subset, FS_CardinalityType
  <1>4. W \in SUBSET Place
    BY DEF World, UpIssue, Asked, Place
  <1>5. Counts(i, Asked(i)) = [w \in W |-> Cardinality(up[i].reactions[w])]
    BY DEF Counts
  <1> HIDE DEF W
  <1>6. Counts(i, Asked(i)) \in [W -> Nat]
    BY <1>3, <1>4, <1>5
  <1> QED BY <1>4, <1>6 DEF SomeCounts

LEMMA StartScanRight ==
  ASSUME Types, StartScan PROVE ScanRight'
  <1> DEFINE l == ScanList
  <1>1. PICK pos \in StartPos(l) :
          scan' = [scan EXCEPT !.on = l # <<>>, !.list = l, !.pos = pos, !.phase = "check"]
    BY DEF StartScan
  <1>2. l \in Seq(Issue)
    BY ScanListIs
  <1> HIDE DEF l
  <1>3. pos \in Nat /\ (l # <<>> => pos < Len(l))
    <2>1. CASE l = <<>>
      BY <2>1 DEF StartPos
    <2>2. CASE l # <<>>
      BY <1>2, <2>2 DEF StartPos
    <2> QED BY <2>1, <2>2
  <1>4. /\ scan' \in ScanVariables
        /\ scan'.on = (l # <<>>) /\ scan'.list = l /\ scan'.pos = pos
    BY <1>1, <1>2, <1>3 DEF Types, ScanRight, ScanVariables
  <1> QED BY <1>3, <1>4 DEF ScanRight

LEMMA AskCountsRight ==
  ASSUME Types, AskCounts PROVE ScanRight'
  <1> DEFINE asked == {j \in Batch \ PR : ~ up[j].gone}
             counts == [i \in asked |-> Counts(i, Asked(i))]
             pos == NextPos
  <1>1. scan' = [scan EXCEPT !.pos = pos, !.phase = "compare", !.counts = counts]
    BY DEF AskCounts
  <1>2. scan.on /\ scan.list # <<>>
    BY OnIsNotEmpty DEF AskCounts, Scanning, Types
  <1>3. pos \in Nat /\ pos < Len(scan.list)
    BY <1>2, NextPosIsInList DEF Types
  <1>4. counts \in CountsOf
    <2>1. asked \subseteq Issue
      <3> SUFFICES ASSUME NEW k \in 0 .. Size - 1
                   PROVE  scan.list[1 + ((scan.pos + k) % Len(scan.list))] \in Issue
        BY DEF Batch
      <3> DEFINE x == scan.pos + k
                 n == Len(scan.list)
      <3>1. scan.list \in Seq(Issue) /\ n \in Nat \ {0} /\ x \in Nat
        BY <1>2, ReactionsAssumption DEF Types, ScanRight, ScanVariables, Size
      <3>2. 1 + (x % n) \in 1 .. n
        <4> HIDE DEF x, n
        <4> QED BY <3>1
      <3> QED BY <3>1, <3>2
    <2> HIDE DEF asked
    <2>2. counts \in [asked -> SomeCounts]
      BY <2>1, CountsAre DEF Types
    <2> QED BY <2>1, <2>2 DEF CountsOf
  <1> HIDE DEF pos, counts
  <1>5. /\ scan' \in ScanVariables
        /\ scan'.on = scan.on /\ scan'.list = scan.list /\ scan'.pos = pos
    BY <1>1, <1>3, <1>4 DEF Types, ScanRight, ScanVariables
  <1> QED BY <1>3, <1>5 DEF ScanRight

LEMMA CompareCountsRight ==
  ASSUME Types, CompareCounts
  PROVE  ScanRight' /\ queue' \in [Process -> SUBSET Issue]
  <1> DEFINE stale == {i \in DOMAIN scan.counts : StaleReactions(mem[i], scan.counts[i])}
  <1>1. scan' = [scan EXCEPT !.phase = "sync", !.counts = <<>>]
        /\ queue' = [queue EXCEPT !["scan"] = stale]
    BY DEF CompareCounts
  <1>2. stale \subseteq Issue
    BY DEF Types, ScanRight, ScanVariables, CountsOf
  <1> HIDE DEF stale
  <1>3. queue' \in [Process -> SUBSET Issue]
    BY <1>1, <1>2 DEF Types, Leader
  <1>4. /\ scan' \in ScanVariables
        /\ scan'.on = scan.on /\ scan'.list = scan.list /\ scan'.pos = scan.pos
    BY <1>1, NoCounts DEF Types, ScanRight, ScanVariables
  <1> QED BY <1>3, <1>4 DEF Types, ScanRight

LEMMA EndBatchRight ==
  ASSUME Types, EndBatch PROVE ScanRight'
  <1> DEFINE l == ScanList
  <1>1. l \in Seq(Issue)
    BY ScanListIs
  <1>2. CASE scan.pos # 0
    <2>1. scan' = [scan EXCEPT !.phase = "check"]
      BY <1>2 DEF EndBatch
    <2>2. /\ scan' \in ScanVariables
          /\ scan'.on = scan.on /\ scan'.list = scan.list /\ scan'.pos = scan.pos
      BY <2>1 DEF Types, ScanRight, ScanVariables
    <2> QED BY <2>2 DEF Types, ScanRight
  <1>3. CASE scan.pos = 0
    <2>1. scan' = [scan EXCEPT !.phase = "check", !.list = l, !.on = l # <<>>]
      BY <1>3 DEF EndBatch
    <2> HIDE DEF l
    <2>2. /\ scan' \in ScanVariables
          /\ scan'.on = (l # <<>>) /\ scan'.list = l /\ scan'.pos = 0
      BY <1>1, <1>3, <2>1 DEF Types, ScanRight, ScanVariables
    <2>3. l # <<>> => 0 < Len(l)
      BY <1>1
    <2> QED BY <2>2, <2>3 DEF ScanRight
  <1> QED BY <1>2, <1>3

LEMMA AskFailsRight ==
  ASSUME Types, AskFails PROVE ScanRight'
  <1> DEFINE pos == NextPos
  <1>1. scan' = [scan EXCEPT !.pos = pos]
    BY DEF AskFails
  <1>2. scan.list # <<>>
    BY OnIsNotEmpty DEF AskFails, Scanning, Types
  <1>3. pos \in Nat /\ pos < Len(scan.list)
    BY <1>2, NextPosIsInList DEF Types
  <1> HIDE DEF pos
  <1>4. /\ scan' \in ScanVariables
        /\ scan'.on = scan.on /\ scan'.list = scan.list /\ scan'.pos = pos
    BY <1>1, <1>3 DEF Types, ScanRight, ScanVariables
  <1> QED BY <1>3, <1>4 DEF ScanRight

LEMMA NoScanIs == NoScan \in ScanVariables /\ NoScan.on = FALSE
  <1>1. <<>> \in Seq(Issue)
    OBVIOUS
  <1> QED BY <1>1, NoCounts DEF NoScan, ScanVariables

-----------------------------------------------------------------------------
\* Edits.  React makes a reaction that nobody holds; the others make none.
LEMMA EditedIs ==
  ASSUME World, NEW i \in Issue, NEW is \in UpIssue, Edit(i, is), next' \in Nat
  PROVE  /\ World' /\ up'[i] = is /\ \A j \in Issue \ {i} : up'[j] = up[j]
         /\ UNCHANGED <<mem, disk, pend, queue, job, scan>>
  <1>1. edits \in Nat /\ MaxEdits \in Nat
    BY ReactionsAssumption DEF World
  <1> QED BY <1>1 DEF World, Edit

\* Nothing of the leader changes.
LEMMA LeaderStays ==
  ASSUME Leader, FoundStillDiffers, UNCHANGED <<mem, disk, pend, queue, job>>
  PROVE  /\ Leader' /\ FoundStillDiffers'
         /\ \A i \in Issue, w \in Place : \A r : Held(i, w, r)' => InCorpus(up', i, w, r) \/ Held(i, w, r)
  BY DEF Leader, FoundStillDiffers, Held, InCorpus, InJob, InPend

LEMMA LosingEditKeeps ==
  ASSUME Types, FoundStillDiffers, NEW i \in Issue, NEW is \in UpIssue, Edit(i, is),
         \A w \in Place : is.reactions[w] \subseteq up[i].reactions[w], UNCHANGED next
  PROVE  World' /\ ScanRight' /\ Keeps
  <1>1. /\ World' /\ up'[i] = is /\ \A j \in Issue \ {i} : up'[j] = up[j]
        /\ UNCHANGED <<mem, disk, pend, queue, job, scan>>
    BY EditedIs DEF Types, World
  <1>2. ScanRight'
    BY <1>1 DEF Types, ScanRight
  <1>3. HeldStays
    <2> SUFFICES ASSUME NEW j \in Issue, NEW w \in Place, NEW r \in Reaction, InCorpus(up', j, w, r)
                 PROVE  Held(j, w, r)
      BY <1>1, LeaderStays DEF HeldStays, Types
    <2>1. InCorpus(up, j, w, r)
      BY <1>1 DEF InCorpus
    <2> QED BY <2>1 DEF Held
  <1> QED BY <1>1, <1>2, <1>3, LeaderStays DEF Keeps, Types

LEMMA ReactKeeps ==
  ASSUME Types, OneHome, FoundStillDiffers, NEW i \in Issue, NEW w \in Place, React(i, w)
  PROVE  Types' /\ OneHome' /\ FoundStillDiffers'
  <1> DEFINE is == [up[i] EXCEPT !.reactions[w] = @ \union {next}]
  <1>1. up[i] \in UpIssue /\ next \in Reaction /\ next' = next + 1 /\ Edit(i, is)
    BY DEF React, Types, World
  <1>2. /\ is \in UpIssue
        /\ \A v \in Place : is.reactions[v] = IF v = w THEN up[i].reactions[w] \union {next}
                                              ELSE up[i].reactions[v]
    BY <1>1 DEF UpIssue, Reactions
  <1>3. next \in Nat /\ next' \in Nat
    BY <1>1 DEF Types, World
  <1> HIDE DEF is
  <1>4. /\ World' /\ up'[i] = is /\ \A j \in Issue \ {i} : up'[j] = up[j]
        /\ UNCHANGED <<mem, disk, pend, queue, job, scan>>
    BY <1>1, <1>2, <1>3, EditedIs DEF Types
  <1>5. Types' /\ FoundStillDiffers'
    BY <1>4, LeaderStays DEF Types, ScanRight
  <1>6. ASSUME NEW j \in Issue, NEW v \in Place, NEW r \in Reaction, Held(j, v, r)'
        PROVE  Held(j, v, r) \/ (j = i /\ v = w /\ r = next)
    <2>1. InCorpus(up', j, v, r) \/ Held(j, v, r)
      BY <1>4, <1>6, LeaderStays DEF Types
    <2>2. CASE InCorpus(up', j, v, r)
      <3>1. InCorpus(up, j, v, r) \/ (j = i /\ v = w /\ r = next)
        BY <1>2, <1>4, <2>2 DEF InCorpus
      <3> QED BY <3>1 DEF Held
    <2> QED BY <2>1, <2>2
  <1>7. ASSUME NEW j \in Issue, NEW v \in Place, NEW r \in Reaction, Held(j, v, r)'
        PROVE  r < next'
    <2>1. CASE Held(j, v, r)
      BY <1>1, <1>3, <2>1 DEF OneHome, Reaction
    <2>2. CASE r = next
      BY <1>1, <1>3, <2>2
    <2> QED BY <1>6, <1>7, <2>1, <2>2
  <1>8. ASSUME NEW j \in Issue, NEW k \in Issue, NEW v \in Place, NEW x \in Place,
               NEW r \in Reaction, Held(j, v, r)', Held(k, x, r)'
        PROVE  j = k /\ v = x
    <2>1. CASE r = next
      <3>1. ~ Held(j, v, r) /\ ~ Held(k, x, r)
        BY <1>3, <2>1 DEF OneHome
      <3> QED BY <1>6, <1>8, <3>1
    <2>2. CASE r # next
      <3>1. Held(j, v, r) /\ Held(k, x, r)
        BY <1>6, <1>8, <2>2
      <3> QED BY <3>1 DEF OneHome
    <2> QED BY <2>1, <2>2
  <1>9. OneHome'
    BY <1>7, <1>8 DEF OneHome
  <1> QED BY <1>5, <1>9

LEMMA LosingEditsKeep ==
  ASSUME Types, FoundStillDiffers, NEW i \in Issue,
         \/ OpenIssue(i) \/ DeleteIssue(i) \/ \E c \in Comment : DeleteComment(i, c)
         \/ \E w \in Place : Withdraw(i, w)
  PROVE  World' /\ ScanRight' /\ Keeps /\ UNCHANGED next
  <1>1. up[i] \in UpIssue
    BY DEF Types, World
  <1>2. CASE OpenIssue(i)
    <2> DEFINE is == [up[i] EXCEPT !.open = TRUE]
    <2>1. is \in UpIssue /\ is.reactions = up[i].reactions
      BY <1>1 DEF UpIssue
    <2>2. Edit(i, is) /\ UNCHANGED next
      BY <1>2 DEF OpenIssue
    <2> HIDE DEF is
    <2>3. \A w \in Place : is.reactions[w] \subseteq up[i].reactions[w]
      BY <2>1
    <2> QED BY <2>1, <2>2, <2>3, LosingEditKeeps
  <1>3. CASE DeleteIssue(i)
    <2> DEFINE is == [up[i] EXCEPT !.gone = TRUE]
    <2>1. is \in UpIssue /\ is.reactions = up[i].reactions
      BY <1>1 DEF UpIssue
    <2>2. Edit(i, is) /\ UNCHANGED next
      BY <1>3 DEF DeleteIssue
    <2> HIDE DEF is
    <2>3. \A w \in Place : is.reactions[w] \subseteq up[i].reactions[w]
      BY <2>1
    <2> QED BY <2>1, <2>2, <2>3, LosingEditKeeps
  <1>4. CASE \E c \in Comment : DeleteComment(i, c)
    <2> PICK c \in Comment : DeleteComment(i, c)
      BY <1>4
    <2> DEFINE is == [up[i] EXCEPT !.comments = @ \ {c}, !.reactions[c] = {}]
    <2>1. is \in UpIssue /\ \A v \in Place : is.reactions[v] \subseteq up[i].reactions[v]
      BY <1>1 DEF UpIssue, Reactions, Place
    <2>2. Edit(i, is) /\ UNCHANGED next
      BY DEF DeleteComment
    <2> HIDE DEF is
    <2> QED BY <2>1, <2>2, LosingEditKeeps
  <1>5. CASE \E w \in Place : Withdraw(i, w)
    <2> PICK w \in Place : Withdraw(i, w)
      BY <1>5
    <2> PICK r \in up[i].reactions[w] : Edit(i, [up[i] EXCEPT !.reactions[w] = @ \ {r}])
      BY DEF Withdraw
    <2> DEFINE is == [up[i] EXCEPT !.reactions[w] = @ \ {r}]
    <2>1. is \in UpIssue /\ \A v \in Place : is.reactions[v] \subseteq up[i].reactions[v]
      BY <1>1 DEF UpIssue, Reactions
    <2>2. Edit(i, is) /\ UNCHANGED next
      BY DEF Withdraw
    <2> HIDE DEF is
    <2> QED BY <2>1, <2>2, LosingEditKeeps
  <1> QED BY <1>2, <1>3, <1>4, <1>5

-----------------------------------------------------------------------------
\* The inductive invariant.
Homes == Types /\ OneHome /\ FoundStillDiffers

LEMMA HomesInit == Init => Homes
  <1> SUFFICES ASSUME Init PROVE Homes
    OBVIOUS
  <1>1. /\ Body \in Place /\ InitOpen \subseteq Issue /\ InitReactions \in [InitOpen -> Reactions]
    BY ReactionsAssumption DEF Place
  <1>2. \A i \in InitOpen, w \in Place : InitReactions[i][w] \subseteq InitIDs
    BY DEF InitIDs
  <1>3. InitIDs \subseteq Reaction
    BY <1>1 DEF InitIDs, Reactions
  <1>4. Cardinality(InitIDs) \in Nat
    <2>1. IsFiniteSet(Reaction)
      BY ReactionsAssumption, FS_Interval DEF Reaction
    <2> QED BY <1>3, <2>1, FS_Subset, FS_CardinalityType
  <1>5. /\ up \in [Issue -> UpIssue]
        /\ \A i \in Issue, w \in Place :
             up[i].reactions[w] = IF i \in InitOpen THEN InitReactions[i][w] ELSE {}
    <2>1. \A i \in Issue : (IF i \in InitOpen THEN InitReactions[i] ELSE NoReactions) \in Reactions
      BY <1>1, NothingIsTyped
    <2>2. up \in [Issue -> UpIssue]
      BY <2>1, InitAssumption, ReactionsAssumption DEF Init, UpIssue
    <2>3. \A i \in Issue : up[i].reactions = IF i \in InitOpen THEN InitReactions[i] ELSE NoReactions
      BY DEF Init
    <2> QED BY <2>2, <2>3 DEF NoReactions
  <1>6. World
    BY <1>4, <1>5, ReactionsAssumption DEF Init, World
  <1>7. Leader
    <2>1. Blank \in Known
      BY NothingIsTyped DEF Blank, Known, Age
    <2> QED BY <2>1, NothingIsTyped DEF Init, Leader
  <1>8. ScanRight
    BY NoScanIs DEF Init, ScanRight
  <1>9. FoundStillDiffers
    <2>1. \A p \in Process : job[p].todo = {}
      BY DEF Init, NoJob
    <2> QED BY <2>1 DEF FoundStillDiffers
  <1>10. ASSUME NEW i \in Issue, NEW w \in Place, NEW r \in Reaction, Held(i, w, r)
         PROVE  i \in InitOpen /\ r \in InitReactions[i][w]
    <2>1. ~ InCorpus(mem, i, w, r) /\ ~ InCorpus(disk, i, w, r)
      BY DEF Init, InCorpus, Blank, NoReactions
    <2>2. \A p \in Process : ~ InJob(job[p], i, w, r)
      BY NoJobIsEmpty DEF Init
    <2>3. \A p \in Process : ~ InPend(pend[p], i, w, r)
      BY DEF Init, InPend
    <2>4. InCorpus(up, i, w, r)
      BY <1>10, <2>1, <2>2, <2>3 DEF Held
    <2> QED BY <1>5, <2>4 DEF InCorpus
  <1>11. ASSUME NEW i \in Issue, NEW j \in Issue, NEW v \in Place, NEW w \in Place,
                NEW r \in Reaction, Held(i, v, r), Held(j, w, r)
         PROVE  i = j /\ v = w
    <2>1. i \in InitOpen /\ j \in InitOpen /\ r \in InitReactions[i][v] \intersect InitReactions[j][w]
      BY <1>10, <1>11
    <2>2. <<i, v>> = <<j, w>> \/ InitReactions[i][v] \intersect InitReactions[j][w] = {}
      BY <2>1, InitAssumption
    <2> QED BY <2>1, <2>2
  <1>12. ASSUME NEW i \in Issue, NEW w \in Place, NEW r \in Reaction, Held(i, w, r)
         PROVE  r < next
    <2>1. r \in InitIDs
      BY <1>2, <1>10, <1>12
    <2>2. InitIDs = 1 .. Cardinality(InitIDs)
      BY InitAssumption
    <2>3. r \in 1 .. Cardinality(InitIDs)
      BY <2>1, <2>2
    <2> QED BY <1>4, <2>3 DEF Init
  <1>13. OneHome
    BY <1>11, <1>12 DEF OneHome
  <1> QED BY <1>6, <1>7, <1>8, <1>9, <1>13 DEF Homes, Types

\* A step of the leader, or one that fails, moves nothing to another place.
LEMMA KeptHomes ==
  ASSUME Homes, World', ScanRight', Keeps, UNCHANGED next
  PROVE  Homes'
  <1>1. OneHome'
    BY DEF Homes, OneHome, Keeps, HeldStays
  <1> QED BY <1>1 DEF Homes, Types, Keeps

\* What a process does for the reactions of an issue.
LEMMA WorkKeeps ==
  ASSUME Types, FoundStillDiffers, NEW p \in Process, Work(p)
  PROVE  Keeps /\ UNCHANGED <<up, next, edits, scan, faults>>
  <1>1. CASE Log(p)
    BY <1>1, LogKeeps DEF Log, github
  <1>2. CASE ListBody(p)
    BY <1>2, ListBodyKeeps DEF ListBody, github
  <1>3. CASE Lock(p)
    BY <1>3, LockKeeps DEF Lock, github
  <1>4. CASE AddReactions(p)
    BY <1>4, AddReactionsKeeps DEF AddReactions, github
  <1>5. CASE AnswersGone(p)
    BY <1>5, SyncFailsKeeps DEF AnswersGone, SyncFails, github
  <1>6. CASE \E c \in Comment : ListComment(p, c)
    BY <1>6, ListCommentKeeps DEF ListComment, github
  <1> QED BY <1>1, <1>2, <1>3, <1>4, <1>5, <1>6 DEF Work

\* What else the cycle does.
LEMMA CycleKeeps ==
  ASSUME Types, FoundStillDiffers, Cycle
  PROVE  Keeps /\ UNCHANGED <<up, next, edits, scan, faults>>
  <1>1. CASE Work("cycle")
    BY <1>1, WorkKeeps DEF Process
  <1>2. CASE BeginReactions
    <2>1. queue' \in [Process -> SUBSET Issue] /\ UNCHANGED <<up, mem, disk, pend, job>>
      BY <1>2 DEF BeginReactions, github, Types, Leader
    <2> QED BY <1>2, <2>1, QueueKeeps DEF BeginReactions, github
  <1>3. CASE EndCycle
    <2>1. queue' \in [Process -> SUBSET Issue] /\ UNCHANGED <<up, mem, disk, pend, job>>
      BY <1>3 DEF EndCycle, github, Types, Leader
    <2> QED BY <1>3, <2>1, QueueKeeps DEF EndCycle, github
  <1>4. ASSUME NEW i \in Issue, Learn(i)
        PROVE  Keeps /\ UNCHANGED <<up, next, edits, scan, faults>>
    BY <1>4, LearnKeeps DEF Learn, github
  <1>5. ASSUME NEW i \in Issue, FindGone(i)
        PROVE  Keeps /\ UNCHANGED <<up, next, edits, scan, faults>>
    BY <1>5, FindGoneKeeps DEF FindGone, github
  <1>6. ASSUME NEW i \in Issue, Meet(i)
        PROVE  Keeps /\ UNCHANGED <<up, next, edits, scan, faults>>
    <2>1. queue' \in [Process -> SUBSET Issue] /\ UNCHANGED <<up, mem, disk, pend, job>>
      BY <1>6 DEF Meet, github, Types, Leader
    <2> QED BY <1>6, <2>1, QueueKeeps DEF Meet, github
  <1> QED BY <1>1, <1>2, <1>3, <1>4, <1>5, <1>6 DEF Cycle

\* What else the scan does.
LEMMA ScanKeeps ==
  ASSUME Types, FoundStillDiffers, Scan \/ AskFails
  PROVE  Keeps /\ ScanRight' /\ UNCHANGED <<up, next, edits>>
  <1>1. CASE Work("scan")
    BY <1>1, WorkKeeps DEF Process, Types, ScanRight
  <1>2. CASE StartScan
    <2>1. queue' \in [Process -> SUBSET Issue] /\ UNCHANGED <<up, mem, disk, pend, job>>
      BY <1>2 DEF StartScan, github, Types, Leader
    <2> QED BY <1>2, <2>1, QueueKeeps, StartScanRight DEF StartScan, github
  <1>3. CASE AskCounts
    <2>1. queue' \in [Process -> SUBSET Issue] /\ UNCHANGED <<up, mem, disk, pend, job>>
      BY <1>3 DEF AskCounts, github, Types, Leader
    <2> QED BY <1>3, <2>1, QueueKeeps, AskCountsRight DEF AskCounts, github
  <1>4. CASE CompareCounts
    <2>1. UNCHANGED <<up, mem, disk, pend, job>>
      BY <1>4 DEF CompareCounts, github
    <2> QED BY <1>4, <2>1, QueueKeeps, CompareCountsRight DEF CompareCounts, github
  <1>5. CASE EndBatch
    <2>1. queue' \in [Process -> SUBSET Issue] /\ UNCHANGED <<up, mem, disk, pend, job>>
      BY <1>5 DEF EndBatch, github, Types, Leader
    <2> QED BY <1>5, <2>1, QueueKeeps, EndBatchRight DEF EndBatch, github
  <1>6. CASE AskFails
    <2>1. queue' \in [Process -> SUBSET Issue] /\ UNCHANGED <<up, mem, disk, pend, job>>
      BY <1>6 DEF AskFails, github, Types, Leader
    <2> QED BY <1>6, <2>1, QueueKeeps, AskFailsRight DEF AskFails, github
  <1> QED BY <1>1, <1>2, <1>3, <1>4, <1>5, <1>6 DEF Scan

LEMMA HomesNext == Homes /\ [Next]_vars => Homes'
  <1> SUFFICES ASSUME Homes, [Next]_vars PROVE Homes'
    OBVIOUS
  <1> USE DEF Homes
  <1>1. ASSUME UNCHANGED <<up, next, edits, faults>> PROVE World'
    BY <1>1 DEF Types, World
  <1>2. ASSUME UNCHANGED <<up, next, edits>>, faults' = faults + 1, faults < MaxFaults PROVE World'
    <2>1. faults \in Nat /\ MaxFaults \in Nat
      BY ReactionsAssumption DEF Types, World
    <2> QED BY <1>2, <2>1 DEF Types, World
  <1>3. CASE Cycle
    <2>1. ScanRight'
      BY <1>3, CycleKeeps DEF Types, ScanRight
    <2> QED BY <1>1, <1>3, <2>1, CycleKeeps, KeptHomes
  <1>4. CASE Scan
    <2>1. UNCHANGED faults
      <3>1. CASE Work("scan")
        BY <3>1, WorkKeeps DEF Process
      <3>2. CASE StartScan \/ AskCounts \/ CompareCounts \/ EndBatch
        BY <3>2 DEF StartScan, AskCounts, CompareCounts, EndBatch
      <3> QED BY <1>4, <3>1, <3>2 DEF Scan
    <2> QED BY <1>1, <1>4, <2>1, ScanKeeps, KeptHomes
  <1>5. CASE AskFails
    <2>1. faults' = faults + 1 /\ faults < MaxFaults
      BY <1>5 DEF AskFails, RequestFailed
    <2> QED BY <1>2, <1>5, <2>1, ScanKeeps, KeptHomes
  <1>6. CASE Day
    <2>1. UNCHANGED <<up, next, edits, faults, scan>>
      BY <1>6 DEF Day, github
    <2>2. ScanRight'
      BY <2>1 DEF Types, ScanRight
    <2> QED BY <1>1, <1>6, <2>1, <2>2, DayKeeps, KeptHomes
  <1>7. CASE Crash
    <2>1. UNCHANGED <<up, next, edits>> /\ faults' = faults + 1 /\ faults < MaxFaults
      BY <1>7 DEF Crash, github
    <2>2. ScanRight'
      BY <1>7, NoScanIs DEF Crash, ScanRight
    <2> QED BY <1>2, <1>7, <2>1, <2>2, CrashKeeps, KeptHomes
  <1>8. CASE GitHub
    <2> PICK i \in Issue : \/ OpenIssue(i) \/ DeleteIssue(i)
                           \/ \E c \in Comment : DeleteComment(i, c)
                           \/ \E w \in Place : React(i, w) \/ Withdraw(i, w)
      BY <1>8 DEF GitHub
    <2>1. CASE \E w \in Place : React(i, w)
      BY <2>1, ReactKeeps
    <2>2. CASE \/ OpenIssue(i) \/ DeleteIssue(i) \/ \E c \in Comment : DeleteComment(i, c)
               \/ \E w \in Place : Withdraw(i, w)
      BY <2>2, LosingEditsKeep, KeptHomes
    <2> QED BY <2>1, <2>2
  <1>9. ASSUME NEW p \in Process, RequestFails(p) PROVE Homes'
    <2>1. /\ UNCHANGED <<up, next, edits, scan>> /\ faults' = faults + 1 /\ faults < MaxFaults
          /\ SyncFails(p)
      BY <1>9 DEF RequestFails, RequestFailed, SyncFails, github
    <2>2. ScanRight'
      BY <2>1 DEF Types, ScanRight
    <2> QED BY <1>2, <2>1, <2>2, SyncFailsKeeps, KeptHomes
  <1>10. CASE UNCHANGED vars
    <2>1. /\ UNCHANGED <<up, next, edits, faults, scan>>
          /\ queue' \in [Process -> SUBSET Issue] /\ UNCHANGED <<up, mem, disk, pend, job>>
      BY <1>10 DEF vars, Types, Leader
    <2>2. ScanRight'
      BY <2>1 DEF Types, ScanRight
    <2> QED BY <1>1, <2>1, <2>2, QueueKeeps, KeptHomes
  <1> QED BY <1>3, <1>4, <1>5, <1>6, <1>7, <1>8, <1>9, <1>10 DEF Next

LEMMA HomesHold == Spec => []Homes
  BY HomesInit, HomesNext, PTL DEF Spec

\* Every variable has its type, whatever the issues, edits, failures and restarts; the
\* scan's position is one of its list for as long as it goes on (reactionScanLoop).
THEOREM ReactionTypes == Spec => []TypeOK
  <1>1. Homes => TypeOK
    <2> SUFFICES ASSUME Homes PROVE TypeOK
      OBVIOUS
    <2>1. \A p \in Process :
            /\ job[p].num \in Issue \union {0} /\ job[p].todo \subseteq Comment
            /\ {job[p].add, job[p].remove} \subseteq Reactions
      BY DEF Homes, Types, Leader, Job
    <2>2. /\ scan.list \in Seq(Issue) /\ scan.pos \in Nat
          /\ scan.on => scan.pos < Len(scan.list)
      BY DEF Homes, Types, ScanRight, ScanVariables
    <2> QED BY <2>1, <2>2 DEF Homes, Types, World, Leader, TypeOK
  <1> QED BY <1>1, HomesHold, PTL

\* No corpus, the leader's or one replayed after a crash, shows a reaction that was never
\* made or that is elsewhere, though the cycle and the scan may sync one issue at once
\* and compare its lists with a corpus that the other is about to change
\* (syncReactionsOnIssue).
THEOREM ReactionsAreWhereMade == Spec => []ShownWhereMade
  <1>1. Homes => ShownWhereMade
    <2> SUFFICES ASSUME Homes, NEW c \in {mem, disk}, NEW i \in Issue, NEW j \in Issue,
                        NEW v \in Place, NEW w \in Place
                 PROVE  /\ c[i].reactions[v] \subseteq 1 .. next - 1
                        /\ <<i, v>> # <<j, w>> =>
                             /\ c[i].reactions[v] \intersect up[j].reactions[w] = {}
                             /\ c[i].reactions[v] \intersect mem[j].reactions[w] = {}
                             /\ c[i].reactions[v] \intersect disk[j].reactions[w] = {}
      BY DEF ShownWhereMade
    <2>1. c[i].reactions[v] \subseteq Reaction
      BY DEF Homes, Types, Leader, Known, Reactions
    <2>2. \A r \in c[i].reactions[v] : Held(i, v, r)
      BY DEF Held, InCorpus
    <2>3. ASSUME NEW r \in c[i].reactions[v] PROVE r \in 1 .. next - 1
      <3>1. r < next /\ next \in Nat
        BY <2>1, <2>2 DEF Homes, OneHome, Types, World
      <3> QED BY <2>1, <3>1 DEF Reaction
    <2>4. ASSUME NEW r \in c[i].reactions[v], <<i, v>> # <<j, w>> PROVE ~ Held(j, w, r)
      BY <2>1, <2>2, <2>4 DEF Homes, OneHome
    <2> QED BY <2>3, <2>4 DEF Held, InCorpus
  <1> QED BY <1>1, HomesHold, PTL

\* While a process lists the reactions to the comments, what it has found to add is not in
\* the corpus and what it has found to remove is: the read lock keeps the other from adding
\* its mutation in between (syncReactionsOnIssue holds the corpus's RLock).
THEOREM FoundIsStillTrue == Spec => []FoundStillDiffers
  <1>1. Homes => FoundStillDiffers
    BY DEF Homes
  <1> QED BY <1>1, HomesHold, PTL
=============================================================================
