--------------------------- MODULE GitHubSyncProofs ---------------------------
(***************************************************************************)
(* Proofs about GitHubSync, for any issues, edits, failures and crashes:   *)
(* types, that the counters of issues count them, and that what is synced  *)
(* is whole.                                                               *)
(*                                                                         *)
(* A mutation that says that an issue is gone counts nothing, not even an  *)
(* issue that was not known.  So the counters are right only if such a     *)
(* mutation is of an issue that is known, in the leader when it is         *)
(* processed and in the log when it is logged: the issues of a facet are   *)
(* known, and what the leader knows and the log does not is at most the    *)
(* issue of the poller's mutation on its way to the log, which is not one  *)
(* of these.                                                               *)
(*                                                                         *)
(* What is synced is whole because of what the corpus, and the replayed    *)
(* log, have at any time: of comments none that is missing is older than   *)
(* one that is there, so that it is enough to ask for those since the      *)
(* newest; of events and reviews the first so many, so that pages can be   *)
(* skipped; and a listed issue that is not yet processed has the draft of  *)
(* the pull request, unless it was edited since, in which case the details *)
(* are stale.  An edit makes every facet of its issue stale, as none was   *)
(* read later than now.                                                    *)
(***************************************************************************)
EXTENDS GitHubSync, FiniteSetTheorems, WellFoundedInduction, TLAPS

Setting(set) ==
  /\ \A f \in {"updated", "closedAt", "details"} : f \in DOMAIN set => set[f] \in Nat
  /\ \A f \in {"closed", "draft"} : f \in DOMAIN set => set[f] \in BOOLEAN

\* A mutation of an issue, and one of a list, by what it sets.
IssueMutation(m) ==
  /\ m = [num |-> m.num, gone |-> m.gone, pr |-> m.pr, set |-> m.set, add |-> m.add,
          remove |-> m.remove, comments |-> m.comments, feed |-> m.feed, asOf |-> m.asOf]
  /\ m.num \in Issue /\ m.gone \in BOOLEAN /\ m.pr \in BOOLEAN
  /\ Setting(m.set)
  /\ m.add \subseteq Label
  /\ \A c \in DOMAIN m.comments : m.comments[c] \in Text
  /\ \A f \in DOMAIN m.feed : m.feed[f] \subseteq Nat /\ IsFiniteSet(m.feed[f])
  /\ \A f \in DOMAIN m.asOf : m.asOf[f] \in Nat
ListMutation(m) == m.num = 0 /\ m.list \in List /\ m.names \in [Entry -> Nat]

InBucket(c, b) == {i \in Issue : c.issues[i].known /\ BucketOf(c.issues[i]) = b}
CorpusRight(c) ==
  /\ c \in Corpus
  /\ \A i \in Issue, f \in Feed : IsFiniteSet(c.issues[i].feed[f])
  /\ \A b \in Bucket : c.count[b] = Cardinality(InBucket(c, b))

World ==
  /\ now \in Nat /\ up \in [Issue -> UpIssue] /\ upNames \in [List -> [Entry -> Nat]]
  /\ edits \in Nat /\ faults \in Nat

\* What the leader knows and the log does not is the issue of the poller's mutation,
\* which says more of it than that it is gone.
LogLags ==
  \A i \in Issue :
    mem.issues[i].known /\ ~ disk.issues[i].known =>
      pend["poller"] # None /\ pend["poller"].num = i /\ ~ pend["poller"].gone
GoneIsKnown ==
  pend["poller"] # None /\ pend["poller"].gone => disk.issues[pend["poller"].num].known

Pending ==
  /\ pend = [p \in Process |-> pend[p]]
  /\ pend["poller"] # None => IssueMutation(pend["poller"])
  /\ \A l \in List : pend[l] # None => ListMutation(pend[l])
Corpora == CorpusRight(mem) /\ CorpusRight(disk) /\ Pending /\ LogLags /\ GoneIsKnown

\* The variables of the cycle and of the lists.
PassRight ==
  /\ pass = [cursor |-> pass.cursor, seen |-> pass.seen, page |-> pass.page,
             changes |-> pass.changes, listed |-> pass.listed]
  /\ pass.seen \subseteq Issue /\ pass.changes \in Nat
  /\ DOMAIN pass.page \subseteq Issue /\ \A i \in DOMAIN pass.page : pass.page[i] \in UpIssue
TaskRight ==
  /\ task = [todo |-> task.todo, page |-> task.page, since |-> task.since, got |-> task.got]
  /\ task.todo \subseteq Issue /\ \A i \in task.todo : mem.issues[i].known
  /\ task.page \in Nat /\ task.got \subseteq Nat /\ IsFiniteSet(task.got)
ListsRight ==
  /\ lists \in [List -> [page : {0} \union Entry, got : [Entry -> Nat], failed : BOOLEAN]]
  /\ cached \in [List -> Nat]
Cycle ==
  /\ phase \in DOMAIN Following \union {"idle", "lists"}
  /\ PassRight /\ TaskRight /\ ListsRight

IInv == World /\ Corpora /\ Cycle

-----------------------------------------------------------------------------
\* An order of a finite set has a first.
LEMMA FirstIsThere ==
  ASSUME NEW S, IsFiniteSet(S), S # {}, NEW R,
         \A x \in S : <<x, x>> \notin R,
         \A x, y, z \in S : <<x, y>> \in R /\ <<y, z>> \in R => <<x, z>> \in R
  PROVE  \E x \in S : \A y \in S : <<y, x>> \notin R
  <1> DEFINE Before(x) == {y \in S : <<y, x>> \in R}
             T == {Before(x) : x \in S}
  <1>1. T \subseteq FiniteSubsetsOf(S) /\ T # {}
    <2>1. T \subseteq SUBSET S /\ T # {}
      <3>1. \A x \in S : Before(x) \in SUBSET S
        OBVIOUS
      <3>2. PICK x \in S : TRUE
        OBVIOUS
      <3> HIDE DEF Before
      <3> QED BY <3>1, <3>2
    <2> HIDE DEF T
    <2> QED BY <2>1, FS_FiniteSubsetsOfFinite
  <1>2. PICK X \in T : \A Y \in T : ~ (<<Y, X>> \in StrictSubsetOrdering(S))
    <2> HIDE DEF T
    <2> QED BY <1>1, WFMin, FS_StrictSubsetOrderingWellFounded
  <1>3. PICK x \in S : X = Before(x)
    BY <1>2
  <1>4. ASSUME NEW y \in S, <<y, x>> \in R PROVE FALSE
    <2>1. Before(y) \subseteq Before(x) /\ y \in Before(x) /\ y \notin Before(y)
      BY <1>4
    <2>2. <<Before(y), Before(x)>> \in StrictSubsetOrdering(S)
      BY <2>1 DEF StrictSubsetOrdering
    <2> QED BY <1>2, <1>3, <2>2
  <1> QED BY <1>4

\* The page's next issue is on the page, and the facet's next issue is one of its issues.
LEMMA ItemIsThere ==
  ASSUME PassRight, DOMAIN pass.page # {}
  PROVE  Item \in DOMAIN pass.page /\ Item \in Issue /\ pass.page[Item] \in UpIssue
  <1> DEFINE S == DOMAIN pass.page
             t(i) == pass.page[i].fields.updated
             R == {p \in S \X S : Newer(t(p[1]), p[1], t(p[2]), p[2])}
  <1>1. S \subseteq Issue /\ S \subseteq Nat /\ IsFiniteSet(S) /\ S # {}
    BY FS_Subset, GitHubAssumption DEF PassRight
  <1>2. \A i \in S : t(i) \in Nat /\ pass.page[i] \in UpIssue
    BY DEF PassRight, UpIssue, Fields
  <1>3. \A x, y \in S : <<x, y>> \in R <=> Newer(t(x), x, t(y), y)
    OBVIOUS
  <1>4. \A x \in S : <<x, x>> \notin R
    BY <1>1, <1>2, <1>3 DEF Newer
  <1>5. \A x, y, z \in S : <<x, y>> \in R /\ <<y, z>> \in R => <<x, z>> \in R
    <2> HIDE DEF R, t
    <2> QED BY <1>1, <1>2, <1>3 DEF Newer
  <1>6. PICK x \in S : \A y \in S : <<y, x>> \notin R
    <2> HIDE DEF R, S
    <2> QED BY <1>1, <1>4, <1>5, FirstIsThere
  <1>7. ASSUME NEW y \in S, y # x PROVE Newer(t(x), x, t(y), y)
    <2>1. ~ Newer(t(y), y, t(x), x)
      BY <1>3, <1>6
    <2>2. x \in Nat /\ y \in Nat /\ t(x) \in Nat /\ t(y) \in Nat
      BY <1>1, <1>2
    <2> HIDE DEF t
    <2> QED BY <1>7, <2>1, <2>2 DEF Newer
  <1>8. Item \in S
    BY <1>7 DEF Item
  <1> QED BY <1>1, <1>2, <1>8

\* A finite set of numbers has a smallest and a largest.
LEMMA SmallestIsThere ==
  ASSUME NEW S \in SUBSET Nat, IsFiniteSet(S), S # {}
  PROVE  \E x \in S : \A y \in S : x <= y
  <1> DEFINE R == {p \in S \X S : p[1] < p[2]}
  <1>1. \A x, y \in S : <<x, y>> \in R <=> x < y
    OBVIOUS
  <1>2. \A x \in S : <<x, x>> \notin R
    BY <1>1
  <1>3. \A x, y, z \in S : <<x, y>> \in R /\ <<y, z>> \in R => <<x, z>> \in R
    BY <1>1
  <1>4. PICK x \in S : \A y \in S : <<y, x>> \notin R
    <2> HIDE DEF R
    <2> QED BY <1>2, <1>3, FirstIsThere
  <1>5. ASSUME NEW y \in S PROVE x <= y
    <2>1. x \in Nat /\ y \in Nat /\ ~ (y < x)
      BY <1>1, <1>4
    <2> HIDE DEF R
    <2> QED BY <2>1
  <1> QED BY <1>5

LEMMA LargestIsThere ==
  ASSUME NEW S \in SUBSET Nat, IsFiniteSet(S), S # {}
  PROVE  \E x \in S : \A y \in S : y <= x
  <1> DEFINE R == {p \in S \X S : p[1] > p[2]}
  <1>1. \A x, y \in S : <<x, y>> \in R <=> x > y
    OBVIOUS
  <1>2. \A x \in S : <<x, x>> \notin R
    BY <1>1
  <1>3. \A x, y, z \in S : <<x, y>> \in R /\ <<y, z>> \in R => <<x, z>> \in R
    BY <1>1
  <1>4. PICK x \in S : \A y \in S : <<y, x>> \notin R
    <2> HIDE DEF R
    <2> QED BY <1>2, <1>3, FirstIsThere
  <1>5. ASSUME NEW y \in S PROVE y <= x
    <2>1. x \in Nat /\ y \in Nat /\ ~ (y > x)
      BY <1>1, <1>4
    <2> HIDE DEF R
    <2> QED BY <2>1
  <1> QED BY <1>5

LEMMA NumIsIssue ==
  ASSUME TaskRight, task.todo # {}
  PROVE  Num \in task.todo /\ Num \in Issue
  <1>1. task.todo \subseteq Issue /\ task.todo \in SUBSET Nat /\ IsFiniteSet(task.todo)
    BY FS_Subset, GitHubAssumption DEF TaskRight
  <1>2. \E i \in task.todo : \A j \in task.todo : i <= j
    BY <1>1, SmallestIsThere
  <1> QED BY <1>1, <1>2 DEF Num

LEMMA NumIsThere ==
  ASSUME NEW f, TaskRight, Working(f)
  PROVE  Num \in task.todo /\ Num \in Issue /\ mem.issues[Num].known
  <1>1. Num \in task.todo /\ Num \in Issue
    BY NumIsIssue DEF Working
  <1> QED BY <1>1 DEF TaskRight

-----------------------------------------------------------------------------
LEMMA UpdatedIsKnown ==
  ASSUME NEW gi \in Known, NEW m, IssueMutation(m), \A f \in Feed : IsFiniteSet(gi.feed[f])
  PROVE  /\ Updated(gi, m) \in Known /\ Updated(gi, m).known
         /\ \A f \in Feed : IsFiniteSet(Updated(gi, m).feed[f])
  <1> DEFINE pr == gi.pr \/ m.pr
             over == Over(m.set, gi.fields)
             fields == [over EXCEPT !.draft = IF pr THEN @ ELSE gi.fields.draft,
                                    !.details = IF pr THEN @ ELSE gi.fields.details]
  <1>1. gi.fields \in Fields /\ gi.pr \in BOOLEAN /\ m.pr \in BOOLEAN
    BY DEF Known, IssueMutation
  <1>2. DOMAIN gi.fields = {"updated", "closed", "closedAt", "draft", "details"}
    BY <1>1 DEF Fields
  <1>3. over \in Fields
    <2> DEFINE set == m.set
               old == gi.fields
    <2>1. Setting(set)
      BY DEF IssueMutation
    <2>2. old \in Fields /\ DOMAIN old = {"updated", "closed", "closedAt", "draft", "details"}
      BY <1>1, <1>2
    <2>3. over = [f \in DOMAIN old |-> IF f \in DOMAIN set THEN set[f] ELSE old[f]]
      BY DEF Over
    <2> HIDE DEF set, old, over
    <2>4. /\ old.updated \in Nat /\ old.closedAt \in Nat /\ old.details \in Nat
          /\ old.closed \in BOOLEAN /\ old.draft \in BOOLEAN
      BY <2>2 DEF Fields
    <2>5. over.updated \in Nat /\ over.closedAt \in Nat /\ over.details \in Nat
      BY <2>1, <2>2, <2>3, <2>4 DEF Setting
    <2>6. over.closed \in BOOLEAN
      BY <2>1, <2>2, <2>3, <2>4 DEF Setting
    <2>7. over.draft \in BOOLEAN
      BY <2>1, <2>2, <2>3, <2>4 DEF Setting
    <2>8. over = [updated |-> over.updated, closed |-> over.closed, closedAt |-> over.closedAt,
                  draft |-> over.draft, details |-> over.details]
      BY <2>2, <2>3
    <2> QED BY <2>5, <2>6, <2>7, <2>8 DEF Fields
  <1>4. fields \in Fields
    <2> HIDE DEF over
    <2> QED BY <1>1, <1>3 DEF Fields
  <1>5. SetLabels(gi, m) \subseteq Label
    BY DEF SetLabels, Known, IssueMutation
  <1>6. Over(m.comments, gi.comments) \in [Comment -> Text]
    BY DEF Over, Known, IssueMutation
  <1>7. Over(m.asOf, gi.asOf) \in [Facet -> Nat]
    BY DEF Over, Known, IssueMutation
  <1>8. \A f \in Feed : Recorded(gi, m, f) \in SUBSET (Event \union Review)
    BY DEF Recorded, Known, IssueMutation, Event, Review
  <1>9. \A f \in Feed : IsFiniteSet(Recorded(gi, m, f))
    BY FS_Union, FS_EmptySet DEF Recorded, IssueMutation
  <1>10. \A f \in Feed : Updated(gi, m).feed[f] = Recorded(gi, m, f)
    BY DEF Updated
  <1>11. Updated(gi, m) \in Known /\ Updated(gi, m).known
    BY <1>1, <1>4, <1>5, <1>6, <1>7, <1>8 DEF Updated, Known
  <1> QED BY <1>9, <1>10, <1>11

\* Processing a mutation of an issue makes the issue known, and keeps the counters right
\* unless it says of an unknown issue that it is gone.
LEMMA ProcessIssueKeeps ==
  ASSUME NEW c, CorpusRight(c), NEW m, IssueMutation(m),
         m.gone => c.issues[m.num].known
  PROVE  /\ CorpusRight(Processed(c, m))
         /\ \A i \in Issue :
              Processed(c, m).issues[i].known <=> i = m.num \/ c.issues[i].known
  <1> DEFINE d == Processed(c, m)
             n == m.num
             old == c.issues[n]
             new == IF m.gone THEN [old EXCEPT !.known = TRUE, !.gone = TRUE]
                    ELSE Updated(old, m)
             count == IF m.gone THEN c.count ELSE Counted(c.count, old, new)
  <1>1. n \in Issue /\ n # 0 /\ m.gone \in BOOLEAN
    BY GitHubAssumption DEF IssueMutation
  <1>2. /\ c.issues \in [Issue -> Known] /\ c.count \in [Bucket -> Int]
        /\ c.names \in [List -> [Entry -> Nat]] /\ old \in Known
        /\ c = [issues |-> c.issues, count |-> c.count, names |-> c.names]
    BY <1>1 DEF CorpusRight, Corpus
  <1>3. \A f \in Feed : IsFiniteSet(old.feed[f])
    BY <1>1 DEF CorpusRight
  <1>4. new \in Known /\ new.known /\ \A f \in Feed : IsFiniteSet(new.feed[f])
    <2>1. CASE m.gone
      <3>1. new \in Known /\ new.known /\ new.feed = old.feed
        BY <1>2, <2>1 DEF Known
      <3> QED BY <1>3, <3>1
    <2>2. CASE ~ m.gone
      BY <1>2, <1>3, <2>2, UpdatedIsKnown
    <2> QED BY <2>1, <2>2
  <1>5. m.gone => new.pr = old.pr /\ new.fields = old.fields
    BY <1>2 DEF Known
  <1>6. d = [issues |-> [c.issues EXCEPT ![n] = new], count |-> count, names |-> c.names]
    <2>1. d = [c EXCEPT !.issues[n] = new, !.count = count]
      BY <1>1 DEF Processed, ProcessIssue
    <2> DEFINE e == [c EXCEPT !.issues[n] = new]
    <2> HIDE DEF new, count, d
    <2>2. e = [issues |-> [c.issues EXCEPT ![n] = new], count |-> c.count, names |-> c.names]
      BY <1>2
    <2>3. d = [e EXCEPT !.count = count]
      BY <2>1
    <2> HIDE DEF e
    <2> QED BY <2>2, <2>3
  <1> HIDE DEF d
  <1>7. /\ d.issues = [c.issues EXCEPT ![n] = new] /\ d.issues[n] = new
        /\ \A i \in Issue : i # n => d.issues[i] = c.issues[i]
        /\ d.count = count /\ d.names = c.names
    <2> HIDE DEF new, count
    <2> QED BY <1>1, <1>2, <1>6
  <1>8. \A b \in Bucket : InBucket(c, b) \subseteq Issue /\ IsFiniteSet(InBucket(c, b))
    BY FS_Subset, GitHubAssumption DEF InBucket
  <1>9. old.known \in BOOLEAN
    BY <1>2 DEF Known
  <1>10. ASSUME NEW b \in Bucket
         PROVE  count[b] \in Int /\ count[b] = Cardinality(InBucket(d, b))
    <2> HIDE DEF new
    <2>1. c.count[b] \in Int /\ c.count[b] = Cardinality(InBucket(c, b))
      BY <1>2 DEF CorpusRight
    <2>2. n \in InBucket(c, b) <=> old.known /\ BucketOf(old) = b
      BY <1>1 DEF InBucket
    <2>3. n \in InBucket(d, b) <=> BucketOf(new) = b
      BY <1>1, <1>4, <1>7 DEF InBucket
    <2>4. \A i \in Issue : i # n => (i \in InBucket(d, b) <=> i \in InBucket(c, b))
      BY <1>7 DEF InBucket
    <2>5. InBucket(d, b) \subseteq Issue
      BY DEF InBucket
    <2>6. CASE m.gone
      <3>1. InBucket(d, b) = InBucket(c, b)
        BY <1>5, <1>8, <2>2, <2>3, <2>4, <2>5, <2>6 DEF BucketOf
      <3> QED BY <2>1, <2>6, <3>1
    <2>7. CASE ~ m.gone /\ BucketOf(new) = b
      <3>1. InBucket(d, b) = InBucket(c, b) \union {n}
        BY <1>1, <1>8, <2>3, <2>4, <2>5, <2>7
      <3>2. Cardinality(InBucket(d, b)) = IF n \in InBucket(c, b) THEN Cardinality(InBucket(c, b))
                                          ELSE Cardinality(InBucket(c, b)) + 1
        BY <3>1, <1>8, FS_AddElement
      <3>3. count[b] = c.count[b] + 1 - (IF old.known /\ b = BucketOf(old) THEN 1 ELSE 0)
        BY <2>7 DEF Counted
      <3> QED BY <2>1, <2>2, <3>2, <3>3
    <2>8. CASE ~ m.gone /\ BucketOf(new) # b
      <3>1. InBucket(d, b) = InBucket(c, b) \ {n}
        BY <1>1, <1>8, <2>3, <2>4, <2>5, <2>8
      <3>2. Cardinality(InBucket(d, b)) = IF n \in InBucket(c, b)
                                          THEN Cardinality(InBucket(c, b)) - 1
                                          ELSE Cardinality(InBucket(c, b))
        BY <3>1, <1>8, FS_RemoveElement
      <3>3. count[b] = c.count[b] + 0 - (IF old.known /\ b = BucketOf(old) THEN 1 ELSE 0)
        BY <2>8 DEF Counted
      <3> QED BY <2>1, <2>2, <3>2, <3>3
    <2> QED BY <2>6, <2>7, <2>8
  <1>11. count \in [Bucket -> Int]
    <2>1. m.gone => count = c.count
      OBVIOUS
    <2>2. ~ m.gone => count = [b \in Bucket |-> count[b]]
      BY DEF Counted
    <2> HIDE DEF count
    <2> QED BY <1>2, <1>10, <2>1, <2>2
  <1>12. d.issues \in [Issue -> Known]
    <2> HIDE DEF new
    <2> QED BY <1>1, <1>2, <1>4, <1>7
  <1>13. d \in Corpus
    <2> HIDE DEF new, count
    <2> QED BY <1>2, <1>6, <1>7, <1>11, <1>12 DEF Corpus
  <1>14. \A i \in Issue, f \in Feed : IsFiniteSet(d.issues[i].feed[f])
    <2> HIDE DEF new
    <2> QED BY <1>4, <1>7 DEF CorpusRight
  <1>15. \A b \in Bucket : d.count[b] = Cardinality(InBucket(d, b))
    BY <1>7, <1>10
  <1>16. CorpusRight(d)
    BY <1>13, <1>14, <1>15 DEF CorpusRight
  <1>17. \A i \in Issue : d.issues[i].known <=> i = n \/ c.issues[i].known
    <2> HIDE DEF new
    <2> QED BY <1>1, <1>4, <1>7
  <1> QED BY <1>16, <1>17 DEF d

LEMMA ProcessNamesKeeps ==
  ASSUME NEW c, CorpusRight(c), NEW m, ListMutation(m)
  PROVE  CorpusRight(Processed(c, m)) /\ Processed(c, m).issues = c.issues
  <1> DEFINE d == Processed(c, m)
             names == [e \in Entry |-> IF m.names[e] = 0 THEN c.names[m.list][e] ELSE m.names[e]]
  <1>1. c \in Corpus /\ m.num = 0 /\ m.list \in List /\ m.names \in [Entry -> Nat]
    BY DEF CorpusRight, ListMutation
  <1>2. names \in [Entry -> Nat]
    BY <1>1 DEF Corpus
  <1>3. d = [c EXCEPT !.names[m.list] = names]
    BY <1>1 DEF Processed, ProcessNames
  <1> HIDE DEF d, names
  <1>4. d \in Corpus /\ d.issues = c.issues /\ d.count = c.count
    BY <1>1, <1>2, <1>3 DEF Corpus
  <1>5. \A b \in Bucket : InBucket(d, b) = InBucket(c, b)
    BY <1>4 DEF InBucket
  <1>6. CorpusRight(d)
    BY <1>4, <1>5 DEF CorpusRight
  <1> QED BY <1>4, <1>6 DEF d

-----------------------------------------------------------------------------
LEMMA IssuesAreNumbered == Issue \subseteq Nat /\ 0 \notin Issue /\ IsFiniteSet(Issue)
  BY GitHubAssumption

\* The poller adds a mutation, of a known issue if it says that the issue is gone.
LEMMA PollerAdds ==
  ASSUME Corpora, pend["poller"] = None, NEW m, IssueMutation(m),
         m.gone => mem.issues[m.num].known,
         AddMutation("poller", m), disk' = disk
  PROVE  Corpora' /\ \A i \in Issue : mem.issues[i].known => mem'.issues[i].known
  <1>1. m.num \in Issue /\ m # None /\ m.gone \in BOOLEAN
    BY IssuesAreNumbered DEF IssueMutation, None
  <1>2. CorpusRight(mem') /\ \A i \in Issue : mem'.issues[i].known <=> i = m.num \/ mem.issues[i].known
    BY ProcessIssueKeeps DEF Corpora, AddMutation
  <1>3. pend' = [pend EXCEPT !["poller"] = m] /\ DOMAIN pend = Process /\ "poller" \in Process
    BY DEF AddMutation, Corpora, Pending, Process
  <1>4. /\ pend'["poller"] = m /\ \A l \in List : pend'[l] = pend[l]
        /\ pend' = [p \in Process |-> pend'[p]]
    BY <1>3 DEF List, Process
  <1>5. Pending'
    BY <1>4 DEF Pending, Corpora
  <1>6. \A i \in Issue : mem.issues[i].known => disk.issues[i].known
    BY DEF Corpora, LogLags
  <1>7. LogLags'
    BY <1>1, <1>2, <1>4, <1>6 DEF LogLags
  <1>8. GoneIsKnown'
    BY <1>1, <1>4, <1>6 DEF GoneIsKnown
  <1> QED BY <1>2, <1>5, <1>7, <1>8 DEF Corpora

LEMMA ListAdds ==
  ASSUME Corpora, NEW l \in List, NEW m, ListMutation(m),
         AddMutation(l, m), disk' = disk
  PROVE  Corpora' /\ mem'.issues = mem.issues
  <1>1. CorpusRight(mem') /\ mem'.issues = mem.issues
    BY ProcessNamesKeeps DEF Corpora, AddMutation
  <1>2. pend' = [pend EXCEPT ![l] = m] /\ DOMAIN pend = Process /\ l \in Process /\ l # "poller"
    BY DEF AddMutation, Corpora, Pending, Process, List
  <1>3. /\ pend'["poller"] = pend["poller"]
        /\ \A k \in List : pend'[k] = IF k = l THEN m ELSE pend[k]
        /\ pend' = [p \in Process |-> pend'[p]]
    BY <1>2 DEF Process
  <1>4. Pending'
    BY <1>3 DEF Pending, Corpora
  <1>5. LogLags' /\ GoneIsKnown'
    BY <1>1, <1>3 DEF LogLags, GoneIsKnown, Corpora
  <1> QED BY <1>1, <1>4, <1>5 DEF Corpora

LEMMA CorporaStay ==
  ASSUME Corpora, UNCHANGED <<mem, disk, pend>>
  PROVE  Corpora'
  BY DEF Corpora, Pending, LogLags, GoneIsKnown

LEMMA LogKeeps ==
  ASSUME Corpora, NEW p \in Process, Log(p)
  PROVE  Corpora'
  <1>1. /\ pend' = [pend EXCEPT ![p] = None] /\ DOMAIN pend = Process /\ mem' = mem
        /\ disk' = Processed(disk, pend[p]) /\ pend[p] # None
    BY DEF Log, Corpora, Pending
  <1>2. /\ \A q \in Process : pend'[q] = IF q = p THEN None ELSE pend[q]
        /\ pend' = [q \in Process |-> pend'[q]]
    BY <1>1
  <1>3. Pending' /\ CorpusRight(mem')
    BY <1>1, <1>2 DEF Pending, Corpora, Process
  <1>4. CASE p = "poller"
    <2> DEFINE m == pend["poller"]
    <2>1. IssueMutation(m) /\ (m.gone => disk.issues[m.num].known)
      BY <1>1, <1>4 DEF Corpora, Pending, GoneIsKnown
    <2>2. CorpusRight(disk') /\ \A i \in Issue : disk'.issues[i].known <=> i = m.num \/ disk.issues[i].known
      BY <1>1, <1>4, <2>1, ProcessIssueKeeps DEF Corpora
    <2>3. pend'["poller"] = None
      BY <1>2, <1>4
    <2>4. \A i \in Issue : mem.issues[i].known => disk'.issues[i].known
      BY <2>2 DEF Corpora, LogLags
    <2>5. LogLags' /\ GoneIsKnown'
      BY <1>1, <2>3, <2>4 DEF LogLags, GoneIsKnown
    <2> QED BY <1>3, <2>2, <2>5 DEF Corpora
  <1>5. CASE p \in List
    <2>1. CorpusRight(disk') /\ disk'.issues = disk.issues
      BY <1>1, <1>5, ProcessNamesKeeps DEF Corpora, Pending
    <2>2. pend'["poller"] = pend["poller"]
      BY <1>2, <1>5 DEF Process, List
    <2>3. LogLags' /\ GoneIsKnown'
      BY <1>1, <2>1, <2>2 DEF LogLags, GoneIsKnown, Corpora
    <2> QED BY <1>3, <2>1, <2>3 DEF Corpora
  <1> QED BY <1>4, <1>5 DEF Process

-----------------------------------------------------------------------------
\* The tasks that the poller's steps leave.
LEMMA TaskOf ==
  ASSUME NEW S \in SUBSET Issue, \A i \in S : mem'.issues[i].known,
         task' = [NoTask EXCEPT !.todo = S]
  PROVE  TaskRight'
  <1>1. task' = [todo |-> S, page |-> 0, since |-> 0, got |-> {}]
    BY DEF NoTask
  <1>2. task'.todo = S /\ task'.page = 0 /\ task'.since = 0 /\ task'.got = {} /\ IsFiniteSet({})
    BY <1>1, FS_EmptySet
  <1>3. task' = [todo |-> task'.todo, page |-> task'.page, since |-> task'.since, got |-> task'.got]
    BY <1>1, <1>2
  <1> QED BY <1>2, <1>3 DEF TaskRight

LEMMA NoTaskKeeps ==
  ASSUME task' = NoTask
  PROVE  TaskRight'
  BY FS_EmptySet DEF NoTask, TaskRight

LEMMA NoPassKeeps ==
  ASSUME pass' = NoPass
  PROVE  PassRight'
  BY DEF NoPass, PassRight, Nothing

LEMMA PhasesAre ==
  DOMAIN Following = {"page", "issues", "comments", "events", "reviews", "details"}
  BY DEF Following

LEMMA GoOnKeeps ==
  ASSUME Corpora, phase \in DOMAIN Following, GoOn, mem' = mem
  PROVE  phase' \in DOMAIN Following \union {"idle", "lists"} /\ TaskRight'
  <1>1. phase' = Following[phase] /\ phase' \in DOMAIN Following \union {"idle", "lists"}
    BY DEF GoOn, Following
  <1>2. CASE phase' \in Facet
    <2>1. task' = [NoTask EXCEPT !.todo = Stale(phase')]
      BY <1>1, <1>2 DEF GoOn
    <2>2. Stale(phase') \in SUBSET Issue /\ \A i \in Stale(phase') : mem.issues[i].known
      BY DEF Stale
    <2>3. \A i \in Stale(phase') : mem'.issues[i].known
      BY <2>2
    <2>4. TaskRight'
      BY <2>1, <2>2, <2>3, TaskOf
    <2> QED BY <1>1, <2>4
  <1>3. CASE phase' \notin Facet
    BY <1>1, <1>3, NoTaskKeeps DEF GoOn
  <1> QED BY <1>1, <1>2, <1>3

\* Done with an issue; the others of the facet stay known.
LEMMA DoneKeeps ==
  ASSUME TaskRight, task' = Done, \A i \in Issue : mem.issues[i].known => mem'.issues[i].known
  PROVE  TaskRight'
  <1>1. task.todo \ {Num} \in SUBSET Issue
    BY DEF TaskRight
  <1>2. \A i \in task.todo \ {Num} : mem'.issues[i].known
    BY DEF TaskRight
  <1>3. task' = [NoTask EXCEPT !.todo = task.todo \ {Num}]
    BY DEF Done
  <1> QED BY <1>1, <1>2, <1>3, TaskOf

\* The issues of a facet stay known when nothing is forgotten.
LEMMA TaskStays ==
  ASSUME TaskRight, task' = task, \A i \in Issue : mem.issues[i].known => mem'.issues[i].known
  PROVE  TaskRight'
  BY DEF TaskRight

LEMMA PassStays == PassRight /\ pass' = pass => PassRight'
  BY DEF PassRight

LEMMA ListsStay == ListsRight /\ UNCHANGED <<lists, cached>> => ListsRight'
  BY DEF ListsRight

LEMMA WorldStays == World /\ UNCHANGED upstream /\ faults' \in Nat => World'
  BY DEF World, upstream

LEMMA NoListsAre ==
  NoLists \in [List -> [page : {0} \union Entry, got : [Entry -> Nat], failed : BOOLEAN]]
  BY DEF NoLists, NoNames

LEMMA BeginCycleKeeps ==
  ASSUME IInv, BeginCycle
  PROVE  IInv'
  <1>1. World' /\ Corpora'
    BY WorldStays, CorporaStay DEF IInv, World, BeginCycle
  <1>2. PassRight' /\ TaskRight' /\ ListsRight'
    BY NoPassKeeps, TaskStays, ListsStay DEF IInv, Cycle, BeginCycle
  <1>3. phase' \in DOMAIN Following
    BY PhasesAre DEF BeginCycle
  <1> QED BY <1>1, <1>2, <1>3 DEF IInv, Cycle

LEMMA ListIssuesKeeps ==
  ASSUME IInv, ListIssues
  PROVE  IInv'
  <1> DEFINE rest == After(pass.cursor)
             page == {i \in rest : Cardinality({j \in rest : Above(j, i)}) < IssuesPerPage}
             last == CHOOSE i \in page : \A j \in page \ {i} : Above(j, i)
             cursor == IF page = rest THEN Top ELSE <<up[last].fields.updated, last>>
  <1>1. World' /\ Corpora'
    BY WorldStays, CorporaStay DEF IInv, World, ListIssues
  <1>2. ListsRight' /\ mem' = mem /\ phase \in DOMAIN Following
    BY ListsStay, PhasesAre DEF IInv, Cycle, ListIssues, At
  <1>3. CASE page = {}
    <2>1. GoOn /\ pass' = NoPass
      BY <1>3 DEF ListIssues
    <2>2. phase' \in DOMAIN Following \union {"idle", "lists"} /\ TaskRight'
      BY <1>2, <2>1, GoOnKeeps DEF IInv
    <2>3. PassRight'
      BY <2>1, NoPassKeeps
    <2> QED BY <1>1, <1>2, <2>2, <2>3 DEF IInv, Cycle
  <1>4. CASE page # {}
    <2>1. /\ phase' = "page" /\ task' = task
          /\ pass' = [pass EXCEPT !.page = [i \in page |-> up[i]], !.cursor = cursor,
                                  !.changes = 0, !.listed = FALSE]
      BY <1>4 DEF ListIssues
    <2>2. page \subseteq Issue /\ \A i \in page : up[i] \in UpIssue
      BY DEF After, IInv, World
    <2>3. PassRight
      BY DEF IInv, Cycle
    <2> HIDE DEF page, cursor
    <2> DEFINE issues == [i \in page |-> up[i]]
               c1 == [pass EXCEPT !.page = issues]
               c2 == [c1 EXCEPT !.cursor = cursor]
               c3 == [c2 EXCEPT !.changes = 0]
    <2>4. pass' = [c3 EXCEPT !.listed = FALSE]
      BY <2>1
    <2>5. DOMAIN issues = page /\ \A i \in page : issues[i] = up[i]
      OBVIOUS
    <2> HIDE DEF issues
    <2>6. c1 = [cursor |-> pass.cursor, seen |-> pass.seen, page |-> issues,
                changes |-> pass.changes, listed |-> pass.listed]
      BY <2>3 DEF PassRight
    <2> HIDE DEF c1
    <2>7. c2 = [cursor |-> cursor, seen |-> pass.seen, page |-> issues,
                changes |-> pass.changes, listed |-> pass.listed]
      BY <2>6
    <2> HIDE DEF c2
    <2>8. c3 = [cursor |-> cursor, seen |-> pass.seen, page |-> issues,
                changes |-> 0, listed |-> pass.listed]
      BY <2>7
    <2> HIDE DEF c3
    <2>9. pass' = [cursor |-> cursor, seen |-> pass.seen, page |-> issues,
                   changes |-> 0, listed |-> FALSE]
      BY <2>4, <2>8
    <2>10. pass'.page = issues /\ pass'.seen = pass.seen /\ pass'.changes = 0
           /\ pass' = [cursor |-> pass'.cursor, seen |-> pass'.seen, page |-> pass'.page,
                       changes |-> pass'.changes, listed |-> pass'.listed]
      BY <2>9
    <2>11. PassRight'
      BY <2>2, <2>3, <2>5, <2>10 DEF PassRight
    <2>12. TaskRight' /\ phase' \in DOMAIN Following
      BY <1>2, <2>1, TaskStays, PhasesAre DEF IInv, Cycle
    <2> QED BY <1>1, <1>2, <2>11, <2>12 DEF IInv, Cycle
  <1> QED BY <1>3, <1>4

\* An issue is taken from the page.
LEMMA TakenIsRight ==
  ASSUME PassRight, DOMAIN pass.page # {}
  PROVE  /\ Taken.page = [i \in DOMAIN pass.page \ {Item} |-> pass.page[i]]
         /\ Taken.seen = pass.seen \union {Item} /\ Taken.changes = pass.changes
         /\ Taken.seen \subseteq Issue
         /\ Taken = [cursor |-> pass.cursor, seen |-> Taken.seen, page |-> Taken.page,
                     changes |-> Taken.changes, listed |-> pass.listed]
  <1> DEFINE rest == [i \in DOMAIN pass.page \ {Item} |-> pass.page[i]]
             c == [pass EXCEPT !.page = rest]
             seen == pass.seen \union {Item}
  <1>1. Item \in Issue
    BY ItemIsThere
  <1>2. Taken = [c EXCEPT !.seen = @ \union {Item}]
    BY DEF Taken
  <1> HIDE DEF rest
  <1>3. c = [cursor |-> pass.cursor, seen |-> pass.seen, page |-> rest,
             changes |-> pass.changes, listed |-> pass.listed]
    BY DEF PassRight
  <1> HIDE DEF c
  <1>4. Taken = [cursor |-> pass.cursor, seen |-> seen, page |-> rest,
                 changes |-> pass.changes, listed |-> pass.listed]
    BY <1>2, <1>3
  <1>5. Taken.page = rest /\ Taken.seen = seen /\ Taken.changes = pass.changes
        /\ Taken = [cursor |-> pass.cursor, seen |-> Taken.seen, page |-> Taken.page,
                    changes |-> Taken.changes, listed |-> pass.listed]
    BY <1>4
  <1>6. seen \subseteq Issue
    BY <1>1 DEF PassRight
  <1> QED BY <1>5, <1>6 DEF rest

LEMMA SkipIssueKeeps ==
  ASSUME IInv, SkipIssue
  PROVE  IInv'
  <1>1. World' /\ Corpora'
    BY WorldStays, CorporaStay DEF IInv, World, SkipIssue
  <1>2. TaskRight' /\ ListsRight' /\ phase' \in DOMAIN Following \union {"idle", "lists"}
    BY TaskStays, ListsStay DEF IInv, Cycle, SkipIssue
  <1>3. PassRight
    BY DEF IInv, Cycle
  <1>4. /\ Taken.page = [i \in DOMAIN pass.page \ {Item} |-> pass.page[i]]
        /\ Taken.seen \subseteq Issue /\ Taken.changes = pass.changes
        /\ Taken = [cursor |-> pass.cursor, seen |-> Taken.seen, page |-> Taken.page,
                    changes |-> Taken.changes, listed |-> pass.listed]
    BY <1>3, TakenIsRight DEF SkipIssue, OnPage
  <1>5. pass' = Taken
    BY DEF SkipIssue
  <1>6. DOMAIN Taken.page \subseteq Issue /\ \A i \in DOMAIN Taken.page : Taken.page[i] \in UpIssue
    BY <1>3, <1>4 DEF PassRight
  <1>7. pass' = [cursor |-> pass'.cursor, seen |-> pass'.seen, page |-> pass'.page,
                 changes |-> pass'.changes, listed |-> pass'.listed]
    BY <1>4, <1>5
  <1>8. PassRight'
    BY <1>3, <1>4, <1>5, <1>6, <1>7 DEF PassRight
  <1> QED BY <1>1, <1>2, <1>8 DEF IInv, Cycle

LEMMA StartListsKeeps ==
  ASSUME IInv, StartLists
  PROVE  IInv'
  <1>1. World' /\ Corpora'
    BY WorldStays, CorporaStay DEF IInv, World, StartLists
  <1>2. TaskRight' /\ phase' = "lists"
    BY TaskStays DEF IInv, Cycle, StartLists
  <1>3. PassRight'
    <2>1. PassRight /\ pass' = [pass EXCEPT !.listed = TRUE]
      BY DEF IInv, Cycle, StartLists
    <2>2. pass' = [cursor |-> pass.cursor, seen |-> pass.seen, page |-> pass.page,
                   changes |-> pass.changes, listed |-> TRUE]
      BY <2>1 DEF PassRight
    <2>3. pass'.page = pass.page /\ pass'.seen = pass.seen /\ pass'.changes = pass.changes
          /\ pass' = [cursor |-> pass'.cursor, seen |-> pass'.seen, page |-> pass'.page,
                      changes |-> pass'.changes, listed |-> pass'.listed]
      BY <2>2
    <2> QED BY <2>1, <2>3 DEF PassRight
  <1>4. ListsRight'
    <2>1. 1 \in Entry /\ NoNames \in [Entry -> Nat]
      BY GitHubAssumption DEF Entry, NoNames
    <2>2. \A l \in List : [NoLists[l] EXCEPT !.page = 1] = [page |-> 1, got |-> NoNames, failed |-> FALSE]
      <3>1. ASSUME NEW failed, NEW r, r = [page |-> 0, got |-> NoNames, failed |-> failed]
            PROVE  [r EXCEPT !.page = 1] = [page |-> 1, got |-> NoNames, failed |-> failed]
        BY <3>1
      <3>2. \A l \in List : NoLists[l] = [page |-> 0, got |-> NoNames, failed |-> FALSE]
        BY DEF NoLists
      <3> QED BY <3>1, <3>2
    <2> DEFINE first == [page |-> 1, got |-> NoNames, failed |-> FALSE]
    <2>3. first \in [page : {0} \union Entry, got : [Entry -> Nat], failed : BOOLEAN]
      BY <2>1
    <2>4. lists' = [l \in List |-> [NoLists[l] EXCEPT !.page = 1]] /\ cached' = cached
      BY DEF StartLists
    <2> HIDE DEF first
    <2>5. lists' = [l \in List |-> first]
      BY <2>2, <2>4 DEF first
    <2>6. cached \in [List -> Nat]
      BY DEF IInv, Cycle, ListsRight
    <2> QED BY <2>3, <2>4, <2>5, <2>6 DEF ListsRight
  <1> QED BY <1>1, <1>2, <1>3, <1>4 DEF IInv, Cycle

LEMMA EndOfPageKeeps ==
  ASSUME IInv, EndOfPage
  PROVE  IInv'
  <1>1. World' /\ Corpora'
    BY WorldStays, CorporaStay DEF IInv, World, EndOfPage
  <1>2. ListsRight' /\ mem' = mem /\ phase \in DOMAIN Following
    BY ListsStay, PhasesAre DEF IInv, Cycle, EndOfPage, At
  <1>3. CASE pass.changes = 0
    <2>1. GoOn /\ pass' = NoPass
      BY <1>3 DEF EndOfPage, PageIsLast
    <2>2. phase' \in DOMAIN Following \union {"idle", "lists"} /\ TaskRight'
      BY <1>2, <2>1, GoOnKeeps DEF IInv
    <2>3. PassRight'
      BY <2>1, NoPassKeeps
    <2> QED BY <1>1, <1>2, <2>2, <2>3 DEF IInv, Cycle
  <1>4. CASE pass.changes # 0
    <2>1. phase' = "issues" /\ UNCHANGED <<pass, task>>
      BY <1>4 DEF EndOfPage, PageIsLast
    <2>2. PassRight' /\ TaskRight' /\ phase' \in DOMAIN Following
      BY <1>2, <2>1, PassStays, TaskStays, PhasesAre DEF IInv, Cycle
    <2> QED BY <1>1, <1>2, <2>2 DEF IInv, Cycle
  <1> QED BY <1>3, <1>4

LEMMA EndOfFacetKeeps ==
  ASSUME IInv, EndOfFacet
  PROVE  IInv'
  <1>1. World' /\ Corpora'
    BY WorldStays, CorporaStay DEF IInv, World, EndOfFacet
  <1>2. ListsRight' /\ PassRight' /\ mem' = mem /\ phase \in DOMAIN Following
    BY ListsStay, PassStays, PhasesAre DEF IInv, Cycle, EndOfFacet, Facet, Feed
  <1>3. CASE phase # "details" /\ Stale(phase) # {}
    <2>1. task' = [NoTask EXCEPT !.todo = Stale(phase)] /\ phase' = phase
      BY <1>3 DEF EndOfFacet
    <2>2. Stale(phase) \in SUBSET Issue /\ \A i \in Stale(phase) : mem'.issues[i].known
      BY <1>2 DEF Stale
    <2>3. TaskRight'
      BY <2>1, <2>2, TaskOf
    <2> QED BY <1>1, <1>2, <2>1, <2>3 DEF IInv, Cycle
  <1>4. CASE GoOn
    <2>1. phase' \in DOMAIN Following \union {"idle", "lists"} /\ TaskRight'
      BY <1>2, <1>4, GoOnKeeps DEF IInv
    <2> QED BY <1>1, <1>2, <2>1 DEF IInv, Cycle
  <1> QED BY <1>3, <1>4 DEF EndOfFacet

\* A mutation that says nothing yet but of which issue it is, and with more of what it
\* may set.
LEMMA MutationIs ==
  ASSUME NEW i \in Issue
  PROVE  IssueMutation(Mutation(i)) /\ Mutation(i).num = i /\ ~ Mutation(i).gone
  <1>1. DOMAIN Nothing = {}
    BY DEF Nothing
  <1> HIDE DEF Nothing
  <1> QED BY <1>1 DEF Mutation, IssueMutation, Setting

LEMMA WithPr ==
  ASSUME NEW m, IssueMutation(m), NEW v \in BOOLEAN
  PROVE  LET d == [m EXCEPT !.pr = v] IN IssueMutation(d) /\ d.num = m.num /\ d.gone = m.gone
  <1> DEFINE d == [m EXCEPT !.pr = v]
  <1>1. d = [num |-> m.num, gone |-> m.gone, pr |-> v, set |-> m.set, add |-> m.add,
             remove |-> m.remove, comments |-> m.comments, feed |-> m.feed, asOf |-> m.asOf]
    BY DEF IssueMutation
  <1> HIDE DEF d
  <1>2. IssueMutation(d) /\ d.num = m.num /\ d.gone = m.gone
    BY <1>1 DEF IssueMutation
  <1> QED BY <1>2 DEF d

LEMMA WithSet ==
  ASSUME NEW m, IssueMutation(m), NEW v, Setting(v)
  PROVE  LET d == [m EXCEPT !.set = v] IN IssueMutation(d) /\ d.num = m.num /\ d.gone = m.gone
  <1> DEFINE d == [m EXCEPT !.set = v]
  <1>1. d = [num |-> m.num, gone |-> m.gone, pr |-> m.pr, set |-> v, add |-> m.add,
             remove |-> m.remove, comments |-> m.comments, feed |-> m.feed, asOf |-> m.asOf]
    BY DEF IssueMutation
  <1> HIDE DEF d
  <1>2. IssueMutation(d) /\ d.num = m.num /\ d.gone = m.gone
    BY <1>1 DEF IssueMutation
  <1> QED BY <1>2 DEF d

LEMMA WithAdd ==
  ASSUME NEW m, IssueMutation(m), NEW v \in SUBSET Label
  PROVE  LET d == [m EXCEPT !.add = v] IN IssueMutation(d) /\ d.num = m.num /\ d.gone = m.gone
  <1> DEFINE d == [m EXCEPT !.add = v]
  <1>1. d = [num |-> m.num, gone |-> m.gone, pr |-> m.pr, set |-> m.set, add |-> v,
             remove |-> m.remove, comments |-> m.comments, feed |-> m.feed, asOf |-> m.asOf]
    BY DEF IssueMutation
  <1> HIDE DEF d
  <1>2. IssueMutation(d) /\ d.num = m.num /\ d.gone = m.gone
    BY <1>1 DEF IssueMutation
  <1> QED BY <1>2 DEF d

LEMMA WithRemove ==
  ASSUME NEW m, IssueMutation(m), NEW v
  PROVE  LET d == [m EXCEPT !.remove = v] IN IssueMutation(d) /\ d.num = m.num /\ d.gone = m.gone
  <1> DEFINE d == [m EXCEPT !.remove = v]
  <1>1. d = [num |-> m.num, gone |-> m.gone, pr |-> m.pr, set |-> m.set, add |-> m.add,
             remove |-> v, comments |-> m.comments, feed |-> m.feed, asOf |-> m.asOf]
    BY DEF IssueMutation
  <1> HIDE DEF d
  <1>2. IssueMutation(d) /\ d.num = m.num /\ d.gone = m.gone
    BY <1>1 DEF IssueMutation
  <1> QED BY <1>2 DEF d

LEMMA WithComments ==
  ASSUME NEW m, IssueMutation(m), NEW v, \A c \in DOMAIN v : v[c] \in Text
  PROVE  LET d == [m EXCEPT !.comments = v] IN IssueMutation(d) /\ d.num = m.num /\ d.gone = m.gone
  <1> DEFINE d == [m EXCEPT !.comments = v]
  <1>1. d = [num |-> m.num, gone |-> m.gone, pr |-> m.pr, set |-> m.set, add |-> m.add,
             remove |-> m.remove, comments |-> v, feed |-> m.feed, asOf |-> m.asOf]
    BY DEF IssueMutation
  <1> HIDE DEF d
  <1>2. IssueMutation(d) /\ d.num = m.num /\ d.gone = m.gone
    BY <1>1 DEF IssueMutation
  <1> QED BY <1>2 DEF d

LEMMA WithFeed ==
  ASSUME NEW m, IssueMutation(m), NEW v,
         \A f \in DOMAIN v : v[f] \subseteq Nat /\ IsFiniteSet(v[f])
  PROVE  LET d == [m EXCEPT !.feed = v] IN IssueMutation(d) /\ d.num = m.num /\ d.gone = m.gone
  <1> DEFINE d == [m EXCEPT !.feed = v]
  <1>1. d = [num |-> m.num, gone |-> m.gone, pr |-> m.pr, set |-> m.set, add |-> m.add,
             remove |-> m.remove, comments |-> m.comments, feed |-> v, asOf |-> m.asOf]
    BY DEF IssueMutation
  <1> HIDE DEF d
  <1>2. IssueMutation(d) /\ d.num = m.num /\ d.gone = m.gone
    BY <1>1 DEF IssueMutation
  <1> QED BY <1>2 DEF d

LEMMA WithAsOf ==
  ASSUME NEW m, IssueMutation(m), NEW v, \A f \in DOMAIN v : v[f] \in Nat
  PROVE  LET d == [m EXCEPT !.asOf = v] IN IssueMutation(d) /\ d.num = m.num /\ d.gone = m.gone
  <1> DEFINE d == [m EXCEPT !.asOf = v]
  <1>1. d = [num |-> m.num, gone |-> m.gone, pr |-> m.pr, set |-> m.set, add |-> m.add,
             remove |-> m.remove, comments |-> m.comments, feed |-> m.feed, asOf |-> v]
    BY DEF IssueMutation
  <1> HIDE DEF d
  <1>2. IssueMutation(d) /\ d.num = m.num /\ d.gone = m.gone
    BY <1>1 DEF IssueMutation
  <1> QED BY <1>2 DEF d

LEMMA DiffIs ==
  ASSUME NEW i \in Issue, NEW gi, NEW is \in UpIssue
  PROVE  IssueMutation(Diff(i, gi, is)) /\ ~ Diff(i, gi, is).gone
  <1> DEFINE set == [f \in Differing(gi, is) |-> is.fields[f]]
             add == NewLabels(gi, is)
             remove == DeletedLabels(gi, is)
             pr == i \in PR
             c1 == [Mutation(i) EXCEPT !.pr = pr]
             c2 == [c1 EXCEPT !.set = set]
             c3 == [c2 EXCEPT !.add = add]
             c4 == [c3 EXCEPT !.remove = remove]
  <1>1. Diff(i, gi, is) = c4
    BY DEF Diff
  <1>2. Setting(set)
    <2>1. is.fields \in Fields
      BY DEF UpIssue
    <2>2. DOMAIN set = Differing(gi, is) /\ \A f \in Differing(gi, is) : set[f] = is.fields[f]
      OBVIOUS
    <2> HIDE DEF set
    <2> QED BY <2>1, <2>2 DEF Fields, Setting
  <1>3. add \in SUBSET Label /\ pr \in BOOLEAN
    BY DEF NewLabels, UpIssue
  <1> HIDE DEF set, add, remove, pr, c1, c2, c3, c4
  <1>4. IssueMutation(c1) /\ ~ c1.gone
    BY <1>3, MutationIs, WithPr DEF c1
  <1>5. IssueMutation(c2) /\ ~ c2.gone
    BY <1>2, <1>4, WithSet DEF c2
  <1>6. IssueMutation(c3) /\ ~ c3.gone
    BY <1>3, <1>5, WithAdd DEF c3
  <1>7. IssueMutation(c4) /\ ~ c4.gone
    BY <1>6, WithRemove DEF c4
  <1> QED BY <1>1, <1>7

LEMMA ChangeIssueKeeps ==
  ASSUME IInv, ChangeIssue
  PROVE  IInv'
  <1> DEFINE m == Diff(Item, mem.issues[Item], pass.page[Item])
  <1>1. PassRight /\ Corpora /\ DOMAIN pass.page # {} /\ pend["poller"] = None
    BY DEF IInv, Cycle, ChangeIssue, OnPage, At
  <1>2. Item \in Issue /\ pass.page[Item] \in UpIssue
    BY <1>1, ItemIsThere
  <1>3. IssueMutation(m) /\ ~ m.gone
    BY <1>2, DiffIs
  <1>4. AddMutation("poller", m) /\ disk' = disk
    BY DEF ChangeIssue
  <1> HIDE DEF m
  <1>5. Corpora' /\ \A i \in Issue : mem.issues[i].known => mem'.issues[i].known
    BY <1>1, <1>3, <1>4, PollerAdds
  <1>6. World' /\ TaskRight' /\ ListsRight' /\ phase' = phase
    BY <1>5, WorldStays, TaskStays, ListsStay DEF IInv, World, Cycle, ChangeIssue
  <1>7. /\ Taken.page = [i \in DOMAIN pass.page \ {Item} |-> pass.page[i]]
        /\ Taken.seen \subseteq Issue /\ Taken.changes = pass.changes
        /\ Taken = [cursor |-> pass.cursor, seen |-> Taken.seen, page |-> Taken.page,
                    changes |-> Taken.changes, listed |-> pass.listed]
    BY <1>1, TakenIsRight
  <1>8. pass' = [Taken EXCEPT !.changes = @ + 1]
    BY DEF ChangeIssue
  <1>9. DOMAIN Taken.page \subseteq Issue /\ \A i \in DOMAIN Taken.page : Taken.page[i] \in UpIssue
    BY <1>1, <1>7 DEF PassRight
  <1>10. pass' = [cursor |-> pass.cursor, seen |-> Taken.seen, page |-> Taken.page,
                  changes |-> pass.changes + 1, listed |-> pass.listed]
    BY <1>7, <1>8
  <1>11. pass'.seen = Taken.seen /\ pass'.page = Taken.page /\ pass'.changes = pass.changes + 1
         /\ pass' = [cursor |-> pass'.cursor, seen |-> pass'.seen, page |-> pass'.page,
                     changes |-> pass'.changes, listed |-> pass'.listed]
    BY <1>10
  <1>12. PassRight'
    BY <1>1, <1>7, <1>9, <1>11 DEF PassRight
  <1> QED BY <1>5, <1>6, <1>12 DEF IInv, Cycle

-----------------------------------------------------------------------------
LEMMA GetNamesKeeps ==
  ASSUME IInv, NEW l \in List, GetNames(l)
  PROVE  IInv'
  <1> DEFINE e == lists[l].page
             name == upNames[l][e]
             got == IF name = mem.names[l][e] THEN lists[l].got
                    ELSE [lists[l].got EXCEPT ![e] = name]
  <1>1. Corpora /\ ListsRight /\ lists[l] \in [page : {0} \union Entry, got : [Entry -> Nat],
                                               failed : BOOLEAN]
    BY DEF IInv, Cycle, ListsRight
  <1>2. e \in Entry
    BY <1>1 DEF GetNames, Listing, Entry
  <1>3. name \in Nat /\ got \in [Entry -> Nat]
    BY <1>1, <1>2 DEF IInv, World
  <1>4. World'
    BY WorldStays DEF IInv, World, GetNames
  <1>5. disk' = disk /\ UNCHANGED <<phase, pass, task>>
    BY DEF GetNames
  <1>6. cached' \in [List -> Nat]
    <2> HIDE DEF name, e
    <2> QED BY <1>1, <1>3 DEF GetNames, ListsRight, e, name
  <1>7. lists' \in [List -> [page : {0} \union Entry, got : [Entry -> Nat], failed : BOOLEAN]]
    <2>1. CASE lists' = [lists EXCEPT ![l].page = 0]
      BY <1>1, <2>1 DEF ListsRight
    <2>2. CASE MorePages(e) /\ lists' = [lists EXCEPT ![l].page = e + 1, ![l].got = got]
      <3> DEFINE c == [lists EXCEPT ![l].page = e + 1]
      <3>1. c \in [List -> [page : {0} \union Entry, got : [Entry -> Nat], failed : BOOLEAN]]
        BY <1>1, <2>2 DEF ListsRight, MorePages
      <3>2. lists' = [c EXCEPT ![l].got = got]
        BY <2>2
      <3> HIDE DEF c, got
      <3> QED BY <1>3, <3>1, <3>2
    <2> QED BY <2>1, <2>2 DEF GetNames
  <1>8. Corpora' /\ \A i \in Issue : mem.issues[i].known => mem'.issues[i].known
    <2>1. CASE UNCHANGED <<mem, pend>>
      BY <1>1, <1>5, <2>1, CorporaStay
    <2>2. CASE AddMutation(l, NamesMutation(l, got))
      <3>1. ListMutation(NamesMutation(l, got))
        BY <1>3 DEF ListMutation, NamesMutation
      <3>2. Corpora' /\ mem'.issues = mem.issues
        BY <1>1, <1>5, <2>2, <3>1, ListAdds
      <3> QED BY <3>2
    <2> QED BY <2>1, <2>2 DEF GetNames
  <1>9. PassRight' /\ TaskRight' /\ ListsRight' /\ phase' = phase
    BY <1>5, <1>6, <1>7, <1>8, PassStays, TaskStays DEF IInv, Cycle, ListsRight
  <1> QED BY <1>4, <1>8, <1>9 DEF IInv, Cycle

LEMMA ListsDoneKeeps ==
  ASSUME IInv, ListsDone
  PROVE  IInv'
  <1>1. World' /\ Corpora'
    BY WorldStays, CorporaStay DEF IInv, World, ListsDone
  <1>2. TaskRight' /\ ListsRight'
    BY TaskStays, NoListsAre DEF IInv, Cycle, ListsRight, ListsDone
  <1>3. phase' \in DOMAIN Following \union {"idle", "lists"} /\ PassRight'
    BY PhasesAre, PassStays, NoPassKeeps DEF IInv, Cycle, ListsDone
  <1> QED BY <1>1, <1>2, <1>3 DEF IInv, Cycle

LEMMA GoneKeeps ==
  ASSUME IInv, NEW f, Gone(f)
  PROVE  IInv'
  <1> DEFINE m == GoneMutation(Num)
  <1>1. Corpora /\ TaskRight /\ Working(f) /\ pend["poller"] = None
    BY DEF IInv, Cycle, Gone, Working, At
  <1>2. Num \in Issue /\ mem.issues[Num].known
    BY <1>1, NumIsThere
  <1>3. ASSUME NEW k, IssueMutation(k), NEW v \in BOOLEAN
        PROVE  IssueMutation([k EXCEPT !.gone = v]) /\ [k EXCEPT !.gone = v].num = k.num
    <2> DEFINE d == [k EXCEPT !.gone = v]
    <2>1. d = [num |-> k.num, gone |-> v, pr |-> k.pr, set |-> k.set, add |-> k.add,
               remove |-> k.remove, comments |-> k.comments, feed |-> k.feed, asOf |-> k.asOf]
      BY <1>3 DEF IssueMutation
    <2> HIDE DEF d
    <2>2. IssueMutation(d) /\ d.num = k.num
      BY <1>3, <2>1 DEF IssueMutation
    <2> QED BY <2>2 DEF d
  <1>4. IssueMutation(m) /\ m.num = Num
    BY <1>2, <1>3, MutationIs DEF GoneMutation
  <1>5. AddMutation("poller", m) /\ disk' = disk /\ task' = Done
    BY DEF Gone
  <1> HIDE DEF m
  <1>6. Corpora' /\ \A i \in Issue : mem.issues[i].known => mem'.issues[i].known
    BY <1>1, <1>2, <1>4, <1>5, PollerAdds
  <1>7. TaskRight'
    BY <1>1, <1>5, <1>6, DoneKeeps
  <1>8. World' /\ PassRight' /\ ListsRight' /\ phase' = phase
    BY WorldStays, PassStays, ListsStay DEF IInv, World, Cycle, Gone
  <1> QED BY <1>6, <1>7, <1>8 DEF IInv, Cycle

LEMMA SyncDetailsKeeps ==
  ASSUME IInv, SyncDetails
  PROVE  IInv'
  <1> DEFINE differing == {f \in {"draft", "details"} :
                             up[Num].fields[f] # mem.issues[Num].fields[f]}
             set == [f \in differing |-> up[Num].fields[f]]
             asOf == [x \in {"details"} |-> now]
             m == [Mutation(Num) EXCEPT !.pr = TRUE, !.set = set, !.asOf = asOf]
  <1>1. Corpora /\ TaskRight /\ Working("details") /\ pend["poller"] = None
    BY DEF IInv, Cycle, SyncDetails, Working, At
  <1>2. Num \in Issue
    BY <1>1, NumIsThere
  <1>3. Setting(set)
    <2>1. up[Num].fields \in Fields
      BY <1>2 DEF IInv, World, UpIssue
    <2>2. DOMAIN set = differing /\ \A f \in differing : set[f] = up[Num].fields[f]
      OBVIOUS
    <2> HIDE DEF set
    <2> QED BY <2>1, <2>2 DEF Fields, Setting
  <1>4. \A f \in DOMAIN asOf : asOf[f] \in Nat
    BY DEF IInv, World
  <1>5. AddMutation("poller", m) /\ disk' = disk /\ task' = Done
    BY DEF SyncDetails
  <1> HIDE DEF set, asOf
  <1>6. IssueMutation(m) /\ ~ m.gone
    <2> DEFINE c1 == [Mutation(Num) EXCEPT !.pr = TRUE]
               c2 == [c1 EXCEPT !.set = set]
               c3 == [c2 EXCEPT !.asOf = asOf]
    <2>1. m = c3
      OBVIOUS
    <2> HIDE DEF c1, c2, c3, m
    <2>2. IssueMutation(c1) /\ ~ c1.gone
      BY <1>2, MutationIs, WithPr DEF c1
    <2>3. IssueMutation(c2) /\ ~ c2.gone
      BY <1>3, <2>2, WithSet DEF c2
    <2>4. IssueMutation(c3) /\ ~ c3.gone
      BY <1>4, <2>3, WithAsOf DEF c3
    <2> QED BY <2>1, <2>4
  <1> HIDE DEF m
  <1>7. Corpora' /\ \A i \in Issue : mem.issues[i].known => mem'.issues[i].known
    BY <1>1, <1>5, <1>6, PollerAdds
  <1>8. TaskRight'
    BY <1>1, <1>5, <1>7, DoneKeeps
  <1>9. World' /\ PassRight' /\ ListsRight' /\ phase' = phase
    BY WorldStays, PassStays, ListsStay DEF IInv, World, Cycle, SyncDetails
  <1> QED BY <1>7, <1>8, <1>9 DEF IInv, Cycle

LEMMA SyncCommentsKeeps ==
  ASSUME IInv, SyncComments
  PROVE  IInv'
  <1> DEFINE texts == up[Num].comments
             since == IF task.page = 0 THEN Til(mem.issues[Num]) ELSE task.since
             Earlier(c, d) ==
               texts[c].at < texts[d].at \/ (texts[c].at = texts[d].at /\ c < d)
             rest == {c \in Comment : texts[c].at > 0 /\ texts[c].at >= since}
             page == {c \in rest : Cardinality({d \in rest : Earlier(d, c)}) < PerPage}
             new == {c \in page : texts[c] # mem.issues[Num].comments[c]}
             comments == [c \in new |-> texts[c]]
             asOf == IF page = rest THEN [f \in {"comments"} |-> now] ELSE Nothing
             m == [Mutation(Num) EXCEPT !.comments = comments, !.asOf = asOf]
             next == CHOOSE t \in {texts[c].at : c \in page} : \A c \in page : texts[c].at <= t
  <1>1. Corpora /\ TaskRight /\ Working("comments") /\ pend["poller"] = None
    BY DEF IInv, Cycle, SyncComments, Working, At
  <1>2. Num \in Issue
    BY <1>1, NumIsThere
  <1>3. AddMutation("poller", m) /\ disk' = disk
        /\ task' = IF page = rest THEN Done ELSE [task EXCEPT !.page = @ + 1, !.since = next]
    BY DEF SyncComments
  <1>4. \A c \in DOMAIN comments : comments[c] \in Text
    <2>1. texts \in [Comment -> Text]
      BY <1>2 DEF IInv, World, UpIssue
    <2>2. new \subseteq Comment
      OBVIOUS
    <2> HIDE DEF texts, new
    <2> QED BY <2>1, <2>2
  <1>5. \A f \in DOMAIN asOf : asOf[f] \in Nat
    <2>1. CASE page = rest
      BY <2>1 DEF IInv, World
    <2>2. CASE page # rest
      BY <2>2 DEF Nothing
    <2> QED BY <2>1, <2>2
  <1> HIDE DEF comments, asOf, page, rest, next
  <1>6. IssueMutation(m) /\ ~ m.gone
    <2> DEFINE c1 == [Mutation(Num) EXCEPT !.comments = comments]
               c2 == [c1 EXCEPT !.asOf = asOf]
    <2>1. m = c2
      OBVIOUS
    <2> HIDE DEF c1, c2, m
    <2>2. IssueMutation(c1) /\ ~ c1.gone
      BY <1>2, <1>4, MutationIs, WithComments DEF c1
    <2>3. IssueMutation(c2) /\ ~ c2.gone
      BY <1>5, <2>2, WithAsOf DEF c2
    <2> QED BY <2>1, <2>3
  <1> HIDE DEF m
  <1>7. Corpora' /\ \A i \in Issue : mem.issues[i].known => mem'.issues[i].known
    BY <1>1, <1>3, <1>6, PollerAdds
  <1>8. TaskRight'
    <2>1. CASE page = rest
      BY <1>1, <1>3, <1>7, <2>1, DoneKeeps
    <2>2. CASE page # rest
      <3> DEFINE c == [task EXCEPT !.page = @ + 1]
      <3>1. task' = [c EXCEPT !.since = next]
        BY <1>3, <2>2
      <3>2. c = [todo |-> task.todo, page |-> task.page + 1, since |-> task.since, got |-> task.got]
        BY <1>1 DEF TaskRight
      <3> HIDE DEF c
      <3>3. task' = [todo |-> task.todo, page |-> task.page + 1, since |-> next, got |-> task.got]
        BY <3>1, <3>2
      <3>4. task'.todo = task.todo /\ task'.page = task.page + 1 /\ task'.got = task.got
            /\ task' = [todo |-> task'.todo, page |-> task'.page, since |-> task'.since,
                        got |-> task'.got]
        BY <3>3
      <3> QED BY <1>1, <1>7, <3>4 DEF TaskRight
    <2> QED BY <2>1, <2>2
  <1>9. World' /\ PassRight' /\ ListsRight' /\ phase' = phase
    BY WorldStays, PassStays, ListsStay DEF IInv, World, Cycle, SyncComments
  <1> QED BY <1>7, <1>8, <1>9 DEF IInv, Cycle

LEMMA SyncFeedKeeps ==
  ASSUME IInv, NEW f \in Feed, SyncFeed(f)
  PROVE  IInv'
  <1> DEFINE have == mem.issues[Num].feed[f]
             p == IF task.page = 0 THEN 1 + Cardinality(have) \div PerPage ELSE task.page
             got == task.got \union (PageOf(Num, f, p) \ have)
             feed == [x \in {f} |-> got]
             asOf == [x \in {f} |-> now]
             m == [Mutation(Num) EXCEPT !.feed = feed, !.asOf = asOf]
  <1>1. Corpora /\ TaskRight /\ Working(f) /\ pend["poller"] = None
    BY DEF IInv, Cycle, SyncFeed, Working, At
  <1>2. Num \in Issue
    BY <1>1, NumIsThere
  <1>3. disk' = disk
        /\ IF HasNextPage(Num, f, p)
           THEN task' = [task EXCEPT !.page = p + 1, !.got = got] /\ UNCHANGED <<mem, pend>>
           ELSE AddMutation("poller", m) /\ task' = Done
    BY DEF SyncFeed
  <1>4. p \in Nat
    <2>1. IsFiniteSet(have)
      BY <1>1, <1>2 DEF Corpora, CorpusRight
    <2>2. Cardinality(have) \in Nat
      BY <2>1, FS_CardinalityType
    <2>3. PerPage \in Nat \ {0}
      BY GitHubAssumption
    <2> HIDE DEF have
    <2>4. Cardinality(have) \div PerPage \in Nat
      BY <2>2, <2>3
    <2> QED BY <1>1, <2>4 DEF TaskRight
  <1>5. got \subseteq Nat /\ IsFiniteSet(got)
    <2>1. up[Num].feed[f] \in Nat
      BY <1>2 DEF IInv, World, UpIssue
    <2>2. IsFiniteSet(1 .. up[Num].feed[f])
      BY <2>1, FS_Interval
    <2> DEFINE page == PageOf(Num, f, p) \ have
    <2>3. page \subseteq 1 .. up[Num].feed[f]
      BY DEF PageOf
    <2> HIDE DEF page
    <2>4. page \subseteq Nat /\ IsFiniteSet(page)
      <3>1. IsFiniteSet(page)
        BY <2>2, <2>3, FS_Subset
      <3>2. \A k \in 1 .. up[Num].feed[f] : k \in Nat
        BY <2>1
      <3> QED BY <2>3, <3>1, <3>2
    <2>5. IsFiniteSet(task.got \union page)
      BY <1>1, <2>4, FS_Union DEF TaskRight
    <2>6. got = task.got \union page
      BY DEF page
    <2> HIDE DEF got
    <2> QED BY <1>1, <2>4, <2>5, <2>6 DEF TaskRight
  <1>6. \A x \in DOMAIN feed : feed[x] \subseteq Nat /\ IsFiniteSet(feed[x])
    <2> HIDE DEF got
    <2> QED BY <1>5
  <1>7. \A x \in DOMAIN asOf : asOf[x] \in Nat
    BY DEF IInv, World
  <1> HIDE DEF p, got, feed, asOf
  <1>8. IssueMutation(m) /\ ~ m.gone
    <2> DEFINE c1 == [Mutation(Num) EXCEPT !.feed = feed]
               c2 == [c1 EXCEPT !.asOf = asOf]
    <2>1. m = c2
      OBVIOUS
    <2> HIDE DEF c1, c2, m
    <2>2. IssueMutation(c1) /\ ~ c1.gone
      BY <1>2, <1>6, MutationIs, WithFeed DEF c1
    <2>3. IssueMutation(c2) /\ ~ c2.gone
      BY <1>7, <2>2, WithAsOf DEF c2
    <2> QED BY <2>1, <2>3
  <1> HIDE DEF m
  <1>9. Corpora' /\ \A i \in Issue : mem.issues[i].known => mem'.issues[i].known
    <2>1. CASE HasNextPage(Num, f, p)
      BY <1>1, <1>3, <2>1, CorporaStay
    <2>2. CASE ~ HasNextPage(Num, f, p)
      BY <1>1, <1>3, <1>8, <2>2, PollerAdds
    <2> QED BY <2>1, <2>2
  <1>10. TaskRight'
    <2>1. CASE HasNextPage(Num, f, p)
      <3> DEFINE c == [task EXCEPT !.page = p + 1]
      <3>1. task' = [c EXCEPT !.got = got]
        BY <1>3, <2>1
      <3>2. c = [todo |-> task.todo, page |-> p + 1, since |-> task.since, got |-> task.got]
        BY <1>1 DEF TaskRight
      <3> HIDE DEF c
      <3>3. task' = [todo |-> task.todo, page |-> p + 1, since |-> task.since, got |-> got]
        BY <3>1, <3>2
      <3>4. task'.todo = task.todo /\ task'.page = p + 1 /\ task'.got = got
            /\ task' = [todo |-> task'.todo, page |-> task'.page, since |-> task'.since,
                        got |-> task'.got]
        BY <3>3
      <3> QED BY <1>1, <1>4, <1>5, <1>9, <3>4 DEF TaskRight
    <2>2. CASE ~ HasNextPage(Num, f, p)
      BY <1>1, <1>3, <1>9, <2>2, DoneKeeps
    <2> QED BY <2>1, <2>2
  <1>11. World' /\ PassRight' /\ ListsRight' /\ phase' = phase
    BY WorldStays, PassStays, ListsStay DEF IInv, World, Cycle, SyncFeed
  <1> QED BY <1>9, <1>10, <1>11 DEF IInv, Cycle

-----------------------------------------------------------------------------
LEMMA CycleFailsKeeps ==
  ASSUME IInv, CycleFails
  PROVE  IInv'
  <1>1. World' /\ Corpora'
    BY WorldStays, CorporaStay DEF IInv, World, CycleFails
  <1>2. PassRight' /\ TaskRight' /\ ListsRight' /\ phase' = "idle"
    BY NoPassKeeps, NoTaskKeeps, ListsStay DEF IInv, Cycle, CycleFails
  <1> QED BY <1>1, <1>2 DEF IInv, Cycle

LEMMA ListFailsKeeps ==
  ASSUME IInv, NEW l \in List, ListFails(l)
  PROVE  IInv'
  <1>1. World' /\ Corpora'
    BY WorldStays, CorporaStay DEF IInv, World, ListFails
  <1>2. PassRight' /\ TaskRight' /\ phase' = phase
    BY PassStays, TaskStays DEF IInv, Cycle, ListFails
  <1>3. ASSUME NEW v \in BOOLEAN, ListsRight
        PROVE  [lists EXCEPT ![l].failed = v]
                 \in [List -> [page : {0} \union Entry, got : [Entry -> Nat], failed : BOOLEAN]]
    BY <1>3 DEF ListsRight
  <1>4. ListsRight'
    BY <1>3 DEF IInv, Cycle, ListsRight, ListFails
  <1> QED BY <1>1, <1>2, <1>4 DEF IInv, Cycle

LEMMA CrashKeeps ==
  ASSUME IInv, Crash
  PROVE  IInv'
  <1>1. World'
    BY WorldStays DEF IInv, World, Crash
  <1>2. pend' = [p \in Process |-> None] /\ mem' = disk /\ disk' = disk
    BY DEF Crash
  <1>3. \A p \in Process : pend'[p] = None
    BY <1>2
  <1>4. "poller" \in Process /\ List \subseteq Process
    BY DEF Process
  <1>5. Pending' /\ LogLags' /\ GoneIsKnown'
    BY <1>2, <1>3, <1>4 DEF Pending, LogLags, GoneIsKnown
  <1>6. Corpora'
    BY <1>2, <1>5 DEF IInv, Corpora
  <1>7. PassRight' /\ TaskRight' /\ phase' = "idle"
    BY NoPassKeeps, NoTaskKeeps DEF Crash
  <1>8. ListsRight'
    BY NoListsAre DEF Crash, ListsRight
  <1> QED BY <1>1, <1>6, <1>7, <1>8 DEF IInv, Cycle

\* GitHub's steps leave the leader alone.
LEMMA LeaderStays ==
  ASSUME IInv, UNCHANGED <<mem, disk, pend, phase, pass, task, lists, cached>>
  PROVE  Corpora' /\ Cycle'
  BY CorporaStay, PassStays, TaskStays, ListsStay DEF IInv, Cycle

LEMMA TickKeeps ==
  ASSUME IInv, Tick
  PROVE  IInv'
  BY LeaderStays DEF IInv, World, Tick

LEMMA EditKeeps ==
  ASSUME IInv, NEW i \in Issue, NEW is \in UpIssue, Edit(i, is)
  PROVE  IInv'
  BY LeaderStays DEF IInv, World, Edit, Editing

LEMMA TouchedIs ==
  ASSUME IInv, NEW i \in Issue
  PROVE  Touched(i) \in UpIssue /\ up[i] \in UpIssue
  BY DEF Touched, UpIssue, Fields, IInv, World

LEMMA OpenIssueKeeps ==
  ASSUME IInv, NEW i \in Issue, OpenIssue(i)
  PROVE  IInv'
  BY TouchedIs, EditKeeps DEF OpenIssue

\* One more event, or review.
LEMMA FeedGrows ==
  ASSUME NEW is \in UpIssue, NEW f \in Feed
  PROVE  [is EXCEPT !.feed[f] = @ + 1] \in UpIssue
  BY DEF UpIssue

LEMMA CloseOrReopenKeeps ==
  ASSUME IInv, NEW i \in Issue, CloseOrReopen(i)
  PROVE  IInv'
  <1> DEFINE closed == ~ up[i].fields.closed
             at == IF closed THEN now ELSE 0
             t == Touched(i)
             c1 == [t EXCEPT !.fields.closed = closed]
             c2 == [c1 EXCEPT !.fields.closedAt = at]
             c3 == [c2 EXCEPT !.feed["events"] = @ + 1]
  <1>1. Edit(i, c3)
    BY DEF CloseOrReopen
  <1>2. t \in UpIssue /\ closed \in BOOLEAN /\ at \in Nat
    BY TouchedIs DEF IInv, World
  <1> HIDE DEF t, closed, at
  <1>3. c1 \in UpIssue
    BY <1>2 DEF UpIssue, Fields
  <1> HIDE DEF c1
  <1>4. c2 \in UpIssue
    BY <1>2, <1>3 DEF UpIssue, Fields
  <1> HIDE DEF c2
  <1>5. c3 \in UpIssue
    BY <1>4, FeedGrows DEF Feed
  <1> HIDE DEF c3
  <1> QED BY <1>1, <1>5, EditKeeps

LEMMA AddOrRemoveLabelKeeps ==
  ASSUME IInv, NEW i \in Issue, AddOrRemoveLabel(i)
  PROVE  IInv'
  <1>1. PICK l \in Label :
          Edit(i, [Touched(i) EXCEPT !.labels = IF l \in @ THEN @ \ {l} ELSE @ \union {l},
                                     !.feed["events"] = @ + 1])
    BY DEF AddOrRemoveLabel
  <1> DEFINE t == Touched(i)
             labels == IF l \in t.labels THEN t.labels \ {l} ELSE t.labels \union {l}
             c1 == [t EXCEPT !.labels = labels]
             c2 == [c1 EXCEPT !.feed["events"] = @ + 1]
  <1>2. Edit(i, c2)
    BY <1>1
  <1>3. t \in UpIssue
    BY TouchedIs
  <1> HIDE DEF t
  <1>4. labels \subseteq Label
    BY <1>3 DEF UpIssue
  <1> HIDE DEF labels
  <1>5. c1 \in UpIssue
    BY <1>3, <1>4 DEF UpIssue
  <1> HIDE DEF c1
  <1>6. c2 \in UpIssue
    BY <1>5, FeedGrows DEF Feed
  <1> HIDE DEF c2
  <1> QED BY <1>2, <1>6, EditKeeps

LEMMA WriteCommentKeeps ==
  ASSUME IInv, NEW i \in Issue, WriteComment(i)
  PROVE  IInv'
  <1>1. PICK c \in Comment : Edit(i, [Touched(i) EXCEPT !.comments[c] = [at |-> now, body |-> edits + 1]])
    BY DEF WriteComment
  <1>2. Touched(i) \in UpIssue /\ [at |-> now, body |-> edits + 1] \in Text
    BY TouchedIs DEF IInv, World, Text
  <1>3. [Touched(i) EXCEPT !.comments[c] = [at |-> now, body |-> edits + 1]] \in UpIssue
    BY <1>2 DEF UpIssue
  <1> QED BY <1>1, <1>3, EditKeeps

LEMMA WorkOnPRKeeps ==
  ASSUME IInv, NEW i \in Issue, WorkOnPR(i)
  PROVE  IInv'
  <1> DEFINE t == Touched(i)
             c1 == [t EXCEPT !.fields.draft = ~ @]
             c2 == [c1 EXCEPT !.feed["events"] = @ + 1]
             c3 == [t EXCEPT !.fields.details = @ + 1]
             c4 == [t EXCEPT !.feed["reviews"] = @ + 1]
  <1>1. Edit(i, c2) \/ Edit(i, c3) \/ Edit(i, c4)
    BY DEF WorkOnPR
  <1>2. t \in UpIssue
    BY TouchedIs
  <1> HIDE DEF t
  <1>3. c1 \in UpIssue
    BY <1>2 DEF UpIssue, Fields
  <1>4. c3 \in UpIssue
    BY <1>2 DEF UpIssue, Fields
  <1>5. c4 \in UpIssue
    BY <1>2, FeedGrows DEF Feed
  <1> HIDE DEF c1, c3, c4
  <1>6. c2 \in UpIssue
    BY <1>3, FeedGrows DEF Feed
  <1> HIDE DEF c2
  <1> QED BY <1>1, <1>4, <1>5, <1>6, EditKeeps

LEMMA DeleteIssueKeeps ==
  ASSUME IInv, NEW i \in Issue, DeleteIssue(i)
  PROVE  IInv'
  <1>1. up[i] \in UpIssue
    BY TouchedIs
  <1>2. [up[i] EXCEPT !.gone = TRUE] \in UpIssue
    BY <1>1 DEF UpIssue
  <1> QED BY <1>2, EditKeeps DEF DeleteIssue

LEMMA RenameKeeps ==
  ASSUME IInv, Rename
  PROVE  IInv'
  BY LeaderStays DEF IInv, World, Rename, Editing

-----------------------------------------------------------------------------
LEMMA IInvInit == Init => IInv
  <1> SUFFICES ASSUME Init PROVE IInv
    OBVIOUS
  <1>1. World
    BY GitHubAssumption DEF Init, World
  <1>2. CorpusRight(EmptyCorpus)
    <2>1. EmptyCorpus \in Corpus
      BY DEF EmptyCorpus, Corpus, Known, Blank, NoFields, Fields, NoText, Text, NoNames
    <2>2. \A i \in Issue : EmptyCorpus.issues[i] = Blank
      BY DEF EmptyCorpus
    <2>3. ~ Blank.known /\ \A f \in Feed : Blank.feed[f] = {}
      BY DEF Blank
    <2>4. \A b \in Bucket : EmptyCorpus.count[b] = 0 /\ InBucket(EmptyCorpus, b) = {}
      BY <2>2, <2>3 DEF InBucket, EmptyCorpus
    <2> QED BY <2>1, <2>2, <2>3, <2>4, FS_EmptySet DEF CorpusRight
  <1>3. \A p \in Process : pend[p] = None
    BY DEF Init
  <1>4. "poller" \in Process /\ List \subseteq Process
    BY DEF Process
  <1>5. Pending /\ LogLags /\ GoneIsKnown
    BY <1>3, <1>4 DEF Init, Pending, LogLags, GoneIsKnown
  <1>6. Corpora
    BY <1>2, <1>5 DEF Init, Corpora
  <1>7. PassRight
    BY DEF Init, NoPass, PassRight, Nothing
  <1>8. TaskRight
    BY FS_EmptySet DEF Init, NoTask, TaskRight
  <1>9. ListsRight /\ phase = "idle"
    BY NoListsAre DEF Init, ListsRight
  <1> QED BY <1>1, <1>6, <1>7, <1>8, <1>9 DEF IInv, Cycle

LEMMA LogStepKeeps ==
  ASSUME IInv, NEW p \in Process, Log(p)
  PROVE  IInv'
  <1>1. World' /\ Corpora'
    BY WorldStays, LogKeeps DEF IInv, World, Log
  <1>2. PassRight' /\ TaskRight' /\ ListsRight' /\ phase' = phase
    BY PassStays, TaskStays, ListsStay DEF IInv, Cycle, Log
  <1> QED BY <1>1, <1>2 DEF IInv, Cycle

LEMMA IInvNext == IInv /\ [Next]_vars => IInv'
  <1> SUFFICES ASSUME IInv, [Next]_vars PROVE IInv'
    OBVIOUS
  <1>1. CASE Poller
    <2>1. CASE BeginCycle
      BY <2>1, BeginCycleKeeps
    <2>2. CASE ListIssues
      BY <2>2, ListIssuesKeeps
    <2>3. CASE SkipIssue
      BY <2>3, SkipIssueKeeps
    <2>4. CASE StartLists
      BY <2>4, StartListsKeeps
    <2>5. CASE ChangeIssue
      BY <2>5, ChangeIssueKeeps
    <2>6. CASE EndOfPage
      BY <2>6, EndOfPageKeeps
    <2>7. ASSUME NEW l \in List, GetNames(l) PROVE IInv'
      BY <2>7, GetNamesKeeps
    <2>8. CASE ListsDone
      BY <2>8, ListsDoneKeeps
    <2>9. CASE SyncComments
      BY <2>9, SyncCommentsKeeps
    <2>10. CASE SyncEvents \/ SyncReviews
      BY <2>10, SyncFeedKeeps DEF SyncEvents, SyncReviews, Feed
    <2>11. CASE SyncDetails
      BY <2>11, SyncDetailsKeeps
    <2>12. ASSUME NEW f \in Facet, Gone(f) PROVE IInv'
      BY <2>12, GoneKeeps
    <2>13. CASE EndOfFacet
      BY <2>13, EndOfFacetKeeps
    <2>14. ASSUME NEW p \in Process, Log(p) PROVE IInv'
      BY <2>14, LogStepKeeps
    <2> QED BY <1>1, <2>1, <2>2, <2>3, <2>4, <2>5, <2>6, <2>7, <2>8, <2>9, <2>10, <2>11,
               <2>12, <2>13, <2>14 DEF Poller
  <1>2. CASE CycleFails
    BY <1>2, CycleFailsKeeps
  <1>3. CASE Crash
    BY <1>3, CrashKeeps
  <1>4. ASSUME NEW l \in List, ListFails(l) PROVE IInv'
    BY <1>4, ListFailsKeeps
  <1>5. CASE Tick
    BY <1>5, TickKeeps
  <1>6. CASE GitHub
    <2>1. ASSUME NEW i \in Issue, OpenIssue(i) \/ CloseOrReopen(i) PROVE IInv'
      BY <2>1, OpenIssueKeeps, CloseOrReopenKeeps
    <2>2. ASSUME NEW i \in Issue, AddOrRemoveLabel(i) \/ WriteComment(i) PROVE IInv'
      BY <2>2, AddOrRemoveLabelKeeps, WriteCommentKeeps
    <2>3. ASSUME NEW i \in Issue, WorkOnPR(i) \/ DeleteIssue(i) PROVE IInv'
      BY <2>3, WorkOnPRKeeps, DeleteIssueKeeps
    <2>4. CASE Rename
      BY <2>4, RenameKeeps
    <2> QED BY <1>6, <2>1, <2>2, <2>3, <2>4 DEF GitHub
  <1>7. CASE UNCHANGED vars
    <2>1. Corpora' /\ Cycle'
      BY <1>7, LeaderStays DEF vars
    <2>2. World'
      BY <1>7 DEF vars, IInv, World
    <2> QED BY <2>1, <2>2 DEF IInv
  <1> QED BY <1>1, <1>2, <1>3, <1>4, <1>5, <1>6, <1>7 DEF Next

\* The inductive invariant holds.  Fairness is of no use to it: Spec, and so FairSpec
\* that the run checks, is enough.
THEOREM InvariantHolds == Spec => []IInv
  BY IInvInit, IInvNext, PTL DEF Spec

\* The variables of the poller of GitHub issues, of the corpus and of GitHub have
\* their types.
THEOREM TypesAreRight == Spec => []TypeOK
  <1>1. IInv => TypeOK
    BY DEF IInv, World, Corpora, CorpusRight, Cycle, PassRight, TaskRight, ListsRight, TypeOK
  <1> QED BY <1>1, InvariantHolds, PTL

\* openIssues, closedIssues, openPRs and closedPRs, which processGithubIssueMutation
\* moves by ones as mutations come, are always the numbers of such issues, gone ones
\* included as what they last were, in the corpus and in one replayed from the log
\* after a crash at any time.
THEOREM CountersAreRight == Spec => []CountersMatch
  <1>1. IInv => CountersMatch
    BY DEF IInv, Corpora, CorpusRight, InBucket, CountersMatch
  <1> QED BY <1>1, InvariantHolds, PTL

-----------------------------------------------------------------------------
\* What an issue of a corpus has, against what GitHub has at the time t: a facet read
\* after the last update is whole; the comments that it lacks are not older than those
\* that it has; and it has the first so many events and reviews.
WholeIfSynced(gi, is, t) ==
  \A f \in Facet : /\ gi.asOf[f] <= t
                   /\ gi.asOf[f] > is.fields.updated => Whole(gi, is, f)
NewestMissing(gi, is, t) ==
  \A d \in Comment :
    /\ gi.comments[d].at <= t
    /\ \A c \in Comment : is.comments[c].at > 0 /\ gi.comments[c] # is.comments[c]
                          => gi.comments[d].at <= is.comments[c].at
FirstOfFeed(gi, is) == \A f \in Feed : \E k \in 0 .. is.feed[f] : gi.feed[f] = 1 .. k
IssueFits(gi, is, t) ==
  WholeIfSynced(gi, is, t) /\ NewestMissing(gi, is, t) /\ FirstOfFeed(gi, is)

\* The log lacks the poller's mutation, and that only.
IssuesAfter(issues, m) ==
  [issues EXCEPT ![m.num] = IF m.gone THEN [@ EXCEPT !.known = TRUE, !.gone = TRUE]
                            ELSE Updated(@, m)]
LogIsSame ==
  mem.issues = IF pend["poller"] = None THEN disk.issues
               ELSE IssuesAfter(disk.issues, pend["poller"])

CorpusFits ==
  /\ \A i \in Issue, c \in Comment : up[i].comments[c].at <= now
  /\ LogIsSame
  /\ \A i \in Issue : IssueFits(mem.issues[i], up[i], now) /\ IssueFits(disk.issues[i], up[i], now)

\* An issue that was listed has the draft that GitHub has, or its details are stale.
PageFits ==
  phase \in {"page", "lists"} =>
    \A i \in DOMAIN pass.page :
      \/ pass.page[i].fields.draft = up[i].fields.draft
      \/ mem.issues[i].asOf["details"] <= up[i].fields.updated

\* What the sync of an issue's facet has between two pages.
SinceKnown(since, gi) == since \in Nat /\ (since = 0 \/ \E d \in Comment : since <= gi.comments[d].at)
FeedGot(f, gi, is) ==
  LET n == (task.page - 1) * PerPage IN n <= is.feed[f] /\ gi.feed[f] \union task.got = 1 .. n
TaskFits ==
  /\ task.page = 0 => task.got = {}
  /\ task.todo # {} =>
       /\ phase = "comments" => SinceKnown(task.since, mem.issues[Num])
       /\ phase \in Feed /\ task.page > 0 => FeedGot(phase, mem.issues[Num], up[Num])

AllFits == CorpusFits /\ PageFits /\ TaskFits

-----------------------------------------------------------------------------
LEMMA IssuesProcessed ==
  ASSUME NEW c \in Corpus, NEW m, m.num # 0
  PROVE  Processed(c, m).issues = IssuesAfter(c.issues, m)
  <1> DEFINE old == c.issues[m.num]
             new == IF m.gone THEN [old EXCEPT !.known = TRUE, !.gone = TRUE] ELSE Updated(old, m)
             count == IF m.gone THEN c.count ELSE Counted(c.count, old, new)
             e == [c EXCEPT !.issues[m.num] = new]
  <1>1. Processed(c, m) = [e EXCEPT !.count = count]
    BY DEF Processed, ProcessIssue
  <1>2. IssuesAfter(c.issues, m) = [c.issues EXCEPT ![m.num] = new]
    BY DEF IssuesAfter
  <1> HIDE DEF new, count
  <1>3. e = [issues |-> [c.issues EXCEPT ![m.num] = new], count |-> c.count, names |-> c.names]
    BY DEF Corpus
  <1> HIDE DEF e
  <1>4. [e EXCEPT !.count = count].issues = [c.issues EXCEPT ![m.num] = new]
    BY <1>3
  <1> QED BY <1>1, <1>2, <1>4

\* The corpora fit, for what they have besides the log's lag.
LEMMA FitsIf ==
  ASSUME \A i \in Issue, c \in Comment : up'[i].comments[c].at <= now', LogIsSame',
         \A i \in Issue : IssueFits(mem'.issues[i], up'[i], now'),
         \A i \in Issue : IssueFits(disk'.issues[i], up'[i], now')
  PROVE  CorpusFits'
  BY DEF CorpusFits

LEMMA CorpusStays ==
  ASSUME CorpusFits, UNCHANGED <<up, now>>, mem'.issues = mem.issues, disk'.issues = disk.issues,
         pend'["poller"] = pend["poller"]
  PROVE  CorpusFits'
  <1>1. LogIsSame'
    BY DEF CorpusFits, LogIsSame
  <1> QED BY <1>1, FitsIf DEF CorpusFits

LEMMA PollerFits ==
  ASSUME IInv, CorpusFits, pend["poller"] = None, NEW m, m.num \in Issue,
         AddMutation("poller", m), UNCHANGED <<disk, up, now>>,
         IssueFits(IssuesAfter(mem.issues, m)[m.num], up[m.num], now)
  PROVE  /\ CorpusFits'
         /\ mem'.issues[m.num] = IssuesAfter(mem.issues, m)[m.num]
         /\ \A i \in Issue : i # m.num => mem'.issues[i] = mem.issues[i]
  <1>1. m.num # 0 /\ m # None
    BY IssuesAreNumbered DEF None
  <1>2. mem \in Corpus /\ DOMAIN pend = Process /\ "poller" \in Process
    BY DEF IInv, Corpora, CorpusRight, Pending, Process
  <1>3. mem'.issues = IssuesAfter(mem.issues, m)
    BY <1>1, <1>2, IssuesProcessed DEF AddMutation
  <1>4. pend'["poller"] = m /\ disk'.issues = mem.issues
    BY <1>2 DEF AddMutation, CorpusFits, LogIsSame
  <1>5. LogIsSame'
    BY <1>1, <1>3, <1>4 DEF LogIsSame
  <1>6. \A i \in Issue : i # m.num => mem'.issues[i] = mem.issues[i]
    BY <1>2, <1>3 DEF IssuesAfter, Corpus
  <1>7. \A i \in Issue : IssueFits(mem'.issues[i], up'[i], now') /\ IssueFits(disk'.issues[i], up'[i], now')
    BY <1>3, <1>6 DEF CorpusFits
  <1>8. CorpusFits'
    BY <1>5, <1>7, FitsIf DEF CorpusFits
  <1> QED BY <1>3, <1>6, <1>8

LEMMA LogFits ==
  ASSUME IInv, CorpusFits, NEW p \in Process, Log(p)
  PROVE  CorpusFits' /\ mem' = mem
  <1>1. /\ pend' = [pend EXCEPT ![p] = None] /\ DOMAIN pend = Process /\ UNCHANGED <<mem, up, now>>
        /\ disk' = Processed(disk, pend[p]) /\ pend[p] # None /\ disk \in Corpus
    BY DEF Log, upstream, IInv, Corpora, CorpusRight, Pending
  <1>2. CASE p = "poller"
    <2>1. pend["poller"].num # 0
      BY <1>1, <1>2, IssuesAreNumbered DEF IInv, Corpora, Pending, IssueMutation
    <2>2. disk'.issues = mem.issues
      BY <1>1, <1>2, <2>1, IssuesProcessed DEF CorpusFits, LogIsSame
    <2>3. pend'["poller"] = None
      BY <1>1, <1>2
    <2>4. LogIsSame'
      BY <1>1, <2>2, <2>3 DEF LogIsSame
    <2> QED BY <1>1, <2>2, <2>4, FitsIf DEF CorpusFits
  <1>3. CASE p \in List
    <2>1. disk'.issues = disk.issues
      BY <1>1, <1>3, ProcessNamesKeeps DEF IInv, Corpora, Pending
    <2>2. pend'["poller"] = pend["poller"]
      BY <1>1, <1>3 DEF List
    <2> QED BY <1>1, <2>1, <2>2, CorpusStays
  <1> QED BY <1>2, <1>3 DEF Process

\* What an edit makes of an issue: what changes is of the current second.
EditedNow(is, js) ==
  /\ js.fields.updated = now
  /\ \A f \in Feed : is.feed[f] <= js.feed[f]
  /\ \A c \in Comment : js.comments[c] = is.comments[c] \/ js.comments[c].at = now
EditOf(is, js) ==
  \/ js.fields = is.fields /\ js.comments = is.comments /\ js.feed = is.feed
  \/ EditedNow(is, js)

LEMMA IssueStaysFit ==
  ASSUME now \in Nat, NEW gi \in Known, NEW is \in UpIssue, NEW js \in UpIssue, EditOf(is, js),
         IssueFits(gi, is, now)
  PROVE  IssueFits(gi, js, now)
  <1>1. CASE js.fields = is.fields /\ js.comments = is.comments /\ js.feed = is.feed
    <2>1. WholeIfSynced(gi, js, now)
      BY <1>1 DEF IssueFits, WholeIfSynced, Whole
    <2>2. NewestMissing(gi, js, now) /\ FirstOfFeed(gi, js)
      BY <1>1 DEF IssueFits, NewestMissing, FirstOfFeed
    <2> QED BY <2>1, <2>2 DEF IssueFits
  <1>2. CASE EditedNow(is, js)
    <2>1. \A f \in Facet : gi.asOf[f] \in Nat
      BY DEF Known
    <2>2. WholeIfSynced(gi, js, now)
      BY <1>2, <2>1 DEF EditedNow, IssueFits, WholeIfSynced
    <2>3. NewestMissing(gi, js, now)
      BY <1>2 DEF EditedNow, IssueFits, NewestMissing
    <2>4. \A f \in Feed : is.feed[f] \in Nat /\ js.feed[f] \in Nat
      BY DEF UpIssue
    <2>5. FirstOfFeed(gi, js)
      <3> SUFFICES ASSUME NEW f \in Feed PROVE \E k \in 0 .. js.feed[f] : gi.feed[f] = 1 .. k
        BY DEF FirstOfFeed
      <3>1. PICK k \in 0 .. is.feed[f] : gi.feed[f] = 1 .. k
        BY DEF IssueFits, FirstOfFeed
      <3>2. k \in 0 .. js.feed[f]
        BY <1>2, <2>4 DEF EditedNow
      <3> QED BY <3>1, <3>2
    <2> QED BY <2>2, <2>3, <2>5 DEF IssueFits
  <1> QED BY <1>1, <1>2 DEF EditOf

\* The tasks that are not between two pages.
LEMMA FreshTaskFits ==
  ASSUME task'.page = 0, task'.since = 0, task'.got = {}
  PROVE  TaskFits'
  BY DEF TaskFits, SinceKnown

LEMMA TodoIsFresh ==
  ASSUME NEW S, task' = [NoTask EXCEPT !.todo = S]
  PROVE  task'.page = 0 /\ task'.since = 0 /\ task'.got = {}
  BY DEF NoTask

LEMMA TaskStaysFit ==
  ASSUME TaskFits, UNCHANGED <<task, phase, up>>, mem'.issues = mem.issues
  PROVE  TaskFits'
  <1>1. Num' = Num
    BY DEF Num
  <1> QED BY <1>1 DEF TaskFits, FeedGot

LEMMA PageStaysFit ==
  ASSUME PageFits, UNCHANGED <<pass, up>>, mem'.issues = mem.issues,
         phase' \in {"page", "lists"} => phase \in {"page", "lists"}
  PROVE  PageFits'
  BY DEF PageFits

LEMMA OffPageFits ==
  ASSUME phase' \notin {"page", "lists"}
  PROVE  PageFits'
  BY DEF PageFits

LEMMA EditFits ==
  ASSUME IInv, AllFits, NEW i \in Issue, NEW is \in UpIssue, Edit(i, is), EditOf(up[i], is)
  PROVE  AllFits'
  <1>1. /\ up \in [Issue -> UpIssue] /\ now \in Nat /\ mem \in Corpus /\ disk \in Corpus
        /\ up' = [up EXCEPT ![i] = is] /\ UNCHANGED <<mem, disk, now, pend, phase, pass, task>>
    BY DEF IInv, World, Corpora, CorpusRight, Edit, Editing
  <1>2. /\ up'[i] = is /\ \A j \in Issue : j # i => up'[j] = up[j]
        /\ up[i] \in UpIssue
    BY <1>1
  <1>3. \A j \in Issue, c \in Comment : up'[j].comments[c].at <= now'
    <2>1. \A c \in Comment : is.comments[c].at <= now
      <3>1. \A c \in Comment : up[i].comments[c].at <= now
        BY DEF AllFits, CorpusFits
      <3> QED BY <1>1, <3>1 DEF EditOf, EditedNow
    <2> QED BY <1>1, <1>2, <2>1 DEF AllFits, CorpusFits
  <1>4. ASSUME NEW c \in Corpus, NEW j \in Issue, IssueFits(c.issues[j], up[j], now)
        PROVE  IssueFits(c.issues[j], up'[j], now')
    <2>1. c.issues[j] \in Known
      BY DEF Corpus
    <2>2. CASE j = i
      BY <1>1, <1>2, <1>4, <2>1, <2>2, IssueStaysFit
    <2>3. CASE j # i
      BY <1>1, <1>2, <1>4, <2>3
    <2> QED BY <2>2, <2>3
  <1>5. LogIsSame'
    BY <1>1 DEF AllFits, CorpusFits, LogIsSame
  <1>6. CorpusFits'
    BY <1>1, <1>3, <1>4, <1>5, FitsIf DEF AllFits, CorpusFits
  <1>7. PageFits'
    <2> SUFFICES ASSUME phase \in {"page", "lists"}, NEW j \in DOMAIN pass.page
                 PROVE  \/ pass.page[j].fields.draft = up'[j].fields.draft
                        \/ mem.issues[j].asOf["details"] <= up'[j].fields.updated
      BY <1>1 DEF PageFits
    <2>1. \/ pass.page[j].fields.draft = up[j].fields.draft
          \/ mem.issues[j].asOf["details"] <= up[j].fields.updated
      BY DEF AllFits, PageFits
    <2>2. CASE j # i \/ is.fields = up[i].fields
      <3>1. j \in Issue
        BY DEF IInv, Cycle, PassRight
      <3>2. up'[j].fields = up[j].fields
        BY <1>2, <2>2, <3>1
      <3> QED BY <2>1, <3>2
    <2>3. CASE j = i /\ is.fields.updated = now
      <3>1. mem.issues[i].asOf["details"] <= now
        BY DEF AllFits, CorpusFits, IssueFits, WholeIfSynced, Facet
      <3> QED BY <1>2, <2>3, <3>1
    <2> QED BY <2>2, <2>3 DEF EditOf, EditedNow
  <1>8. TaskFits'
    <2>1. Num' = Num
      BY <1>1 DEF Num
    <2>2. ASSUME task.todo # {}, phase \in Feed, task.page > 0
          PROVE  FeedGot(phase, mem.issues[Num], up[Num])'
      <3>1. Num \in Issue
        BY <2>2, NumIsIssue DEF IInv, Cycle
      <3> DEFINE n == (task.page - 1) * PerPage
      <3>2. n <= up[Num].feed[phase] /\ mem.issues[Num].feed[phase] \union task.got = 1 .. n
        BY <2>2 DEF AllFits, TaskFits, FeedGot
      <3>3. n \in Int
        BY <2>2, GitHubAssumption DEF IInv, Cycle, TaskRight
      <3>4. up[Num].feed[phase] <= up'[Num].feed[phase]
        <4>1. up[Num].feed[phase] \in Nat
          BY <2>2, <3>1, <1>1 DEF UpIssue
        <4> QED BY <1>2, <2>2, <3>1, <4>1 DEF EditOf, EditedNow
      <3>5. up[Num].feed[phase] \in Nat /\ up'[Num].feed[phase] \in Nat
        BY <1>1, <1>2, <2>2, <3>1 DEF UpIssue
      <3> HIDE DEF n
      <3>6. n <= up'[Num].feed[phase]
        BY <3>2, <3>3, <3>4, <3>5
      <3> QED BY <1>1, <2>1, <3>2, <3>6 DEF FeedGot, n
    <2> QED BY <1>1, <2>1, <2>2 DEF AllFits, TaskFits
  <1> QED BY <1>6, <1>7, <1>8 DEF AllFits

-----------------------------------------------------------------------------
\* What the poller's steps do that leave the corpora alone.
LEMMA CorporaStayFit ==
  ASSUME AllFits, UNCHANGED <<upstream, mem, disk, pend>>
  PROVE  CorpusFits' /\ UNCHANGED up /\ mem'.issues = mem.issues
  BY CorpusStays DEF AllFits, upstream

LEMMA GoOnFits ==
  ASSUME GoOn, phase \in DOMAIN Following
  PROVE  TaskFits' /\ (phase \in {"page", "issues"} \union Facet => PageFits')
  <1>1. task' = NoTask \/ \E S : task' = [NoTask EXCEPT !.todo = S]
    BY DEF GoOn
  <1>2. task'.page = 0 /\ task'.since = 0 /\ task'.got = {}
    BY <1>1, TodoIsFresh DEF NoTask
  <1>3. phase' \notin {"page", "lists"}
    BY DEF GoOn, Following
  <1> QED BY <1>2, <1>3, FreshTaskFits, OffPageFits

LEMMA NoTaskFits == task' = NoTask => TaskFits'
  BY FreshTaskFits DEF NoTask

LEMMA BeginCycleFits ==
  ASSUME AllFits, BeginCycle
  PROVE  AllFits'
  <1>1. CorpusFits' /\ phase' = "issues" /\ task' = task /\ phase = "idle"
        /\ UNCHANGED up /\ mem'.issues = mem.issues
    BY CorporaStayFit DEF BeginCycle, At
  <1>2. Num' = Num
    BY <1>1 DEF Num
  <1>3. TaskFits'
    BY <1>1, <1>2 DEF AllFits, TaskFits, Feed
  <1> QED BY <1>1, <1>3, OffPageFits DEF AllFits

LEMMA ListIssuesFits ==
  ASSUME IInv, AllFits, ListIssues
  PROVE  AllFits'
  <1> DEFINE rest == After(pass.cursor)
             page == {i \in rest : Cardinality({j \in rest : Above(j, i)}) < IssuesPerPage}
             last == CHOOSE i \in page : \A j \in page \ {i} : Above(j, i)
             cursor == IF page = rest THEN Top ELSE <<up[last].fields.updated, last>>
  <1>1. CorpusFits' /\ UNCHANGED up /\ mem'.issues = mem.issues /\ phase = "issues"
    BY CorporaStayFit DEF ListIssues, At
  <1>2. CASE GoOn
    BY <1>1, <1>2, GoOnFits, PhasesAre DEF AllFits
  <1>3. CASE /\ phase' = "page" /\ task' = task
             /\ pass' = [pass EXCEPT !.page = [i \in page |-> up[i]], !.cursor = cursor,
                                     !.changes = 0, !.listed = FALSE]
    <2> HIDE DEF page, cursor
    <2> DEFINE issues == [i \in page |-> up[i]]
               c1 == [pass EXCEPT !.page = issues]
               c2 == [c1 EXCEPT !.cursor = cursor]
               c3 == [c2 EXCEPT !.changes = 0]
    <2>1. pass' = [c3 EXCEPT !.listed = FALSE]
      BY <1>3
    <2> HIDE DEF issues
    <2>2. c1 = [cursor |-> pass.cursor, seen |-> pass.seen, page |-> issues,
                changes |-> pass.changes, listed |-> pass.listed]
      BY DEF IInv, Cycle, PassRight
    <2> HIDE DEF c1
    <2>3. c2 = [cursor |-> cursor, seen |-> pass.seen, page |-> issues,
                changes |-> pass.changes, listed |-> pass.listed]
      BY <2>2
    <2> HIDE DEF c2
    <2>4. c3 = [cursor |-> cursor, seen |-> pass.seen, page |-> issues,
                changes |-> 0, listed |-> pass.listed]
      BY <2>3
    <2> HIDE DEF c3
    <2>5. pass'.page = issues
      BY <2>1, <2>4
    <2>6. PageFits'
      BY <1>1, <2>5 DEF PageFits, issues
    <2>7. Num' = Num
      BY <1>3 DEF Num
    <2>8. TaskFits'
      BY <1>1, <1>3, <2>7 DEF AllFits, TaskFits, Feed
    <2> QED BY <1>1, <2>6, <2>8 DEF AllFits
  <1> QED BY <1>2, <1>3 DEF ListIssues

LEMMA TakenPageFits ==
  ASSUME AllFits, UNCHANGED <<up, phase>>, DOMAIN pass'.page \subseteq DOMAIN pass.page,
         \A i \in DOMAIN pass'.page : pass'.page[i] = pass.page[i],
         \A i \in DOMAIN pass'.page : mem'.issues[i].asOf = mem.issues[i].asOf
  PROVE  PageFits'
  BY DEF AllFits, PageFits

LEMMA SkipIssueFits ==
  ASSUME IInv, AllFits, SkipIssue
  PROVE  AllFits'
  <1>1. CorpusFits' /\ UNCHANGED <<up, phase, task>> /\ mem'.issues = mem.issues
    BY CorporaStayFit DEF SkipIssue
  <1>2. Taken.page = [i \in DOMAIN pass.page \ {Item} |-> pass.page[i]]
    BY TakenIsRight DEF SkipIssue, OnPage, IInv, Cycle
  <1>3. pass'.page = [i \in DOMAIN pass.page \ {Item} |-> pass.page[i]]
    BY <1>2 DEF SkipIssue
  <1>4. PageFits'
    BY <1>1, <1>3, TakenPageFits
  <1> QED BY <1>1, <1>4, TaskStaysFit DEF AllFits

LEMMA StartListsFits ==
  ASSUME IInv, AllFits, StartLists
  PROVE  AllFits'
  <1>1. CorpusFits' /\ UNCHANGED <<up, task>> /\ mem'.issues = mem.issues
        /\ phase = "page" /\ phase' = "lists" /\ pass' = [pass EXCEPT !.listed = TRUE]
    BY CorporaStayFit DEF StartLists, OnPage, At
  <1>2. pass'.page = pass.page
    BY <1>1 DEF IInv, Cycle, PassRight
  <1>3. PageFits'
    BY <1>1, <1>2 DEF AllFits, PageFits
  <1>4. Num' = Num
    BY <1>1 DEF Num
  <1>5. TaskFits'
    BY <1>1, <1>4 DEF AllFits, TaskFits, Feed
  <1> QED BY <1>1, <1>3, <1>5 DEF AllFits

LEMMA EndOfPageFits ==
  ASSUME AllFits, EndOfPage
  PROVE  AllFits'
  <1>1. CorpusFits' /\ UNCHANGED up /\ mem'.issues = mem.issues /\ phase = "page"
    BY CorporaStayFit DEF EndOfPage, At
  <1>2. CASE GoOn
    BY <1>1, <1>2, GoOnFits, PhasesAre DEF AllFits
  <1>3. CASE phase' = "issues" /\ UNCHANGED <<pass, task>>
    <2>1. Num' = Num
      BY <1>3 DEF Num
    <2>2. TaskFits'
      BY <1>1, <1>3, <2>1 DEF AllFits, TaskFits, Feed
    <2> QED BY <1>1, <1>3, <2>2, OffPageFits DEF AllFits
  <1> QED BY <1>2, <1>3 DEF EndOfPage, PageIsLast

LEMMA EndOfFacetFits ==
  ASSUME AllFits, EndOfFacet
  PROVE  AllFits'
  <1>1. CorpusFits' /\ phase \in Facet
    BY CorporaStayFit DEF EndOfFacet
  <1>2. CASE GoOn
    BY <1>1, <1>2, GoOnFits, PhasesAre DEF AllFits, Facet, Feed
  <1>3. CASE task' = [NoTask EXCEPT !.todo = Stale(phase)] /\ phase' = phase
    <2>1. TaskFits'
      BY <1>3, TodoIsFresh, FreshTaskFits
    <2> QED BY <1>1, <1>3, <2>1, OffPageFits DEF AllFits, Facet, Feed
  <1> QED BY <1>2, <1>3 DEF EndOfFacet

LEMMA GetNamesFits ==
  ASSUME IInv, AllFits, NEW l \in List, GetNames(l)
  PROVE  AllFits'
  <1>1. UNCHANGED <<up, now, disk, phase, pass, task>> /\ phase = "lists"
    BY DEF GetNames, Listing, upstream
  <1>2. mem'.issues = mem.issues /\ pend'["poller"] = pend["poller"]
    <2>1. CASE UNCHANGED <<mem, pend>>
      BY <2>1
    <2>2. ASSUME NEW got, AddMutation(l, NamesMutation(l, got))
          PROVE  mem'.issues = mem.issues /\ pend'["poller"] = pend["poller"]
      <3> DEFINE m == NamesMutation(l, got)
      <3>1. mem' = ProcessNames(mem, m)
        BY <2>2 DEF AddMutation, Processed, NamesMutation
      <3> DEFINE names == [e \in Entry |-> IF m.names[e] = 0 THEN mem.names[m.list][e] ELSE m.names[e]]
      <3>2. mem' = [mem EXCEPT !.names[m.list] = names]
        BY <3>1 DEF ProcessNames
      <3> HIDE DEF names, m
      <3>3. mem'.issues = mem.issues
        BY <3>2 DEF IInv, Corpora, CorpusRight, Corpus
      <3>4. l # "poller"
        BY DEF List
      <3> QED BY <2>2, <3>3, <3>4 DEF AddMutation, IInv, Corpora, Pending, Process
    <2> QED BY <2>1, <2>2 DEF GetNames
  <1>3. CorpusFits'
    BY <1>1, <1>2, CorpusStays DEF AllFits
  <1>4. PageFits' /\ TaskFits'
    BY <1>1, <1>2, PageStaysFit, TaskStaysFit DEF AllFits
  <1> QED BY <1>3, <1>4 DEF AllFits

LEMMA ListsDoneFits ==
  ASSUME AllFits, ListsDone
  PROVE  AllFits'
  <1>1. CorpusFits' /\ UNCHANGED <<up, task>> /\ mem'.issues = mem.issues /\ phase = "lists"
        /\ (phase' = "idle" \/ (phase' = "page" /\ pass' = pass))
    BY CorporaStayFit DEF ListsDone
  <1>2. PageFits'
    BY <1>1, PageStaysFit, OffPageFits DEF AllFits
  <1>3. Num' = Num
    BY <1>1 DEF Num
  <1>4. TaskFits'
    BY <1>1, <1>3 DEF AllFits, TaskFits, Feed
  <1> QED BY <1>1, <1>2, <1>4 DEF AllFits

LEMMA CycleFailsFits ==
  ASSUME AllFits, CycleFails
  PROVE  AllFits'
  BY CorporaStayFit, OffPageFits, NoTaskFits DEF CycleFails, AllFits

LEMMA ListFailsFits ==
  ASSUME AllFits, NEW l \in List, ListFails(l)
  PROVE  AllFits'
  <1>1. CorpusFits' /\ UNCHANGED <<up, task, pass, phase>> /\ mem'.issues = mem.issues
    BY CorporaStayFit DEF ListFails
  <1> QED BY <1>1, PageStaysFit, TaskStaysFit DEF AllFits

LEMMA CrashFits ==
  ASSUME AllFits, Crash
  PROVE  AllFits'
  <1>1. UNCHANGED <<up, now, disk>> /\ mem' = disk /\ pend' = [p \in Process |-> None]
        /\ phase' = "idle" /\ task' = NoTask
    BY DEF Crash, upstream
  <1>2. pend'["poller"] = None
    BY <1>1 DEF Process
  <1>3. LogIsSame'
    BY <1>1, <1>2 DEF LogIsSame
  <1>4. CorpusFits'
    BY <1>1, <1>3, FitsIf DEF AllFits, CorpusFits
  <1> QED BY <1>1, <1>4, OffPageFits, NoTaskFits DEF AllFits

LEMMA LogStepFits ==
  ASSUME IInv, AllFits, NEW p \in Process, Log(p)
  PROVE  AllFits'
  <1>1. CorpusFits' /\ mem' = mem
    BY LogFits DEF AllFits
  <1>2. UNCHANGED <<up, phase, pass, task>>
    BY DEF Log, upstream
  <1> QED BY <1>1, <1>2, PageStaysFit, TaskStaysFit DEF AllFits

\* Time goes on, and what was not later than now is not.
LEMMA TickFits ==
  ASSUME IInv, AllFits, Tick
  PROVE  AllFits'
  <1>1. now \in Nat /\ now' = now + 1 /\ UNCHANGED <<up, mem, disk, pend, phase, pass, task>>
    BY DEF IInv, World, Tick
  <1>2. ASSUME NEW gi \in Known, NEW i \in Issue, IssueFits(gi, up[i], now)
        PROVE  IssueFits(gi, up[i], now + 1)
    <2>1. WholeIfSynced(gi, up[i], now + 1)
      BY <1>1, <1>2 DEF IssueFits, WholeIfSynced, Known
    <2>2. NewestMissing(gi, up[i], now + 1)
      <3>1. \A d \in Comment : gi.comments[d].at \in Nat
        BY DEF Known, Text
      <3> QED BY <1>1, <1>2, <3>1 DEF IssueFits, NewestMissing
    <2> QED BY <1>2, <2>1, <2>2 DEF IssueFits
  <1>3. \A i \in Issue : mem.issues[i] \in Known /\ disk.issues[i] \in Known
    BY DEF IInv, Corpora, CorpusRight, Corpus
  <1>4. \A i \in Issue : IssueFits(mem.issues[i], up[i], now + 1) /\ IssueFits(disk.issues[i], up[i], now + 1)
    BY <1>2, <1>3 DEF AllFits, CorpusFits
  <1>5. \A i \in Issue, c \in Comment : up[i].comments[c].at <= now + 1
    <2>1. \A i \in Issue, c \in Comment : up[i].comments[c].at \in Nat
      BY DEF IInv, World, UpIssue, Text
    <2> QED BY <1>1, <2>1 DEF AllFits, CorpusFits
  <1>6. LogIsSame'
    BY <1>1 DEF AllFits, CorpusFits, LogIsSame
  <1>7. CorpusFits'
    BY <1>1, <1>4, <1>5, <1>6, FitsIf
  <1> QED BY <1>1, <1>7, PageStaysFit, TaskStaysFit DEF AllFits

-----------------------------------------------------------------------------
\* What a mutation of an issue makes of it.
LEMMA IssueAfter ==
  ASSUME IInv, NEW m, m.num \in Issue
  PROVE  IssuesAfter(mem.issues, m)[m.num] =
           IF m.gone THEN [mem.issues[m.num] EXCEPT !.known = TRUE, !.gone = TRUE]
           ELSE Updated(mem.issues[m.num], m)
  BY DEF IssuesAfter, IInv, Corpora, CorpusRight, Corpus

LEMMA UpdatedIs ==
  ASSUME NEW gi \in Known, NEW m
  PROVE  /\ Updated(gi, m).comments = Over(m.comments, gi.comments)
         /\ Updated(gi, m).asOf = Over(m.asOf, gi.asOf)
         /\ \A f \in Feed : Updated(gi, m).feed[f] = Recorded(gi, m, f)
         /\ Updated(gi, m).fields.draft =
              IF gi.pr \/ m.pr THEN Over(m.set, gi.fields).draft ELSE gi.fields.draft
         /\ Updated(gi, m).fields.details =
              IF gi.pr \/ m.pr THEN Over(m.set, gi.fields).details ELSE gi.fields.details
  <1> DEFINE pr == gi.pr \/ m.pr
             over == Over(m.set, gi.fields)
             draft == IF pr THEN over.draft ELSE gi.fields.draft
             details == IF pr THEN over.details ELSE gi.fields.details
             c1 == [over EXCEPT !.draft = draft]
             c2 == [c1 EXCEPT !.details = IF pr THEN @ ELSE gi.fields.details]
  <1>1. DOMAIN over = {"updated", "closed", "closedAt", "draft", "details"}
    BY DEF Over, Known, Fields
  <1>2. over = [f \in DOMAIN over |-> over[f]]
    BY DEF Over
  <1>3. Updated(gi, m).fields = c2
    BY DEF Updated
  <1> HIDE DEF over, draft, pr
  <1>4. c1.details = over.details /\ c1.draft = draft /\ DOMAIN c1 = DOMAIN over
    BY <1>1, <1>2
  <1> HIDE DEF c1
  <1>5. c2.draft = draft
    BY <1>1, <1>4
  <1>6. c2.details = details
    BY <1>1, <1>4
  <1>7. Updated(gi, m).fields.draft = draft /\ Updated(gi, m).fields.details = details
    BY <1>3, <1>5, <1>6
  <1>8. /\ Updated(gi, m).comments = Over(m.comments, gi.comments)
        /\ Updated(gi, m).asOf = Over(m.asOf, gi.asOf)
        /\ \A f \in Feed : Updated(gi, m).feed[f] = Recorded(gi, m, f)
    BY DEF Updated
  <1> QED BY <1>7, <1>8 DEF draft, pr, over

MutationFields == {"num", "gone", "pr", "set", "add", "remove", "comments", "feed", "asOf"}
LEMMA FieldsAre ==
  ASSUME NEW i
  PROVE  /\ DOMAIN Mutation(i) = MutationFields
         /\ Mutation(i).num = i /\ Mutation(i).gone = FALSE
         /\ Mutation(i).set = Nothing /\ Mutation(i).comments = Nothing
         /\ Mutation(i).feed = Nothing /\ Mutation(i).asOf = Nothing
  BY DEF Mutation, MutationFields

\* A mutation that sets nothing of a kind leaves it as it is.
LEMMA OverNothing ==
  ASSUME NEW g, g = [x \in DOMAIN g |-> g[x]]
  PROVE  Over(Nothing, g) = g
  BY DEF Over, Nothing

LEMMA KnownIs ==
  ASSUME NEW gi \in Known
  PROVE  /\ Over(Nothing, gi.comments) = gi.comments
         /\ Over(Nothing, gi.asOf) = gi.asOf
         /\ Over(Nothing, gi.fields) = gi.fields
  <1>1. gi.comments = [x \in DOMAIN gi.comments |-> gi.comments[x]]
    BY DEF Known
  <1>2. gi.asOf = [x \in DOMAIN gi.asOf |-> gi.asOf[x]]
    BY DEF Known
  <1>3. gi.fields = [x \in DOMAIN gi.fields |-> gi.fields[x]]
    BY DEF Known, Fields
  <1> QED BY <1>1, <1>2, <1>3, OverNothing

LEMMA NothingRecorded ==
  ASSUME NEW gi, NEW m, NEW f, f \notin DOMAIN m.feed
  PROVE  Recorded(gi, m, f) = gi.feed[f]
  BY DEF Recorded

LEMMA FeedsStay ==
  ASSUME NEW gi \in Known, NEW m, m.feed = Nothing, NEW f \in Feed
  PROVE  Updated(gi, m).feed[f] = gi.feed[f]
  <1>1. Updated(gi, m).feed[f] = Recorded(gi, m, f)
    BY UpdatedIs
  <1>2. f \notin DOMAIN m.feed
    BY DEF Nothing
  <1>3. Recorded(gi, m, f) = gi.feed[f]
    BY <1>2, NothingRecorded
  <1> QED BY <1>1, <1>3

LEMMA FieldsStay ==
  ASSUME NEW gi \in Known, NEW m, m.set = Nothing
  PROVE  /\ Updated(gi, m).fields.draft = gi.fields.draft
         /\ Updated(gi, m).fields.details = gi.fields.details
  <1>1. Over(m.set, gi.fields) = gi.fields
    BY KnownIs
  <1>2. Updated(gi, m).fields.draft = gi.fields.draft
    BY <1>1, UpdatedIs
  <1>3. Updated(gi, m).fields.details = gi.fields.details
    BY <1>1, UpdatedIs
  <1> QED BY <1>2, <1>3

\* An issue fits if it fits in what it has of comments, facets and feeds.
LEMMA FitsAlike ==
  ASSUME NEW gi, NEW hi, NEW is, NEW t, IssueFits(gi, is, t),
         hi.comments = gi.comments, hi.asOf = gi.asOf, \A f \in Feed : hi.feed[f] = gi.feed[f],
         gi.asOf["details"] > is.fields.updated =>
           hi.fields.details = is.fields.details /\ hi.fields.draft = is.fields.draft
  PROVE  IssueFits(hi, is, t)
  <1>1. NewestMissing(hi, is, t) /\ FirstOfFeed(hi, is)
    BY DEF IssueFits, NewestMissing, FirstOfFeed
  <1>2. ASSUME NEW f \in Facet
        PROVE  hi.asOf[f] <= t /\ (hi.asOf[f] > is.fields.updated => Whole(hi, is, f))
    <2>1. gi.asOf[f] <= t /\ (gi.asOf[f] > is.fields.updated => Whole(gi, is, f))
      BY DEF IssueFits, WholeIfSynced
    <2>2. CASE f = "details"
      BY <2>1, <2>2 DEF Whole
    <2>3. CASE f = "comments"
      BY <2>1, <2>3 DEF Whole
    <2>4. CASE f \in Feed
      BY <2>1, <2>4 DEF Whole, Feed
    <2> QED BY <2>1, <2>2, <2>3, <2>4 DEF Facet
  <1> QED BY <1>1, <1>2 DEF IssueFits, WholeIfSynced

LEMMA GoneFits ==
  ASSUME IInv, AllFits, NEW f \in Facet, Gone(f)
  PROVE  AllFits'
  <1> DEFINE m == GoneMutation(Num)
             gi == mem.issues[Num]
             hi == [gi EXCEPT !.known = TRUE, !.gone = TRUE]
  <1>1. Num \in Issue /\ pend["poller"] = None /\ phase = f
    BY NumIsThere DEF IInv, Cycle, Gone, Working, At
  <1>2. m.num = Num /\ m.gone
    BY DEF GoneMutation, Mutation
  <1>3. gi \in Known /\ up[Num] \in UpIssue
    BY <1>1 DEF IInv, World, Corpora, CorpusRight, Corpus
  <1>4. IssuesAfter(mem.issues, m)[m.num] = hi
    BY <1>1, <1>2, IssueAfter
  <1>5. hi.comments = gi.comments /\ hi.asOf = gi.asOf /\ hi.feed = gi.feed /\ hi.fields = gi.fields
    BY <1>3 DEF Known
  <1>6. IssueFits(gi, up[Num], now)
    BY <1>1 DEF AllFits, CorpusFits
  <1> HIDE DEF hi, gi
  <1>7. IssueFits(hi, up[Num], now)
    <2>1. gi.asOf["details"] > up[Num].fields.updated => Whole(gi, up[Num], "details")
      BY <1>6 DEF IssueFits, WholeIfSynced, Facet
    <2> QED BY <1>5, <1>6, <2>1, FitsAlike DEF Whole
  <1>8. AddMutation("poller", m) /\ UNCHANGED <<disk, up, now, phase>> /\ task' = Done
    BY DEF Gone, upstream
  <1> HIDE DEF m
  <1>9. CorpusFits'
    BY <1>1, <1>2, <1>4, <1>7, <1>8, PollerFits DEF AllFits
  <1>10. TaskFits'
    BY <1>8, TodoIsFresh, FreshTaskFits DEF Done
  <1>11. PageFits'
    BY <1>1, <1>8, OffPageFits DEF Facet, Feed
  <1> QED BY <1>9, <1>10, <1>11 DEF AllFits

LEMMA SyncDetailsFits ==
  ASSUME IInv, AllFits, SyncDetails
  PROVE  AllFits'
  <1> DEFINE gi == mem.issues[Num]
             is == up[Num]
             differing == {f \in {"draft", "details"} : is.fields[f] # gi.fields[f]}
             set == [f \in differing |-> is.fields[f]]
             asOf == [x \in {"details"} |-> now]
             m == [Mutation(Num) EXCEPT !.pr = TRUE, !.set = set, !.asOf = asOf]
             hi == Updated(gi, m)
  <1>1. Num \in Issue /\ pend["poller"] = None /\ phase = "details"
    BY NumIsThere DEF IInv, Cycle, SyncDetails, Working, At
  <1>2. gi \in Known /\ is \in UpIssue /\ now \in Nat
    BY <1>1 DEF IInv, World, Corpora, CorpusRight, Corpus
  <1>3. IssueFits(gi, is, now)
    BY <1>1 DEF AllFits, CorpusFits
  <1>4. AddMutation("poller", m) /\ UNCHANGED <<disk, up, now, phase>> /\ task' = Done
    BY DEF SyncDetails, upstream
  <1>5. Over(set, gi.fields).draft = is.fields.draft
        /\ Over(set, gi.fields).details = is.fields.details
    BY <1>2 DEF Over, Known, Fields
  <1>6. Over(asOf, gi.asOf) = [gi.asOf EXCEPT !["details"] = now]
    BY <1>2 DEF Over, Known
  <1> HIDE DEF set, asOf
  <1>7. m = [Mutation(Num) EXCEPT !.pr = TRUE, !.set = set, !.asOf = asOf]
    OBVIOUS
  <1> HIDE DEF m
  <1>8. /\ m.num = Num /\ m.gone = FALSE /\ m.pr = TRUE /\ m.set = set /\ m.asOf = asOf
        /\ m.comments = Nothing /\ m.feed = Nothing
    BY <1>7, FieldsAre DEF MutationFields
  <1>9. IssuesAfter(mem.issues, m)[m.num] = hi
    BY <1>1, <1>8, IssueAfter
  <1> HIDE DEF gi, is
  <1>10. /\ hi.comments = gi.comments /\ hi.asOf = [gi.asOf EXCEPT !["details"] = now]
         /\ hi.fields.draft = is.fields.draft /\ hi.fields.details = is.fields.details
         /\ \A f \in Feed : hi.feed[f] = gi.feed[f]
    <2>1. hi.comments = Over(m.comments, gi.comments) /\ hi.asOf = Over(m.asOf, gi.asOf)
      BY <1>2, UpdatedIs
    <2>2. hi.comments = gi.comments /\ hi.asOf = [gi.asOf EXCEPT !["details"] = now]
      BY <1>2, <1>6, <1>8, <2>1, KnownIs
    <2>3. \A f \in Feed : hi.feed[f] = gi.feed[f]
      BY <1>2, <1>8, FeedsStay
    <2>4. hi.fields.draft = Over(m.set, gi.fields).draft
      BY <1>2, <1>8, UpdatedIs
    <2>5. hi.fields.details = Over(m.set, gi.fields).details
      BY <1>2, <1>8, UpdatedIs
    <2> HIDE DEF hi
    <2> QED BY <1>5, <1>8, <2>2, <2>3, <2>4, <2>5
  <1> HIDE DEF hi
  <1>11. IssueFits(hi, is, now)
    <2>1. NewestMissing(hi, is, now) /\ FirstOfFeed(hi, is)
      BY <1>3, <1>10 DEF IssueFits, NewestMissing, FirstOfFeed
    <2>2. ASSUME NEW f \in Facet
          PROVE  hi.asOf[f] <= now /\ (hi.asOf[f] > is.fields.updated => Whole(hi, is, f))
      <3>1. CASE f = "details"
        <4>1. hi.asOf[f] = now
          BY <1>2, <1>10, <3>1 DEF Known
        <4> QED BY <1>2, <1>10, <3>1, <4>1 DEF Whole
      <3>2. CASE f # "details"
        <4>1. hi.asOf[f] = gi.asOf[f]
          BY <1>2, <1>10, <3>2 DEF Known
        <4>2. Whole(gi, is, f) => Whole(hi, is, f)
          BY <1>10, <3>2 DEF Whole, Facet
        <4> QED BY <1>3, <4>1, <4>2 DEF IssueFits, WholeIfSynced
      <3> QED BY <3>1, <3>2
    <2> QED BY <2>1, <2>2 DEF IssueFits, WholeIfSynced
  <1>12. CorpusFits'
    BY <1>1, <1>4, <1>8, <1>9, <1>11, PollerFits DEF AllFits, is
  <1>13. TaskFits'
    BY <1>4, TodoIsFresh, FreshTaskFits DEF Done
  <1>14. PageFits'
    BY <1>1, <1>4, OffPageFits
  <1> QED BY <1>12, <1>13, <1>14 DEF AllFits

LEMMA ChangeIssueFits ==
  ASSUME IInv, AllFits, ChangeIssue
  PROVE  AllFits'
  <1> DEFINE gi == mem.issues[Item]
             is == up[Item]
             listed == pass.page[Item]
             set == [f \in Differing(gi, listed) |-> listed.fields[f]]
             add == NewLabels(gi, listed)
             remove == DeletedLabels(gi, listed)
             pr == Item \in PR
             m == Diff(Item, gi, listed)
             hi == Updated(gi, m)
  <1>1. PassRight /\ DOMAIN pass.page # {} /\ pend["poller"] = None /\ phase = "page"
    BY DEF IInv, Cycle, ChangeIssue, OnPage, At
  <1>2. Item \in DOMAIN pass.page /\ Item \in Issue /\ listed \in UpIssue
    BY <1>1, ItemIsThere
  <1>3. gi \in Known /\ is \in UpIssue
    BY <1>2 DEF IInv, World, Corpora, CorpusRight, Corpus
  <1>4. IssueFits(gi, is, now)
    BY <1>2 DEF AllFits, CorpusFits
  <1>5. listed.fields.draft = is.fields.draft \/ gi.asOf["details"] <= is.fields.updated
    BY <1>1, <1>2 DEF AllFits, PageFits
  <1>6. AddMutation("poller", m) /\ UNCHANGED <<disk, up, now, phase, task>>
        /\ pass' = [Taken EXCEPT !.changes = @ + 1]
    BY DEF ChangeIssue, upstream
  <1>7. Over(set, gi.fields).draft = listed.fields.draft
        /\ Over(set, gi.fields).details = gi.fields.details
    <2>1. DOMAIN set = Differing(gi, listed) /\ \A f \in DOMAIN set : set[f] = listed.fields[f]
      OBVIOUS
    <2>2. "details" \notin DOMAIN set
          /\ ("draft" \notin DOMAIN set => listed.fields.draft = gi.fields.draft)
      BY DEF Differing, Listed
    <2>3. DOMAIN gi.fields = {"updated", "closed", "closedAt", "draft", "details"}
      BY <1>3 DEF Known, Fields
    <2> HIDE DEF set
    <2> QED BY <2>1, <2>2, <2>3 DEF Over
  <1>8. m = [Mutation(Item) EXCEPT !.pr = pr, !.set = set, !.add = add, !.remove = remove]
    BY DEF Diff
  <1> HIDE DEF m, set, add, remove, pr
  <1>9. /\ m.num = Item /\ m.gone = FALSE /\ m.set = set /\ m.asOf = Nothing
        /\ m.comments = Nothing /\ m.feed = Nothing
    BY <1>8, FieldsAre DEF MutationFields
  <1>10. IssuesAfter(mem.issues, m)[m.num] = hi
    BY <1>2, <1>9, IssueAfter
  <1> HIDE DEF gi, is, listed
  <1>11. hi.comments = gi.comments /\ hi.asOf = gi.asOf
    <2>1. hi.comments = Over(m.comments, gi.comments) /\ hi.asOf = Over(m.asOf, gi.asOf)
      BY <1>3, UpdatedIs
    <2> HIDE DEF hi
    <2> QED BY <1>3, <1>9, <2>1, KnownIs
  <1>12. \A f \in Feed : hi.feed[f] = gi.feed[f]
    BY <1>3, <1>9, FeedsStay
  <1>13. hi.fields.details = gi.fields.details
    <2>1. hi.fields.details = Over(m.set, gi.fields).details \/ hi.fields.details = gi.fields.details
      BY <1>3, UpdatedIs
    <2> HIDE DEF hi
    <2> QED BY <1>7, <1>9, <2>1
  <1>14. hi.fields.draft = listed.fields.draft \/ hi.fields.draft = gi.fields.draft
    <2>1. hi.fields.draft = Over(m.set, gi.fields).draft \/ hi.fields.draft = gi.fields.draft
      BY <1>3, UpdatedIs
    <2> HIDE DEF hi
    <2> QED BY <1>7, <1>9, <2>1
  <1> HIDE DEF hi
  <1>15. IssueFits(hi, is, now)
    <2> SUFFICES ASSUME gi.asOf["details"] > is.fields.updated
                 PROVE  hi.fields.details = is.fields.details /\ hi.fields.draft = is.fields.draft
      BY <1>4, <1>11, <1>12, FitsAlike
    <2>1. Whole(gi, is, "details")
      BY <1>4 DEF IssueFits, WholeIfSynced, Facet
    <2>2. gi.fields.details = is.fields.details /\ gi.fields.draft = is.fields.draft
      BY <2>1 DEF Whole
    <2>3. listed.fields.draft = is.fields.draft
      <3>1. gi.asOf["details"] \in Nat /\ is.fields.updated \in Nat
        BY <1>3 DEF Known, UpIssue, Fields, Facet
      <3> QED BY <1>5, <3>1
    <2> QED BY <1>13, <1>14, <2>2, <2>3
  <1>16. /\ CorpusFits' /\ mem'.issues[Item] = hi
         /\ \A i \in Issue : i # Item => mem'.issues[i] = mem.issues[i]
    BY <1>1, <1>2, <1>6, <1>9, <1>10, <1>15, PollerFits DEF AllFits, is
  <1>17. PageFits'
    <2>1. Taken.page = [i \in DOMAIN pass.page \ {Item} |-> pass.page[i]]
          /\ Taken = [cursor |-> pass.cursor, seen |-> Taken.seen, page |-> Taken.page,
                      changes |-> Taken.changes, listed |-> pass.listed]
      BY <1>1, TakenIsRight
    <2>2. pass'.page = Taken.page
      BY <1>6, <2>1
    <2>3. pass'.page = [i \in DOMAIN pass.page \ {Item} |-> pass.page[i]]
      BY <2>1, <2>2
    <2>4. DOMAIN pass'.page \subseteq Issue \ {Item}
      BY <1>1, <2>3 DEF PassRight
    <2> QED BY <1>6, <1>16, <2>3, <2>4, TakenPageFits
  <1>18. TaskFits'
    <2>1. Num' = Num
      BY <1>6 DEF Num
    <2> QED BY <1>1, <1>6, <2>1 DEF AllFits, TaskFits, Feed
  <1> QED BY <1>16, <1>17, <1>18 DEF AllFits

\* A page of a feed goes on where what is there ends.
LEMMA PageAdds ==
  ASSUME NEW n \in Nat, NEW w \in Nat, NEW v \in Nat, NEW k \in Nat, w <= k, k <= v, k <= n
  PROVE  (1 .. k) \union {x \in 1 .. n : w < x /\ x <= v} = 1 .. (IF v < n THEN v ELSE n)
  OBVIOUS

LEMMA FirstPage ==
  ASSUME NEW k \in Nat, NEW q, q = k \div PerPage
  PROVE  q \in Nat /\ q * PerPage \in Nat /\ q * PerPage <= k /\ k <= (1 + q) * PerPage
         /\ (1 + q) * PerPage = q * PerPage + PerPage
  BY GitHubAssumption
LEMMA NextPage ==
  ASSUME NEW p \in Nat, p > 0
  PROVE  (p - 1) * PerPage \in Nat /\ p * PerPage = (p - 1) * PerPage + PerPage
  BY GitHubAssumption

LEMMA SyncFeedFits ==
  ASSUME IInv, AllFits, NEW f \in Feed, SyncFeed(f)
  PROVE  AllFits'
  <1> DEFINE gi == mem.issues[Num]
             is == up[Num]
             n == is.feed[f]
             have == gi.feed[f]
             p == IF task.page = 0 THEN 1 + Cardinality(have) \div PerPage ELSE task.page
             page == PageOf(Num, f, p)
             got == task.got \union (page \ have)
             feed == [x \in {f} |-> got]
             asOf == [x \in {f} |-> now]
             m == [Mutation(Num) EXCEPT !.feed = feed, !.asOf = asOf]
             hi == Updated(gi, m)
             w == (p - 1) * PerPage
             v == p * PerPage
  <1>1. Num \in Issue /\ task.todo # {} /\ pend["poller"] = None /\ phase = f
    BY NumIsThere DEF IInv, Cycle, SyncFeed, Working, At
  <1>2. gi \in Known /\ is \in UpIssue /\ now \in Nat /\ n \in Nat
    BY <1>1 DEF IInv, World, Corpora, CorpusRight, Corpus, UpIssue
  <1>3. IssueFits(gi, is, now)
    BY <1>1 DEF AllFits, CorpusFits
  <1>4. /\ UNCHANGED <<disk, up, now, phase, pass>>
        /\ IF v < n
           THEN task' = [task EXCEPT !.page = p + 1, !.got = got] /\ UNCHANGED <<mem, pend>>
           ELSE AddMutation("poller", m) /\ task' = Done
    BY DEF SyncFeed, HasNextPage, upstream
  <1>5. PICK k \in 0 .. n : have = 1 .. k
    BY <1>3 DEF IssueFits, FirstOfFeed
  <1>6. k \in Nat /\ k <= n /\ task.page \in Nat /\ task.got \subseteq Nat
    BY <1>2, <1>5 DEF IInv, Cycle, TaskRight
  <1>7. \* What there is before this page.
        /\ p \in Nat /\ p > 0 /\ w \in Nat /\ v = w + PerPage
        /\ \E e \in Nat : w <= e /\ e <= v /\ e <= n /\ have \union task.got = 1 .. e
    <2>1. CASE task.page = 0
      <3> DEFINE q == k \div PerPage
      <3>1. Cardinality(have) = k
        BY <1>5, <1>6, FS_Interval
      <3> HIDE DEF have
      <3>2. p = 1 + q
        BY <2>1, <3>1
      <3>3. q \in Nat /\ q * PerPage \in Nat /\ q * PerPage <= k /\ k <= (1 + q) * PerPage
            /\ (1 + q) * PerPage = q * PerPage + PerPage
        BY <1>6, FirstPage
      <3> HIDE DEF q, p
      <3>4. p - 1 = q /\ p \in Nat /\ p > 0
        BY <3>2, <3>3
      <3>5. w = q * PerPage /\ v = (1 + q) * PerPage
        BY <3>2, <3>4
      <3>6. have \union task.got = 1 .. k
        BY <1>5, <2>1 DEF AllFits, TaskFits, have
      <3> QED BY <1>6, <3>3, <3>4, <3>5, <3>6
    <2>2. CASE task.page > 0
      <3>1. p = task.page
        BY <2>2
      <3>2. FeedGot(f, gi, is)
        BY <1>1, <2>2 DEF AllFits, TaskFits
      <3> HIDE DEF p
      <3>3. w <= n /\ have \union task.got = 1 .. w
        BY <3>1, <3>2 DEF FeedGot
      <3>4. w \in Nat /\ v = w + PerPage
        BY <1>6, <2>2, <3>1, NextPage
      <3>5. w <= v
        <4>1. PerPage \in Nat
          BY GitHubAssumption
        <4> HIDE DEF w, v
        <4> QED BY <3>4, <4>1
      <3> QED BY <1>6, <2>2, <3>1, <3>3, <3>4, <3>5
    <2> HIDE DEF p
    <2> QED BY <1>6, <2>1, <2>2
  <1>8. have \union got = 1 .. (IF v < n THEN v ELSE n)
    <2>1. page = {x \in 1 .. n : w < x /\ x <= v}
      BY DEF PageOf
    <2>2. PICK e \in Nat : w <= e /\ e <= v /\ e <= n /\ have \union task.got = 1 .. e
      BY <1>7
    <2>3. v \in Nat
      <3>1. PerPage \in Nat
        BY GitHubAssumption
      <3> HIDE DEF w, v
      <3> QED BY <1>7, <3>1
    <2> HIDE DEF w, v, n, page
    <2>4. (1 .. e) \union page = 1 .. (IF v < n THEN v ELSE n)
      BY <1>2, <1>7, <2>1, <2>2, <2>3, PageAdds
    <2> HIDE DEF have
    <2>5. have \union got = (have \union task.got) \union page
      OBVIOUS
    <2> QED BY <2>2, <2>4, <2>5
  <1>9. Over(asOf, gi.asOf) = [gi.asOf EXCEPT ![f] = now]
    BY <1>2 DEF Over, Known, Facet
  <1> HIDE DEF p, got, page, asOf, w, v
  <1>10. CASE v < n
    <2> DEFINE c == [task EXCEPT !.page = p + 1]
    <2>1. task' = [c EXCEPT !.got = got]
      BY <1>4, <1>10
    <2>2. c = [todo |-> task.todo, page |-> p + 1, since |-> task.since, got |-> task.got]
      BY DEF IInv, Cycle, TaskRight
    <2> HIDE DEF c
    <2>3. task'.todo = task.todo /\ task'.page = p + 1 /\ task'.got = got
      BY <2>1, <2>2
    <2>4. CorpusFits'
      BY <1>4, <1>10, CorpusStays DEF AllFits
    <2>5. Num' = Num
      BY <2>3 DEF Num
    <2>6. (task'.page - 1) * PerPage = v
      <3>1. task'.page - 1 = p
        BY <1>7, <2>3
      <3> QED BY <3>1 DEF v
    <2>7. have \union task'.got = 1 .. v
      <3> HIDE DEF have
      <3> QED BY <1>8, <1>10, <2>3
    <2>8. v <= n
      <3>1. v \in Nat
        <4>1. PerPage \in Nat
          BY GitHubAssumption
        <4> QED BY <1>7, <4>1
      <3> QED BY <1>2, <1>10, <3>1
    <2>9. FeedGot(phase, mem.issues[Num], up[Num])'
      BY <1>1, <1>4, <1>10, <2>5, <2>6, <2>7, <2>8 DEF FeedGot
    <2>10. TaskFits'
      BY <1>1, <1>4, <1>7, <2>3, <2>9 DEF TaskFits, Feed
    <2>11. PageFits'
      BY <1>1, <1>4, OffPageFits DEF Feed
    <2> QED BY <2>4, <2>10, <2>11 DEF AllFits
  <1>11. CASE ~ (v < n)
    <2>1. AddMutation("poller", m) /\ task' = Done
      BY <1>4, <1>11
    <2>2. m = [Mutation(Num) EXCEPT !.feed = feed, !.asOf = asOf]
      OBVIOUS
    <2>3. DOMAIN feed = {f} /\ feed[f] = got
      OBVIOUS
    <2> HIDE DEF m, feed
    <2>4. /\ m.num = Num /\ m.gone = FALSE /\ m.set = Nothing /\ m.asOf = asOf
          /\ m.comments = Nothing /\ m.feed = feed
      BY <2>2, FieldsAre DEF MutationFields
    <2>5. IssuesAfter(mem.issues, m)[m.num] = hi
      BY <1>1, <2>4, IssueAfter
    <2>6. have \union got = 1 .. n
      <3> HIDE DEF have
      <3> QED BY <1>8, <1>11
    <2>7. \A x \in Feed : hi.feed[x] = Recorded(gi, m, x)
      BY <1>2, UpdatedIs
    <2> HIDE DEF hi, have
    <2>8. hi.feed[f] = 1 .. n
      BY <2>3, <2>4, <2>6, <2>7 DEF Recorded, have
    <2>9. ASSUME NEW x \in Feed, x # f PROVE hi.feed[x] = gi.feed[x]
      <3>1. x \notin DOMAIN m.feed
        BY <2>3, <2>4, <2>9
      <3>2. Recorded(gi, m, x) = gi.feed[x]
        BY <3>1, NothingRecorded
      <3> QED BY <2>7, <3>2
    <2> USE DEF hi
    <2> HIDE DEF gi, is, n
    <2>10. hi.comments = gi.comments /\ hi.asOf = [gi.asOf EXCEPT ![f] = now]
      <3>1. hi.comments = Over(m.comments, gi.comments) /\ hi.asOf = Over(m.asOf, gi.asOf)
        BY <1>2, UpdatedIs
      <3> HIDE DEF hi
      <3> QED BY <1>2, <1>9, <2>4, <3>1, KnownIs
    <2>11. hi.fields.draft = gi.fields.draft /\ hi.fields.details = gi.fields.details
      BY <1>2, <2>4, FieldsStay
    <2> HIDE DEF hi
    <2>12. IssueFits(hi, is, now)
      <3>1. NewestMissing(hi, is, now)
        BY <1>3, <2>10 DEF IssueFits, NewestMissing
      <3>2. FirstOfFeed(hi, is)
        <4> SUFFICES ASSUME NEW x \in Feed PROVE \E j \in 0 .. is.feed[x] : hi.feed[x] = 1 .. j
          BY DEF FirstOfFeed
        <4>1. CASE x = f
          <5>1. n \in 0 .. is.feed[x]
            BY <1>2, <4>1 DEF n
          <5> QED BY <2>8, <4>1, <5>1
        <4>2. CASE x # f
          BY <1>3, <2>9, <4>2 DEF IssueFits, FirstOfFeed
        <4> QED BY <4>1, <4>2
      <3>3. ASSUME NEW x \in Facet
            PROVE  hi.asOf[x] <= now /\ (hi.asOf[x] > is.fields.updated => Whole(hi, is, x))
        <4>1. CASE x = f
          <5>1. hi.asOf[x] = now
            BY <1>2, <2>10, <4>1 DEF Known
          <5>2. Whole(hi, is, x)
            BY <2>8, <4>1 DEF Whole, Feed, n
          <5> QED BY <1>2, <5>1, <5>2
        <4>2. CASE x # f
          <5>1. hi.asOf[x] = gi.asOf[x]
            BY <1>2, <2>10, <4>2 DEF Known
          <5>2. Whole(gi, is, x) => Whole(hi, is, x)
            BY <2>9, <2>10, <2>11, <4>2 DEF Whole, Facet
          <5> QED BY <1>3, <5>1, <5>2 DEF IssueFits, WholeIfSynced
        <4> QED BY <4>1, <4>2
      <3> QED BY <3>1, <3>2, <3>3 DEF IssueFits, WholeIfSynced
    <2>13. CorpusFits'
      BY <1>1, <1>4, <2>1, <2>4, <2>5, <2>12, PollerFits DEF AllFits, is
    <2>14. TaskFits'
      BY <2>1, TodoIsFresh, FreshTaskFits DEF Done
    <2>15. PageFits'
      BY <1>1, <1>4, OffPageFits DEF Feed
    <2> QED BY <2>13, <2>14, <2>15 DEF AllFits
  <1> QED BY <1>10, <1>11

\* The first PerPage of a set of comments, by their time and ID.
Before(texts, c, d) == texts[c].at < texts[d].at \/ (texts[c].at = texts[d].at /\ c < d)
FirstOf(texts, rest) == {c \in rest : Cardinality({d \in rest : Before(texts, d, c)}) < PerPage}

LEMMA OthersAreLater ==
  ASSUME NEW texts \in [Comment -> Text], NEW rest \in SUBSET Comment,
         NEW c \in rest, c \notin FirstOf(texts, rest), NEW d \in FirstOf(texts, rest)
  PROVE  texts[d].at <= texts[c].at
  <1> DEFINE Ahead(x) == {e \in rest : Before(texts, e, x)}
  <1>1. \A x \in rest : texts[x].at \in Nat /\ x \in Nat
    BY GitHubAssumption DEF Text
  <1>2. d \in rest
    BY DEF FirstOf
  <1> SUFFICES ASSUME texts[c].at < texts[d].at PROVE FALSE
    BY <1>1, <1>2
  <1>3. Ahead(c) \subseteq Ahead(d)
    BY <1>1, <1>2 DEF Before
  <1>4. IsFiniteSet(rest)
    BY FS_Subset, GitHubAssumption
  <1>5. Ahead(c) \subseteq rest /\ Ahead(d) \subseteq rest
    OBVIOUS
  <1>6. Cardinality(Ahead(d)) < PerPage /\ ~ (Cardinality(Ahead(c)) < PerPage)
    BY DEF FirstOf
  <1> HIDE DEF Ahead
  <1>7. IsFiniteSet(Ahead(d)) /\ IsFiniteSet(Ahead(c))
    BY <1>4, <1>5, FS_Subset
  <1>8. Cardinality(Ahead(c)) <= Cardinality(Ahead(d))
    BY <1>3, <1>7, FS_Subset
  <1>9. Cardinality(Ahead(c)) \in Nat /\ Cardinality(Ahead(d)) \in Nat /\ PerPage \in Nat
    BY <1>7, FS_CardinalityType, GitHubAssumption
  <1> QED BY <1>6, <1>8, <1>9

LEMMA FirstIsOnPage ==
  ASSUME NEW texts \in [Comment -> Text], NEW rest \in SUBSET Comment, rest # {}
  PROVE  FirstOf(texts, rest) # {}
  <1> DEFINE R == {p \in rest \X rest : Before(texts, p[1], p[2])}
  <1>1. IsFiniteSet(rest)
    BY FS_Subset, GitHubAssumption
  <1>2. \A x \in rest : texts[x].at \in Nat /\ x \in Nat
    BY GitHubAssumption DEF Text
  <1>3. \A x, y \in rest : <<x, y>> \in R <=> Before(texts, x, y)
    OBVIOUS
  <1> HIDE DEF R
  <1>4. \A x \in rest : <<x, x>> \notin R
    BY <1>2, <1>3 DEF Before
  <1>5. \A x, y, z \in rest : <<x, y>> \in R /\ <<y, z>> \in R => <<x, z>> \in R
    BY <1>2, <1>3 DEF Before
  <1>6. PICK x \in rest : \A y \in rest : <<y, x>> \notin R
    BY <1>1, <1>4, <1>5, FirstIsThere
  <1>7. {d \in rest : Before(texts, d, x)} = {}
    BY <1>3, <1>6
  <1>8. Cardinality({d \in rest : Before(texts, d, x)}) = 0 /\ PerPage \in Nat \ {0}
    BY <1>7, FS_EmptySet, GitHubAssumption
  <1> QED BY <1>8 DEF FirstOf

\* commentsUpdatedTil is the time of one of the comments, or zero.
LEMMA TilIsKnown ==
  ASSUME NEW gi \in Known, NEW t \in Nat, \A c \in Comment : gi.comments[c].at <= t
  PROVE  SinceKnown(Til(gi), gi)
  <1> DEFINE ats == {gi.comments[c].at : c \in Comment}
             ts == ats \union {0}
  <1>1. \A c \in Comment : gi.comments[c].at \in Nat
    BY DEF Known, Text
  <1>2. IsFiniteSet(ats)
    <2>1. ats \in SUBSET Nat /\ \A s \in ats : s <= t
      BY <1>1
    <2> HIDE DEF ats
    <2> QED BY <2>1, FS_BoundedSetOfNaturals
  <1>3. IsFiniteSet(ts)
    <2> HIDE DEF ats
    <2> QED BY <1>2, FS_AddElement
  <1>4. ts \in SUBSET Nat /\ ts # {}
    BY <1>1
  <1>5. \E u \in ts : \A s \in ts : s <= u
    <2> HIDE DEF ts
    <2> QED BY <1>3, <1>4, LargestIsThere
  <1>6. Til(gi) \in ts
    <2>1. Til(gi) = CHOOSE u \in ts : \A s \in ts : s <= u
      BY DEF Til
    <2> HIDE DEF ts
    <2> QED BY <1>5, <2>1
  <1>7. ASSUME NEW c \in Comment, Til(gi) = gi.comments[c].at PROVE SinceKnown(Til(gi), gi)
    BY <1>1, <1>7 DEF SinceKnown
  <1>8. CASE Til(gi) = 0
    BY <1>8 DEF SinceKnown
  <1> QED BY <1>6, <1>7, <1>8

LEMMA SyncCommentsFits ==
  ASSUME IInv, AllFits, SyncComments
  PROVE  AllFits'
  <1> DEFINE gi == mem.issues[Num]
             is == up[Num]
             texts == is.comments
             since == IF task.page = 0 THEN Til(gi) ELSE task.since
             rest == {c \in Comment : texts[c].at > 0 /\ texts[c].at >= since}
             page == FirstOf(texts, rest)
             new == {c \in page : texts[c] # gi.comments[c]}
             comments == [c \in new |-> texts[c]]
             asOf == IF page = rest THEN [f \in {"comments"} |-> now] ELSE Nothing
             m == [Mutation(Num) EXCEPT !.comments = comments, !.asOf = asOf]
             next == CHOOSE t \in {texts[c].at : c \in page} : \A c \in page : texts[c].at <= t
             hi == Updated(gi, m)
  <1>1. Num \in Issue /\ task.todo # {} /\ pend["poller"] = None /\ phase = "comments"
    BY NumIsThere DEF IInv, Cycle, SyncComments, Working, At
  <1>2. gi \in Known /\ is \in UpIssue /\ now \in Nat /\ texts \in [Comment -> Text]
    BY <1>1 DEF IInv, World, Corpora, CorpusRight, Corpus, UpIssue
  <1>3. IssueFits(gi, is, now) /\ \A c \in Comment : texts[c].at <= now
    BY <1>1 DEF AllFits, CorpusFits
  <1>4. /\ AddMutation("poller", m) /\ UNCHANGED <<disk, up, now, phase, pass>>
        /\ task' = IF page = rest THEN Done ELSE [task EXCEPT !.page = @ + 1, !.since = next]
    BY DEF SyncComments, FirstOf, Before, upstream
  <1>5. SinceKnown(since, gi)
    <2>1. CASE task.page = 0
      <3>1. \A c \in Comment : gi.comments[c].at <= now
        BY <1>3 DEF IssueFits, NewestMissing
      <3> QED BY <1>2, <2>1, <3>1, TilIsKnown
    <2>2. CASE task.page # 0
      BY <1>1, <2>2 DEF AllFits, TaskFits
    <2> QED BY <2>1, <2>2
  <1>6. rest \subseteq Comment /\ page \subseteq rest
    BY DEF FirstOf
  <1>7. \A c \in Comment : texts[c].at \in Nat /\ gi.comments[c].at \in Nat
    BY <1>2 DEF Known, Text
  <1>8. \* What is not asked for is known.
        \A c \in Comment \ rest : texts[c].at > 0 => gi.comments[c] = texts[c]
    <2> SUFFICES ASSUME NEW c \in Comment \ rest, texts[c].at > 0, gi.comments[c] # texts[c]
                 PROVE  FALSE
      OBVIOUS
    <2>1. texts[c].at < since /\ since \in Nat /\ since # 0
      BY <1>5, <1>7 DEF SinceKnown
    <2>2. PICK d \in Comment : since <= gi.comments[d].at
      BY <1>5, <2>1 DEF SinceKnown
    <2>3. gi.comments[d].at <= texts[c].at
      BY <1>3 DEF IssueFits, NewestMissing
    <2> HIDE DEF since, gi, texts
    <2> QED BY <1>7, <2>1, <2>2, <2>3
  <1>9. \A c \in rest \ page, d \in page : texts[d].at <= texts[c].at
    <2> HIDE DEF rest, texts
    <2> QED BY <1>2, <1>6, OthersAreLater
  <1>10. m = [Mutation(Num) EXCEPT !.comments = comments, !.asOf = asOf]
    OBVIOUS
  <1>11. page = rest => Over(asOf, gi.asOf) = [gi.asOf EXCEPT !["comments"] = now]
    BY <1>2 DEF Over, Known, Facet
  <1>12. page # rest => asOf = Nothing
    OBVIOUS
  <1>13. \A c \in Comment : Over(comments, gi.comments)[c] = IF c \in page THEN texts[c] ELSE gi.comments[c]
    <2>1. DOMAIN comments = new /\ \A c \in new : comments[c] = texts[c]
      OBVIOUS
    <2>2. DOMAIN gi.comments = Comment
      BY <1>2 DEF Known
    <2>3. \A c \in Comment : c \in new <=> c \in page /\ texts[c] # gi.comments[c]
      OBVIOUS
    <2> HIDE DEF comments, new, page, texts, gi
    <2> QED BY <2>1, <2>2, <2>3 DEF Over
  <1> HIDE DEF m, comments, asOf, page, rest, since, new, next
  <1>14. /\ m.num = Num /\ m.gone = FALSE /\ m.set = Nothing /\ m.asOf = asOf
         /\ m.comments = comments /\ m.feed = Nothing
    BY <1>10, FieldsAre DEF MutationFields
  <1>15. IssuesAfter(mem.issues, m)[m.num] = hi
    BY <1>1, <1>14, IssueAfter
  <1>16. \A f \in Feed : hi.feed[f] = gi.feed[f]
    BY <1>2, <1>14, FeedsStay
  <1>17. hi.fields.draft = gi.fields.draft /\ hi.fields.details = gi.fields.details
    BY <1>2, <1>14, FieldsStay
  <1>18. hi.comments = Over(comments, gi.comments) /\ hi.asOf = Over(asOf, gi.asOf)
    BY <1>2, <1>14, UpdatedIs
  <1> HIDE DEF hi, gi, is, texts
  <1>19. \A c \in Comment : hi.comments[c] = IF c \in page THEN texts[c] ELSE gi.comments[c]
    BY <1>13, <1>18
  <1>20. NewestMissing(hi, is, now)
    <2>1. ASSUME NEW d \in Comment PROVE hi.comments[d].at <= now
      BY <1>3, <1>19 DEF IssueFits, NewestMissing
    <2>2. ASSUME NEW c \in Comment, NEW d \in Comment, texts[c].at > 0, hi.comments[c] # texts[c]
          PROVE  hi.comments[d].at <= texts[c].at
      <3>1. c \notin page /\ gi.comments[c] # texts[c]
        BY <1>19, <2>2
      <3>2. c \in rest
        BY <1>8, <2>2, <3>1
      <3>3. CASE d \in page
        BY <1>9, <1>19, <3>1, <3>2, <3>3
      <3>4. CASE d \notin page
        BY <1>3, <1>19, <2>2, <3>1, <3>4 DEF IssueFits, NewestMissing, texts
      <3> QED BY <3>3, <3>4
    <2> QED BY <2>1, <2>2 DEF NewestMissing, texts
  <1>21. ASSUME NEW f \in Facet
         PROVE  hi.asOf[f] <= now /\ (hi.asOf[f] > is.fields.updated => Whole(hi, is, f))
    <2>1. gi.asOf[f] <= now /\ (gi.asOf[f] > is.fields.updated => Whole(gi, is, f))
      BY <1>3 DEF IssueFits, WholeIfSynced
    <2>2. Whole(gi, is, f) => Whole(hi, is, f)
      <3>1. CASE f = "comments"
        BY <1>19, <3>1 DEF Whole, texts
      <3>2. CASE f # "comments"
        BY <1>16, <1>17, <3>2 DEF Whole, Facet
      <3> QED BY <3>1, <3>2
    <2>3. CASE page = rest /\ f = "comments"
      <3>1. hi.asOf[f] = now
        BY <1>2, <1>11, <1>18, <2>3 DEF Known
      <3>2. \A c \in Comment : texts[c].at > 0 => hi.comments[c] = texts[c]
        BY <1>8, <1>19, <2>3
      <3>3. Whole(hi, is, f)
        BY <2>3, <3>2 DEF Whole, texts
      <3> QED BY <1>2, <3>1, <3>3
    <2>4. CASE page # rest \/ f # "comments"
      <3>1. hi.asOf[f] = gi.asOf[f]
        <4>1. CASE page = rest
          BY <1>2, <1>11, <1>18, <2>4, <4>1 DEF Known
        <4>2. CASE page # rest
          BY <1>2, <1>12, <1>18, <4>2, KnownIs
        <4> QED BY <4>1, <4>2
      <3> QED BY <2>1, <2>2, <3>1
    <2> QED BY <2>3, <2>4
  <1>22. IssueFits(hi, is, now)
    <2>1. FirstOfFeed(hi, is)
      BY <1>3, <1>16 DEF IssueFits, FirstOfFeed
    <2> QED BY <1>20, <1>21, <2>1 DEF IssueFits, WholeIfSynced
  <1>23. CorpusFits' /\ mem'.issues[Num] = hi
    BY <1>1, <1>4, <1>14, <1>15, <1>22, PollerFits DEF AllFits, is
  <1>24. PageFits'
    BY <1>1, <1>4, OffPageFits
  <1>25. CASE page = rest
    BY <1>4, <1>23, <1>24, <1>25, TodoIsFresh, FreshTaskFits DEF Done, AllFits
  <1>26. CASE page # rest
    <2>1. next \in Nat /\ \E d \in page : next = texts[d].at
      <3> DEFINE ats == {texts[c].at : c \in page}
      <3>1. ats \in SUBSET Nat /\ \A t \in ats : t <= now
        BY <1>3, <1>6, <1>7 DEF texts
      <3>2. page # {}
        <4>1. rest # {}
          BY <1>6, <1>26
        <4> QED BY <1>2, <1>6, <4>1, FirstIsOnPage DEF page
      <3>3. ats # {}
        BY <3>2
      <3>4. \E t \in ats : \A s \in ats : s <= t
        <4> HIDE DEF ats
        <4>1. IsFiniteSet(ats)
          BY <1>2, <3>1, FS_BoundedSetOfNaturals
        <4> QED BY <3>1, <3>3, <4>1, LargestIsThere
      <3>5. \E t \in ats : \A c \in page : texts[c].at <= t
        BY <3>4
      <3>6. next \in ats
        BY <3>5 DEF next
      <3> QED BY <3>1, <3>6
    <2> DEFINE c == [task EXCEPT !.page = @ + 1]
    <2>2. task' = [c EXCEPT !.since = next]
      BY <1>4, <1>26
    <2>3. c = [todo |-> task.todo, page |-> task.page + 1, since |-> task.since, got |-> task.got]
      BY DEF IInv, Cycle, TaskRight
    <2> HIDE DEF c
    <2>4. task'.todo = task.todo /\ task'.page = task.page + 1 /\ task'.since = next
      BY <2>2, <2>3
    <2>5. Num' = Num
      BY <2>4 DEF Num
    <2>6. PICK d \in page : next = texts[d].at
      BY <2>1
    <2>7. d \in Comment /\ hi.comments[d].at = next
      BY <1>6, <1>19, <2>6
    <2>8. SinceKnown(next, hi)
      BY <2>1, <2>7 DEF SinceKnown
    <2>9. task'.page # 0
      BY <2>4 DEF IInv, Cycle, TaskRight
    <2>10. TaskFits'
      BY <1>1, <1>4, <1>23, <2>4, <2>5, <2>8, <2>9 DEF TaskFits, Feed
    <2> QED BY <1>23, <1>24, <2>10 DEF AllFits
  <1> QED BY <1>25, <1>26

-----------------------------------------------------------------------------
\* An edit of the current second, and with more than the touch.
LEMMA TouchedNow ==
  ASSUME IInv, NEW i \in Issue
  PROVE  Touched(i) \in UpIssue /\ EditedNow(up[i], Touched(i))
  <1>1. Touched(i) \in UpIssue /\ up[i] \in UpIssue
    BY TouchedIs
  <1>2. Touched(i).feed = up[i].feed /\ Touched(i).comments = up[i].comments
        /\ Touched(i).fields.updated = now
    BY <1>1 DEF Touched, UpIssue, Fields
  <1>3. \A f \in Feed : up[i].feed[f] \in Nat
    BY <1>1 DEF UpIssue
  <1> QED BY <1>1, <1>2, <1>3 DEF EditedNow

\* What is edited besides the comments and the feeds.
LEMMA RestEdited ==
  ASSUME NEW is, NEW t, NEW js, EditedNow(is, t),
         js.fields.updated = t.fields.updated, js.feed = t.feed, js.comments = t.comments
  PROVE  EditedNow(is, js)
  BY DEF EditedNow

LEMMA FeedEdited ==
  ASSUME NEW is \in UpIssue, NEW t \in UpIssue, EditedNow(is, t), NEW x \in Feed
  PROVE  LET js == [t EXCEPT !.feed[x] = @ + 1] IN js \in UpIssue /\ EditedNow(is, js)
  <1> DEFINE js == [t EXCEPT !.feed[x] = @ + 1]
  <1>1. js \in UpIssue
    BY FeedGrows
  <1>2. js.fields = t.fields /\ js.comments = t.comments
        /\ \A f \in Feed : js.feed[f] = IF f = x THEN t.feed[f] + 1 ELSE t.feed[f]
    BY DEF UpIssue
  <1>3. \A f \in Feed : is.feed[f] \in Nat /\ t.feed[f] \in Nat
    BY DEF UpIssue
  <1> HIDE DEF js
  <1>4. \A f \in Feed : is.feed[f] <= js.feed[f]
    BY <1>2, <1>3 DEF EditedNow
  <1>5. EditedNow(is, js)
    BY <1>2, <1>4 DEF EditedNow
  <1> QED BY <1>1, <1>5 DEF js

LEMMA NowFits ==
  ASSUME IInv, AllFits, NEW i \in Issue, NEW is \in UpIssue, Edit(i, is), EditedNow(up[i], is)
  PROVE  AllFits'
  BY EditFits DEF EditOf

LEMMA OpenIssueFits ==
  ASSUME IInv, AllFits, NEW i \in Issue, OpenIssue(i)
  PROVE  AllFits'
  BY TouchedNow, NowFits DEF OpenIssue

LEMMA CloseOrReopenFits ==
  ASSUME IInv, AllFits, NEW i \in Issue, CloseOrReopen(i)
  PROVE  AllFits'
  <1> DEFINE closed == ~ up[i].fields.closed
             at == IF closed THEN now ELSE 0
             t == Touched(i)
             c1 == [t EXCEPT !.fields.closed = closed]
             c2 == [c1 EXCEPT !.fields.closedAt = at]
             c3 == [c2 EXCEPT !.feed["events"] = @ + 1]
  <1>1. Edit(i, c3)
    BY DEF CloseOrReopen
  <1>2. t \in UpIssue /\ EditedNow(up[i], t) /\ closed \in BOOLEAN /\ at \in Nat /\ up[i] \in UpIssue
    BY TouchedNow, TouchedIs DEF IInv, World
  <1> HIDE DEF t, closed, at
  <1>3. c1 \in UpIssue /\ c1.fields.updated = t.fields.updated /\ c1.feed = t.feed
        /\ c1.comments = t.comments
    BY <1>2 DEF UpIssue, Fields
  <1> HIDE DEF c1
  <1>4. c2 \in UpIssue /\ c2.fields.updated = c1.fields.updated /\ c2.feed = c1.feed
        /\ c2.comments = c1.comments
    BY <1>2, <1>3 DEF UpIssue, Fields
  <1> HIDE DEF c2
  <1>5. EditedNow(up[i], c2)
    BY <1>2, <1>3, <1>4, RestEdited
  <1>6. c3 \in UpIssue /\ EditedNow(up[i], c3)
    BY <1>2, <1>4, <1>5, FeedEdited DEF Feed
  <1> HIDE DEF c3
  <1> QED BY <1>1, <1>6, NowFits

LEMMA AddOrRemoveLabelFits ==
  ASSUME IInv, AllFits, NEW i \in Issue, AddOrRemoveLabel(i)
  PROVE  AllFits'
  <1>1. PICK l \in Label :
          Edit(i, [Touched(i) EXCEPT !.labels = IF l \in @ THEN @ \ {l} ELSE @ \union {l},
                                     !.feed["events"] = @ + 1])
    BY DEF AddOrRemoveLabel
  <1> DEFINE t == Touched(i)
             labels == IF l \in t.labels THEN t.labels \ {l} ELSE t.labels \union {l}
             c1 == [t EXCEPT !.labels = labels]
             c2 == [c1 EXCEPT !.feed["events"] = @ + 1]
  <1>2. Edit(i, c2)
    BY <1>1
  <1>3. t \in UpIssue /\ EditedNow(up[i], t) /\ up[i] \in UpIssue
    BY TouchedNow, TouchedIs
  <1> HIDE DEF t
  <1>4. labels \subseteq Label
    BY <1>3 DEF UpIssue
  <1> HIDE DEF labels
  <1>5. c1 \in UpIssue /\ c1.fields = t.fields /\ c1.feed = t.feed /\ c1.comments = t.comments
    BY <1>3, <1>4 DEF UpIssue
  <1> HIDE DEF c1
  <1>6. EditedNow(up[i], c1)
    BY <1>3, <1>5, RestEdited
  <1>7. c2 \in UpIssue /\ EditedNow(up[i], c2)
    BY <1>3, <1>5, <1>6, FeedEdited DEF Feed
  <1> HIDE DEF c2
  <1> QED BY <1>2, <1>7, NowFits

LEMMA WriteCommentFits ==
  ASSUME IInv, AllFits, NEW i \in Issue, WriteComment(i)
  PROVE  AllFits'
  <1>1. PICK c \in Comment : Edit(i, [Touched(i) EXCEPT !.comments[c] = [at |-> now, body |-> edits + 1]])
    BY DEF WriteComment
  <1> DEFINE t == Touched(i)
             text == [at |-> now, body |-> edits + 1]
             is == [t EXCEPT !.comments[c] = text]
  <1>2. t \in UpIssue /\ EditedNow(up[i], t) /\ text \in Text /\ text.at = now
    BY TouchedNow DEF IInv, World, Text
  <1> HIDE DEF t, text
  <1>3. /\ is \in UpIssue /\ is.fields = t.fields /\ is.feed = t.feed
        /\ \A d \in Comment : is.comments[d] = IF d = c THEN text ELSE t.comments[d]
    BY <1>2 DEF UpIssue
  <1>4. Edit(i, is)
    BY <1>1 DEF t, text
  <1> HIDE DEF is
  <1>5. EditedNow(up[i], is)
    BY <1>2, <1>3 DEF EditedNow
  <1> QED BY <1>3, <1>4, <1>5, NowFits

LEMMA WorkOnPRFits ==
  ASSUME IInv, AllFits, NEW i \in Issue, WorkOnPR(i)
  PROVE  AllFits'
  <1> DEFINE t == Touched(i)
             c1 == [t EXCEPT !.fields.draft = ~ @]
             c2 == [c1 EXCEPT !.feed["events"] = @ + 1]
             c3 == [t EXCEPT !.fields.details = @ + 1]
             c4 == [t EXCEPT !.feed["reviews"] = @ + 1]
  <1>1. Edit(i, c2) \/ Edit(i, c3) \/ Edit(i, c4)
    BY DEF WorkOnPR
  <1>2. t \in UpIssue /\ EditedNow(up[i], t) /\ up[i] \in UpIssue
    BY TouchedNow, TouchedIs
  <1> HIDE DEF t
  <1>3. c1 \in UpIssue /\ c1.fields.updated = t.fields.updated /\ c1.feed = t.feed
        /\ c1.comments = t.comments
    BY <1>2 DEF UpIssue, Fields
  <1>4. c3 \in UpIssue /\ c3.fields.updated = t.fields.updated /\ c3.feed = t.feed
        /\ c3.comments = t.comments
    BY <1>2 DEF UpIssue, Fields
  <1>5. c4 \in UpIssue /\ EditedNow(up[i], c4)
    BY <1>2, FeedEdited DEF Feed
  <1> HIDE DEF c1, c3, c4
  <1>6. EditedNow(up[i], c1) /\ EditedNow(up[i], c3)
    BY <1>2, <1>3, <1>4, RestEdited
  <1>7. c2 \in UpIssue /\ EditedNow(up[i], c2)
    BY <1>2, <1>3, <1>6, FeedEdited DEF Feed
  <1> HIDE DEF c2
  <1> QED BY <1>1, <1>4, <1>5, <1>6, <1>7, NowFits

LEMMA DeleteIssueFits ==
  ASSUME IInv, AllFits, NEW i \in Issue, DeleteIssue(i)
  PROVE  AllFits'
  <1> DEFINE is == [up[i] EXCEPT !.gone = TRUE]
  <1>1. up[i] \in UpIssue
    BY TouchedIs
  <1>2. is \in UpIssue
    BY <1>1 DEF UpIssue
  <1>3. is.fields = up[i].fields /\ is.comments = up[i].comments /\ is.feed = up[i].feed
    BY <1>1 DEF UpIssue
  <1>4. Edit(i, is)
    BY DEF DeleteIssue
  <1> HIDE DEF is
  <1> QED BY <1>2, <1>3, <1>4, EditFits DEF EditOf

\* Nothing that counts has changed.
LEMMA AllStaysFit ==
  ASSUME AllFits, UNCHANGED <<now, up, mem, disk, pend, phase, pass, task>>
  PROVE  AllFits'
  <1>1. CorpusFits'
    BY CorpusStays DEF AllFits
  <1> QED BY <1>1, PageStaysFit, TaskStaysFit DEF AllFits

LEMMA FitsInit == Init => AllFits
  <1> SUFFICES ASSUME Init PROVE AllFits
    OBVIOUS
  <1>1. \A i \in Issue, c \in Comment : up[i].comments[c].at <= now
    BY GitHubAssumption DEF Init
  <1>2. /\ \A c \in Comment : Blank.comments[c].at = 0
        /\ \A f \in Feed : Blank.feed[f] = {}
        /\ \A f \in Facet : Blank.asOf[f] = 0
    BY DEF Blank, NoText
  <1>3. ASSUME NEW i \in Issue PROVE IssueFits(Blank, up[i], now)
    <2>1. up[i] \in UpIssue /\ now \in Nat
      BY GitHubAssumption DEF Init
    <2>2. /\ up[i].fields.updated \in Nat /\ \A f \in Feed : up[i].feed[f] \in Nat
          /\ \A c \in Comment : up[i].comments[c].at \in Nat
      BY <2>1 DEF UpIssue, Fields, Text
    <2>3. WholeIfSynced(Blank, up[i], now)
      BY <1>2, <2>1, <2>2 DEF WholeIfSynced
    <2>4. NewestMissing(Blank, up[i], now)
      BY <1>2, <2>1, <2>2 DEF NewestMissing
    <2>5. FirstOfFeed(Blank, up[i])
      <3> SUFFICES ASSUME NEW f \in Feed PROVE \E k \in 0 .. up[i].feed[f] : Blank.feed[f] = 1 .. k
        BY DEF FirstOfFeed
      <3>1. 0 \in 0 .. up[i].feed[f] /\ 1 .. 0 = {}
        BY <2>2
      <3> QED BY <1>2, <3>1
    <2> QED BY <2>3, <2>4, <2>5 DEF IssueFits
  <1>4. \A i \in Issue : mem.issues[i] = Blank /\ disk.issues[i] = Blank
    BY DEF Init, EmptyCorpus
  <1>5. LogIsSame
    BY DEF Init, LogIsSame, Process
  <1>6. CorpusFits
    BY <1>1, <1>3, <1>4, <1>5 DEF CorpusFits
  <1>7. PageFits
    BY DEF Init, PageFits
  <1>8. TaskFits
    BY DEF Init, TaskFits, NoTask
  <1> QED BY <1>6, <1>7, <1>8 DEF AllFits

LEMMA FitsNext == IInv /\ AllFits /\ [Next]_vars => AllFits'
  <1> SUFFICES ASSUME IInv, AllFits, [Next]_vars PROVE AllFits'
    OBVIOUS
  <1>1. CASE Poller
    <2>1. CASE BeginCycle
      BY <2>1, BeginCycleFits
    <2>2. CASE ListIssues
      BY <2>2, ListIssuesFits
    <2>3. CASE SkipIssue
      BY <2>3, SkipIssueFits
    <2>4. CASE StartLists
      BY <2>4, StartListsFits
    <2>5. CASE ChangeIssue
      BY <2>5, ChangeIssueFits
    <2>6. CASE EndOfPage
      BY <2>6, EndOfPageFits
    <2>7. ASSUME NEW l \in List, GetNames(l) PROVE AllFits'
      BY <2>7, GetNamesFits
    <2>8. CASE ListsDone
      BY <2>8, ListsDoneFits
    <2>9. CASE SyncComments
      BY <2>9, SyncCommentsFits
    <2>10. CASE SyncEvents \/ SyncReviews
      BY <2>10, SyncFeedFits DEF SyncEvents, SyncReviews, Feed
    <2>11. CASE SyncDetails
      BY <2>11, SyncDetailsFits
    <2>12. ASSUME NEW f \in Facet, Gone(f) PROVE AllFits'
      BY <2>12, GoneFits
    <2>13. CASE EndOfFacet
      BY <2>13, EndOfFacetFits
    <2>14. ASSUME NEW p \in Process, Log(p) PROVE AllFits'
      BY <2>14, LogStepFits
    <2> QED BY <1>1, <2>1, <2>2, <2>3, <2>4, <2>5, <2>6, <2>7, <2>8, <2>9, <2>10, <2>11,
               <2>12, <2>13, <2>14 DEF Poller
  <1>2. CASE CycleFails
    BY <1>2, CycleFailsFits
  <1>3. CASE Crash
    BY <1>3, CrashFits
  <1>4. ASSUME NEW l \in List, ListFails(l) PROVE AllFits'
    BY <1>4, ListFailsFits
  <1>5. CASE Tick
    BY <1>5, TickFits
  <1>6. CASE GitHub
    <2>1. ASSUME NEW i \in Issue, OpenIssue(i) \/ CloseOrReopen(i) PROVE AllFits'
      BY <2>1, OpenIssueFits, CloseOrReopenFits
    <2>2. ASSUME NEW i \in Issue, AddOrRemoveLabel(i) \/ WriteComment(i) PROVE AllFits'
      BY <2>2, AddOrRemoveLabelFits, WriteCommentFits
    <2>3. ASSUME NEW i \in Issue, WorkOnPR(i) \/ DeleteIssue(i) PROVE AllFits'
      BY <2>3, WorkOnPRFits, DeleteIssueFits
    <2>4. CASE Rename
      BY <2>4, AllStaysFit DEF Rename, Editing
    <2> QED BY <1>6, <2>1, <2>2, <2>3, <2>4 DEF GitHub
  <1>7. CASE UNCHANGED vars
    BY <1>7, AllStaysFit DEF vars
  <1> QED BY <1>1, <1>2, <1>3, <1>4, <1>5, <1>6, <1>7 DEF Next

\* An issue that the corpus has as last updated, and whose comments, events, reviews or
\* pull request details commentsSynced, eventsSynced, reviewsSynced or prDetailsSynced
\* takes for synced, has all of them, whatever is edited while the pages of issues and
\* of facets are read, and whatever fails or crashes between them.
THEOREM SyncedAreWhole == Spec => []SyncedIsWhole
  <1>1. IInv /\ AllFits => SyncedIsWhole
    BY DEF AllFits, CorpusFits, IssueFits, WholeIfSynced, SyncedIsWhole, Synced
  <1>2. Init => IInv /\ AllFits
    BY IInvInit, FitsInit
  <1>3. IInv /\ AllFits /\ [Next]_vars => IInv' /\ AllFits'
    BY IInvNext, FitsNext
  <1> QED BY <1>1, <1>2, <1>3, PTL DEF Spec
=============================================================================
