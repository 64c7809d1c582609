------------------------ MODULE GitHubProjectsProofs ------------------------
(***************************************************************************)
(* Proofs about GitHubProjects, for any callers, issues, projects and      *)
(* fields, any edits on GitHub and any number of crashes: types, the count *)
(* of items, that LastModified covers what the corpus has, and that a call *)
(* which met no other leaves what GitHub answered.                         *)
(*                                                                         *)
(* The count stays right because a mutation never brings and removes one   *)
(* item: what it brings is in the answer, what it removes is not.  For     *)
(* LastModified, each mutation carries, with what it sets, the time at     *)
(* which that came to be, or a later one: that of the item, of the event   *)
(* or of the answer.  This holds of any mutation and any corpus, so that   *)
(* neither the order in which callers log nor a crash can break it.        *)
(***************************************************************************)
EXTENDS GitHubProjects, FiniteSetTheorems, WellFoundedInduction, TLAPS

IssueMutation ==
  [kind : {"issue"}, num : Issue, items : [Project -> Item], removed : SUBSET Project,
   events : SUBSET EditNum, times : {S \in SUBSET Nat : IsFiniteSet(S)}, type : Nat,
   fieldsSynced : BOOLEAN, fields : [Name -> Nat], changesSynced : BOOLEAN, changes : Nat,
   meta : Nat]
SchemaMutation == [kind : {"project"}, num : Project, schema : Schema]
Job ==
  [phase : {"items", "add", "done"}, snap : UpIssue, boards : [Project -> Schema], date : Nat,
   todo : SUBSET Project, mut : IssueMutation]

\* Edit k was made at time t or earlier; w has the times of the edits made.
By(w, k, t) == k \in DOMAIN w /\ w[k] <= t
ItemBy(w, item, t) ==
  /\ By(w, item.id, t)
  /\ \A f \in Field : item.values[f] # 0 => By(w, item.values[f], t)

\* What GitHub has, or had at time t.
Dated(w, is, t) ==
  /\ \A j \in Items(is) : ItemBy(w, is.items[j], is.items[j].updated) /\ is.items[j].updated <= t
  /\ \A k \in is.events : By(w, k, t)
  /\ is.type # 0 => By(w, is.type, t)
  /\ \A n \in Name : is.fields[n] # 0 => By(w, is.fields[n], t)

\* A mutation has the times of what it sets, but for an answer that had no Date.
MutDated(w, m) ==
  /\ \A j \in Brought(m) : ItemBy(w, m.items[j], m.items[j].updated)
  /\ \A k \in m.events : k \in DOMAIN w /\ w[k] \in m.times
  /\ m.type # 0 /\ m.meta # 0 => By(w, m.type, m.meta)
  /\ m.fieldsSynced /\ m.meta # 0 => \A n \in Name : m.fields[n] # 0 => By(w, m.fields[n], m.meta)

Apart(m) == Brought(m) \intersect m.removed = {}
MutRight(w, m) ==
  \/ m \in SchemaMutation
  \/ m \in IssueMutation /\ Apart(m) /\ MutDated(w, m)

\* What the corpus has of an issue was there by its two times.
Covered(w, gi) ==
  /\ \A j \in Items(gi) :
       ItemBy(w, gi.items[j], gi.eventMaxTime) /\ gi.items[j].updated <= gi.eventMaxTime
  /\ \A k \in gi.events : By(w, k, gi.eventMaxTime)
  /\ ~ gi.undated =>
       /\ gi.type # 0 => By(w, gi.type, gi.metaChangedAt)
       /\ \A n \in Name : gi.fields[n] # 0 => By(w, gi.fields[n], gi.metaChangedAt)

Present(c) == {k \in Issue \X Project : c.issues[k[1]].items[k[2]].id # 0}
CorpusRight(w, c) ==
  /\ c \in Corpus
  /\ c.numItems = Cardinality(Present(c))
  /\ \A i \in Issue : Covered(w, c.issues[i])

\* A caller's mutation brings what its answer has, and removes what it has not.
JobRight(w, j) ==
  /\ MutDated(w, j.mut) /\ \E t \in Nat : Dated(w, j.snap, t) /\ j.date \in {0, t}
  /\ j.todo \union Brought(j.mut) \subseteq Items(j.snap)
  /\ j.mut.removed \intersect Items(j.snap) = {}

\* v has the times that w has, and may have more.
Dating(w) == \A k \in DOMAIN w : w[k] \in Nat
Extends(v, w) == DOMAIN w \subseteq DOMAIN v /\ \A k \in DOMAIN w : v[k] = w[k]

Dates == [k \in 1 .. edits |-> when[k]]

World ==
  /\ now \in Nat /\ edits \in 0 .. MaxEdits
  /\ boards \in [Project -> Schema]
  /\ when \in [EditNum -> Nat] /\ \A k \in 1 .. edits : when[k] <= now
  /\ up \in [Issue -> UpIssue] /\ \A i \in Issue : Dated(Dates, up[i], now)
Corpora == CorpusRight(Dates, mem) /\ CorpusRight(Dates, disk)
Pending ==
  /\ pend \in [Process -> {None} \union IssueMutation \union SchemaMutation]
  /\ \A p \in Process : pend[p] # None => MutRight(Dates, pend[p])
Jobs ==
  /\ job \in [Process -> {Idle} \union Job]
  /\ \A p \in Process : job[p] # Idle => JobRight(Dates, job[p])

IInv == World /\ Corpora /\ Pending /\ Jobs /\ faults \in 0 .. MaxFaults /\ alone \subseteq Process

-----------------------------------------------------------------------------
\* A finite set of times has a latest one: the times after a time are more than
\* those after a later one.
LEMMA LatestIsThere ==
  ASSUME NEW S \in SUBSET Nat, IsFiniteSet(S), S # {}
  PROVE  Latest(S) \in S /\ \A s \in S : s <= Latest(S)
  <1> DEFINE Later(t) == {s \in S : s > t}
             T == {Later(t) : t \in S}
  <1>1. T \subseteq FiniteSubsetsOf(S) /\ T # {}
    <2>1. T \subseteq SUBSET S /\ T # {}
      OBVIOUS
    <2> HIDE DEF T
    <2> QED BY <2>1, FS_FiniteSubsetsOfFinite
  <1>2. PICK X \in T : \A Y \in T : ~ (<<Y, X>> \in StrictSubsetOrdering(S))
    <2> HIDE DEF T
    <2> QED BY <1>1, WFMin, FS_StrictSubsetOrderingWellFounded
  <1>3. PICK t \in S : X = Later(t)
    BY <1>2
  <1>4. \A s \in S : s <= t
    <2> SUFFICES ASSUME NEW s \in S, s > t PROVE FALSE
      OBVIOUS
    <2>0. S \subseteq Nat /\ s \in Nat /\ t \in Nat
      OBVIOUS
    <2>1. Later(s) \subseteq Later(t)
      <3>1. ASSUME NEW x \in S, x > s PROVE x > t
        BY <3>1, <2>0
      <3> QED BY <3>1
    <2>2. s \in Later(t) /\ s \notin Later(s)
      BY <2>0
    <2>3. <<Later(s), Later(t)>> \in StrictSubsetOrdering(S)
      BY <2>1, <2>2 DEF StrictSubsetOrdering
    <2> QED BY <1>2, <1>3, <2>3
  <1> QED BY <1>4 DEF Latest

LEMMA ImageIsFinite ==
  ASSUME NEW S, IsFiniteSet(S), NEW f, S \subseteq DOMAIN f
  PROVE  IsFiniteSet({f[x] : x \in S})
  <1> DEFINE T == {f[x] : x \in S}
             g == [x \in S |-> f[x]]
  <1>1. g \in Surjection(S, T)
    BY DEF Surjection
  <1> HIDE DEF g, T
  <1>2. IsFiniteSet(T)
    BY <1>1, FS_Surjection
  <1> QED BY <1>2 DEF T

\* What holds of the times of some edits, by some time, holds when more is edited, later.
LEMMA ByGrows ==
  ASSUME NEW w, NEW v, Dating(w), Extends(v, w), NEW k, NEW t \in Nat, NEW u \in Nat, t <= u,
         By(w, k, t)
  PROVE  By(v, k, u)
  BY DEF Dating, Extends, By

LEMMA ItemByGrows ==
  ASSUME NEW w, NEW v, Dating(w), Extends(v, w), NEW item, NEW t \in Nat, NEW u \in Nat, t <= u,
         ItemBy(w, item, t)
  PROVE  ItemBy(v, item, u)
  <1>1. By(v, item.id, u)
    BY ByGrows DEF ItemBy
  <1>2. ASSUME NEW f \in Field, item.values[f] # 0 PROVE By(v, item.values[f], u)
    BY <1>2, ByGrows DEF ItemBy
  <1> QED BY <1>1, <1>2 DEF ItemBy

LEMMA DatedGrows ==
  ASSUME NEW w, NEW v, Dating(w), Extends(v, w), NEW is \in UpIssue,
         NEW t \in Nat, NEW u \in Nat, t <= u, Dated(w, is, t)
  PROVE  Dated(v, is, u)
  <1>1. ASSUME NEW j \in Items(is)
        PROVE  ItemBy(v, is.items[j], is.items[j].updated) /\ is.items[j].updated <= u
    <2>1. is.items[j].updated \in Nat
      BY DEF Items, UpIssue, Item
    <2>2. ItemBy(w, is.items[j], is.items[j].updated) /\ is.items[j].updated <= t
      BY DEF Dated
    <2>3. ItemBy(v, is.items[j], is.items[j].updated)
      BY <2>1, <2>2, ItemByGrows
    <2> QED BY <2>1, <2>2, <2>3
  <1>2. \A k \in is.events : By(v, k, u)
    BY ByGrows DEF Dated
  <1>3. is.type # 0 => By(v, is.type, u)
    BY ByGrows DEF Dated
  <1>4. \A n \in Name : is.fields[n] # 0 => By(v, is.fields[n], u)
    BY ByGrows DEF Dated
  <1> QED BY <1>1, <1>2, <1>3, <1>4 DEF Dated

LEMMA MutDatedGrows ==
  ASSUME NEW w, NEW v, Dating(w), Extends(v, w), NEW m \in IssueMutation, MutDated(w, m)
  PROVE  MutDated(v, m)
  <1>1. ASSUME NEW j \in Brought(m) PROVE ItemBy(v, m.items[j], m.items[j].updated)
    <2>1. m.items[j].updated \in Nat
      BY DEF Brought, IssueMutation, Item
    <2> QED BY <2>1, ItemByGrows DEF MutDated
  <1>2. \A k \in m.events : k \in DOMAIN v /\ v[k] \in m.times
    BY DEF MutDated, Extends
  <1>3. m.meta \in Nat
    BY DEF IssueMutation
  <1>4. m.type # 0 /\ m.meta # 0 => By(v, m.type, m.meta)
    BY <1>3, ByGrows DEF MutDated
  <1>5. m.fieldsSynced /\ m.meta # 0 => \A n \in Name : m.fields[n] # 0 => By(v, m.fields[n], m.meta)
    BY <1>3, ByGrows DEF MutDated
  <1> QED BY <1>1, <1>2, <1>4, <1>5 DEF MutDated

LEMMA MutRightGrows ==
  ASSUME NEW w, NEW v, Dating(w), Extends(v, w), NEW m, MutRight(w, m)
  PROVE  MutRight(v, m)
  BY MutDatedGrows DEF MutRight

LEMMA CorpusRightGrows ==
  ASSUME NEW w, NEW v, Dating(w), Extends(v, w), NEW c, CorpusRight(w, c)
  PROVE  CorpusRight(v, c)
  <1> SUFFICES ASSUME NEW i \in Issue PROVE Covered(v, c.issues[i])
    BY DEF CorpusRight
  <1> DEFINE gi == c.issues[i]
  <1>1. gi.eventMaxTime \in Nat /\ gi.metaChangedAt \in Nat /\ Covered(w, gi)
    BY DEF CorpusRight, Corpus, Known
  <1> HIDE DEF gi
  <1>2. \A j \in Items(gi) :
          ItemBy(v, gi.items[j], gi.eventMaxTime) /\ gi.items[j].updated <= gi.eventMaxTime
    BY <1>1, ItemByGrows DEF Covered
  <1>3. \A k \in gi.events : By(v, k, gi.eventMaxTime)
    BY <1>1, ByGrows DEF Covered
  <1>4. ~ gi.undated /\ gi.type # 0 => By(v, gi.type, gi.metaChangedAt)
    BY <1>1, ByGrows DEF Covered
  <1>5. ~ gi.undated => \A n \in Name : gi.fields[n] # 0 => By(v, gi.fields[n], gi.metaChangedAt)
    BY <1>1, ByGrows DEF Covered
  <1>6. Covered(v, gi)
    BY <1>2, <1>3, <1>4, <1>5 DEF Covered
  <1> QED BY <1>6 DEF gi

LEMMA JobRightGrows ==
  ASSUME NEW w, NEW v, Dating(w), Extends(v, w), NEW j \in Job, JobRight(w, j)
  PROVE  JobRight(v, j)
  <1>1. j.snap \in UpIssue /\ j.date \in Nat /\ j.mut \in IssueMutation
    BY DEF Job
  <1>2. PICK t \in Nat : Dated(w, j.snap, t) /\ j.date \in {0, t}
    BY DEF JobRight
  <1>3. Dated(v, j.snap, t) /\ MutDated(v, j.mut)
    BY <1>1, <1>2, DatedGrows, MutDatedGrows DEF JobRight
  <1> QED BY <1>2, <1>3 DEF JobRight

-----------------------------------------------------------------------------
\* The times of an issue move to cover what a mutation brings.
LEMMA EventMaxTimeCovers ==
  ASSUME NEW gi \in Known, NEW m \in IssueMutation
  PROVE  /\ EventMaxTime(gi, m) \in Nat
         /\ gi.eventMaxTime <= EventMaxTime(gi, m)
         /\ \A t \in m.times : t <= EventMaxTime(gi, m)
         /\ \A j \in Brought(m) : m.items[j].updated <= EventMaxTime(gi, m)
  <1> DEFINE at == [j \in Project |-> m.items[j].updated]
             B == {at[j] : j \in Brought(m)}
             T == {m.items[j].updated : j \in Brought(m)}
             S == {gi.eventMaxTime} \union m.times \union T
  <1>1. T = B
    BY DEF Brought
  <1>2. IsFiniteSet(Brought(m))
    <2>1. Brought(m) \in SUBSET Project
      BY DEF Brought
    <2> QED BY <2>1, FS_Subset, ProjectsAssumption
  <1>3. Brought(m) \subseteq DOMAIN at
    BY DEF Brought
  <1>4. IsFiniteSet(B)
    <2> HIDE DEF at
    <2> QED BY <1>2, <1>3, ImageIsFinite
  <1>5. T \subseteq Nat
    BY DEF Brought, IssueMutation, Item
  <1>6. gi.eventMaxTime \in Nat /\ m.times \subseteq Nat /\ IsFiniteSet(m.times)
    BY DEF Known, IssueMutation
  <1>7. IsFiniteSet(S)
    <2> HIDE DEF B, T
    <2>1. IsFiniteSet({gi.eventMaxTime} \union m.times)
      BY <1>6, FS_Singleton, FS_Union
    <2> QED BY <2>1, <1>1, <1>4, FS_Union
  <1>8. S \in SUBSET Nat /\ S # {}
    BY <1>5, <1>6
  <1>9. Latest(S) \in S /\ \A s \in S : s <= Latest(S)
    <2> HIDE DEF S
    <2> QED BY <1>7, <1>8, LatestIsThere
  <1>10. EventMaxTime(gi, m) = Latest(S)
    BY DEF EventMaxTime
  <1>11. Latest(S) \in Nat
    BY <1>8, <1>9
  <1>12. \A j \in Brought(m) : m.items[j].updated \in S
    OBVIOUS
  <1> QED BY <1>9, <1>10, <1>11, <1>12

LEMMA LatestOfTwo ==
  ASSUME NEW a \in Nat, NEW b \in Nat
  PROVE  Latest({a, b}) \in Nat /\ a <= Latest({a, b}) /\ b <= Latest({a, b})
  <1>1. IsFiniteSet({a, b})
    <2>1. IsFiniteSet({a})
      BY FS_Singleton
    <2>2. IsFiniteSet({a} \union {b})
      BY <2>1, FS_AddElement
    <2>3. {a, b} = {a} \union {b}
      OBVIOUS
    <2> QED BY <2>2, <2>3
  <1> QED BY <1>1, LatestIsThere

LEMMA UpdatedCovers ==
  ASSUME NEW w, Dating(w), NEW gi \in Known, Covered(w, gi),
         NEW m \in IssueMutation, MutDated(w, m), NEW projects \in [Project -> Schema]
  PROVE  Updated(gi, m, projects) \in Known /\ Covered(w, Updated(gi, m, projects))
  <1> DEFINE e == EventMaxTime(gi, m)
             a == Latest({gi.metaChangedAt, m.meta})
             new == Updated(gi, m, projects)
  <1>1. e \in Nat /\ gi.eventMaxTime <= e /\ (\A t \in m.times : t <= e)
        /\ \A j \in Brought(m) : m.items[j].updated <= e
    BY EventMaxTimeCovers
  <1>2. gi.metaChangedAt \in Nat /\ m.meta \in Nat /\ gi.eventMaxTime \in Nat
    BY DEF Known, IssueMutation
  <1>3. a \in Nat /\ gi.metaChangedAt <= a /\ m.meta <= a
    BY <1>2, LatestOfTwo
  <1>4. NoItem \in Item
    BY DEF NoItem, Item, Values
  <1>5. new.eventMaxTime = e /\ new.metaChangedAt = a
    BY DEF Updated
  <1> HIDE DEF e, a
  <1>6. new \in Known
    <2>1. new.items \in [Project -> Item]
      BY <1>4 DEF Updated, Known, IssueMutation
    <2>2. new.linked \in SUBSET Project
      BY DEF Updated, Known, IssueMutation, Brought
    <2>3. new.events \in SUBSET EditNum
      BY DEF Updated, Known, IssueMutation
    <2>4. new.type \in Nat /\ new.changes \in Nat
      BY DEF Updated, Known, IssueMutation
    <2>5. new.fields \in [Name -> Nat]
      BY DEF Updated, Known, IssueMutation
    <2>6. new = [items |-> new.items, linked |-> new.linked, events |-> new.events,
                 type |-> new.type, fields |-> new.fields, changes |-> new.changes,
                 eventMaxTime |-> new.eventMaxTime, metaChangedAt |-> new.metaChangedAt,
                 undated |-> new.undated]
      BY DEF Updated
    <2>7. new.undated \in BOOLEAN
      BY DEF Updated, Known
    <2> HIDE DEF new
    <2> QED BY <2>1, <2>2, <2>3, <2>4, <2>5, <2>6, <2>7, <1>1, <1>3, <1>5 DEF Known
  <1>7. ASSUME NEW x, NEW t \in Nat, NEW u \in Nat, t <= u
        PROVE  /\ By(w, x, t) => By(w, x, u)
               /\ ItemBy(w, x, t) => ItemBy(w, x, u)
    <2>1. Extends(w, w)
      BY DEF Extends
    <2> QED BY <1>7, <2>1, ByGrows, ItemByGrows
  <1>8. ASSUME NEW j \in Items(new)
        PROVE  ItemBy(w, new.items[j], e) /\ new.items[j].updated <= e
    <2>1. j \in Project /\ new.items[j].id # 0
      BY DEF Items
    <2>2. j \notin m.removed
      BY <2>1 DEF Updated, NoItem
    <2>3. CASE j \in Brought(m)
      <3>1. new.items[j] = m.items[j]
        BY <2>1, <2>2, <2>3 DEF Updated
      <3>2. m.items[j].updated \in Nat
        BY <2>1 DEF IssueMutation, Item
      <3>3. ItemBy(w, m.items[j], m.items[j].updated)
        BY <2>3 DEF MutDated
      <3> QED BY <2>3, <3>1, <3>2, <3>3, <1>1, <1>7
    <2>4. CASE j \notin Brought(m)
      <3>1. new.items[j] = gi.items[j]
        BY <2>1, <2>2, <2>4 DEF Updated
      <3>2. ItemBy(w, gi.items[j], gi.eventMaxTime) /\ gi.items[j].updated <= gi.eventMaxTime
        BY <2>1, <3>1 DEF Covered, Items
      <3>3. gi.items[j].updated \in Nat
        BY <2>1 DEF Known, Item
      <3>4. gi.items[j].updated <= e
        BY <3>2, <3>3, <1>1, <1>2
      <3> QED BY <3>1, <3>2, <3>4, <1>1, <1>2, <1>7
    <2> QED BY <2>3, <2>4
  <1>9. ASSUME NEW k \in new.events PROVE By(w, k, e)
    <2>1. k \in gi.events \/ k \in m.events
      BY DEF Updated
    <2>2. CASE k \in gi.events
      BY <2>2, <1>1, <1>2, <1>7 DEF Covered
    <2>3. CASE k \in m.events
      BY <2>3, <1>1 DEF MutDated, By
    <2> QED BY <2>1, <2>2, <2>3
  <1>10. new.undated = (gi.undated \/ (m.meta = 0 /\ (m.fieldsSynced \/ m.type # 0)))
    BY DEF Updated
  <1>11. ASSUME ~ new.undated, new.type # 0 PROVE By(w, new.type, a)
    <2>1. CASE m.type # 0
      <3>1. new.type = m.type
        BY <2>1 DEF Updated
      <3>2. m.meta # 0
        BY <2>1, <1>10, <1>11
      <3> QED BY <2>1, <3>1, <3>2, <1>2, <1>3, <1>7 DEF MutDated
    <2>2. CASE m.type = 0
      <3>1. new.type = gi.type
        BY <2>2 DEF Updated
      <3> QED BY <3>1, <1>2, <1>3, <1>7, <1>10, <1>11 DEF Covered
    <2> QED BY <2>1, <2>2
  <1>12. ASSUME ~ new.undated, NEW n \in Name, new.fields[n] # 0 PROVE By(w, new.fields[n], a)
    <2>1. CASE m.fieldsSynced
      <3>1. new.fields = m.fields
        BY <2>1 DEF Updated
      <3>2. m.meta # 0
        BY <2>1, <1>10, <1>12
      <3> QED BY <2>1, <3>1, <3>2, <1>12, <1>2, <1>3, <1>7 DEF MutDated
    <2>2. CASE ~m.fieldsSynced
      <3>1. new.fields = gi.fields
        BY <2>2 DEF Updated
      <3> QED BY <3>1, <1>12, <1>2, <1>3, <1>7, <1>10 DEF Covered
    <2> QED BY <2>1, <2>2
  <1> HIDE DEF new
  <1>13. Covered(w, new)
    BY <1>5, <1>8, <1>9, <1>11, <1>12 DEF Covered
  <1> QED BY <1>6, <1>13 DEF new

\* One item is counted once when it comes and when it goes.
LEMMA CountIssue ==
  ASSUME NEW c \in Corpus, c.numItems = Cardinality(Present(c)),
         NEW m \in IssueMutation, Apart(m)
  PROVE  LET d == Processed(c, m) IN
         d.numItems = Cardinality(Present(d)) /\ d.numItems \in Nat
  <1> DEFINE d == Processed(c, m)
             i == m.num
             gi == c.issues[i]
             N == {i} \X NewItems(gi, m)
             O == {i} \X OldItems(gi, m)
             P == Present(c)
  <1>1. i \in Issue /\ gi \in Known /\ m.removed \subseteq Project
    BY DEF IssueMutation, Corpus
  <1>2. NewItems(gi, m) \in SUBSET Project /\ OldItems(gi, m) \in SUBSET Project
    BY <1>1 DEF NewItems, OldItems, Brought
  <1>3. IsFiniteSet(NewItems(gi, m)) /\ IsFiniteSet(OldItems(gi, m)) /\ IsFiniteSet({i})
        /\ Cardinality({i}) = 1
    BY <1>2, FS_Subset, FS_Singleton, ProjectsAssumption
  <1>4. /\ IsFiniteSet(N) /\ Cardinality(N) = Cardinality(NewItems(gi, m))
        /\ IsFiniteSet(O) /\ Cardinality(O) = Cardinality(OldItems(gi, m))
    <2>1. Cardinality(NewItems(gi, m)) \in Nat /\ Cardinality(OldItems(gi, m)) \in Nat
      BY <1>3, FS_CardinalityType
    <2>2. /\ IsFiniteSet(N) /\ Cardinality(N) = Cardinality({i}) * Cardinality(NewItems(gi, m))
          /\ IsFiniteSet(O) /\ Cardinality(O) = Cardinality({i}) * Cardinality(OldItems(gi, m))
      BY <1>3, FS_Product
    <2> QED BY <2>1, <2>2, <1>3
  <1>5. IsFiniteSet(P)
    <2>1. IsFiniteSet(Issue \X Project)
      BY FS_Product, ProjectsAssumption
    <2>2. P \in SUBSET (Issue \X Project)
      BY DEF Present
    <2> QED BY <2>1, <2>2, FS_Subset
  <1>6. N \intersect P = {}
    BY <1>1 DEF NewItems, Present
  <1>7. O \subseteq P
    BY <1>1 DEF OldItems, Present
  <1>8. m.kind # "project"
    BY DEF IssueMutation
  <1>9. d = [c EXCEPT !.issues[i] = Updated(gi, m, c.projects),
                      !.numItems = @ + Cardinality(NewItems(gi, m)) - Cardinality(OldItems(gi, m))]
    BY <1>8 DEF Processed
  <1>10. d.issues = [c.issues EXCEPT ![i] = Updated(gi, m, c.projects)]
         /\ d.numItems = c.numItems + Cardinality(NewItems(gi, m)) - Cardinality(OldItems(gi, m))
    BY <1>9 DEF Corpus
  <1>11. \A j \in Project : Updated(gi, m, c.projects).items[j].id # 0
           <=> j \in (Items(gi) \union NewItems(gi, m)) \ OldItems(gi, m)
    <2>1. \A j \in Project : Updated(gi, m, c.projects).items[j] =
             IF j \in m.removed THEN NoItem ELSE IF j \in Brought(m) THEN m.items[j] ELSE gi.items[j]
      BY DEF Updated
    <2>2. \A j \in Brought(m) : j \notin m.removed /\ m.items[j].id # 0
      BY DEF Apart, Brought
    <2> QED BY <2>1, <2>2 DEF Items, NewItems, OldItems, NoItem
  <1>12. Present(d) = (P \union N) \ O
    <2>1. c.issues \in [Issue -> Known]
      BY DEF Corpus
    <2>2. ASSUME NEW k \in Issue \X Project
          PROVE  k \in Present(d) <=> k \in (P \union N) \ O
      <3>1. CASE k[1] = i
        <4>1. d.issues[k[1]] = Updated(gi, m, c.projects)
          BY <3>1, <1>1, <1>10, <2>1
        <4>2. k \in Present(d) <=> k[2] \in (Items(gi) \union NewItems(gi, m)) \ OldItems(gi, m)
          BY <4>1, <1>11 DEF Present
        <4>3. /\ k \in P <=> k[2] \in Items(gi)
              /\ k \in N <=> k[2] \in NewItems(gi, m)
              /\ k \in O <=> k[2] \in OldItems(gi, m)
          BY <3>1 DEF Present, Items
        <4> QED BY <4>2, <4>3
      <3>2. CASE k[1] # i
        <4>1. d.issues[k[1]] = c.issues[k[1]]
          BY <3>2, <1>1, <1>10, <2>1
        <4> QED BY <3>2, <4>1 DEF Present
      <3> QED BY <3>1, <3>2
    <2>3. Present(d) \subseteq Issue \X Project /\ P \subseteq Issue \X Project
          /\ N \subseteq Issue \X Project
      BY <1>1, <1>2 DEF Present
    <2> HIDE DEF d, P, N, O
    <2> QED BY <2>2, <2>3
  <1>13. Cardinality(P \union N) = Cardinality(P) + Cardinality(N) /\ IsFiniteSet(P \union N)
    <2> HIDE DEF P, N
    <2>1. /\ IsFiniteSet(P \union N)
          /\ Cardinality(P \union N) = Cardinality(P) + Cardinality(N) - Cardinality(P \intersect N)
      BY <1>4, <1>5, FS_Union
    <2>2. Cardinality(P \intersect N) = 0
      <3>1. P \intersect N = {}
        BY <1>6
      <3> QED BY <3>1, FS_EmptySet
    <2>3. Cardinality(P) \in Nat /\ Cardinality(N) \in Nat
      BY <1>4, <1>5, FS_CardinalityType
    <2> QED BY <2>1, <2>2, <2>3
  <1>14. Cardinality(Present(d)) = Cardinality(P \union N) - Cardinality(O)
         /\ IsFiniteSet(Present(d))
    <2> HIDE DEF P, N, O, d
    <2>1. (P \union N) \intersect O = O
      BY <1>7
    <2> DEFINE Q == P \union N
    <2>2. IsFiniteSet(Q) /\ Q \intersect O = O /\ Present(d) = Q \ O
      BY <1>12, <1>13, <2>1
    <2> HIDE DEF Q
    <2>3. IsFiniteSet(Q \ O) /\ Cardinality(Q \ O) = Cardinality(Q) - Cardinality(Q \intersect O)
      BY <2>2, FS_Difference
    <2>4. IsFiniteSet(Present(d)) /\ Cardinality(Present(d)) = Cardinality(Q) - Cardinality(O)
      BY <2>2, <2>3
    <2> QED BY <2>4 DEF Q
  <1>15. Cardinality(Present(d)) \in Nat
    BY <1>14, FS_CardinalityType
  <1>16. d.numItems = Cardinality(Present(d))
    <2>1. c.numItems = Cardinality(P) /\ Cardinality(P) \in Nat
      BY <1>5, FS_CardinalityType
    <2>2. Cardinality(N) \in Nat /\ Cardinality(O) \in Nat
      BY <1>4, FS_CardinalityType
    <2>3. d.numItems = Cardinality(P) + Cardinality(N) - Cardinality(O)
      BY <2>1, <1>4, <1>10
    <2> HIDE DEF P, N, O, d
    <2> QED BY <2>1, <2>2, <2>3, <1>13, <1>14
  <1> HIDE DEF d
  <1>17. d.numItems = Cardinality(Present(d)) /\ d.numItems \in Nat
    BY <1>15, <1>16
  <1> QED BY <1>17 DEF d

LEMMA ProcessedKeeps ==
  ASSUME NEW w, Dating(w), NEW c, CorpusRight(w, c), NEW m, MutRight(w, m)
  PROVE  CorpusRight(w, Processed(c, m))
  <1> DEFINE d == Processed(c, m)
  <1>1. c \in Corpus /\ c.issues \in [Issue -> Known] /\ c.projects \in [Project -> Schema]
        /\ c.numItems = Cardinality(Present(c)) /\ c.numItems \in Nat
    BY DEF CorpusRight, Corpus
  <1>2. CASE m \in SchemaMutation
    <2> DEFINE schema == [title |-> m.schema.title,
                          fields |-> IF m.schema.fields = {} THEN c.projects[m.num].fields
                                     ELSE m.schema.fields]
    <2>1. m.kind = "project" /\ m.num \in Project /\ m.schema \in Schema
      BY <1>2 DEF SchemaMutation
    <2>2. schema \in Schema
      BY <1>1, <2>1 DEF Schema
    <2>3. d = [c EXCEPT !.projects[m.num] = schema]
      BY <1>1, <2>1 DEF Processed
    <2> HIDE DEF schema
    <2>4. d \in Corpus
      BY <1>1, <2>1, <2>2, <2>3 DEF Corpus
    <2>5. d.issues = c.issues /\ d.numItems = c.numItems
      BY <1>1, <2>3 DEF Corpus
    <2>6. Present(d) = Present(c)
      BY <2>5 DEF Present
    <2> QED BY <1>1, <2>4, <2>5, <2>6 DEF CorpusRight
  <1>3. CASE m \in IssueMutation
    <2> DEFINE i == m.num
               gi == c.issues[i]
               new == Updated(gi, m, c.projects)
    <2>1. m.kind = "issue" /\ i \in Issue
      BY <1>3 DEF IssueMutation
    <2>2. Apart(m) /\ MutDated(w, m)
      BY <2>1 DEF MutRight, SchemaMutation
    <2>3. gi \in Known /\ Covered(w, gi)
      BY <1>1, <2>1 DEF CorpusRight
    <2>4. new \in Known /\ Covered(w, new)
      BY <1>1, <1>3, <2>2, <2>3, UpdatedCovers
    <2>5. d.numItems = Cardinality(Present(d)) /\ d.numItems \in Nat
      BY <1>1, <1>3, <2>2, CountIssue
    <2>6. d = [c EXCEPT !.issues[i] = new,
                 !.numItems = @ + Cardinality(NewItems(gi, m)) - Cardinality(OldItems(gi, m))]
      BY <2>1 DEF Processed
    <2> HIDE DEF new
    <2>7. d.issues = [c.issues EXCEPT ![i] = new] /\ d.projects = c.projects
          /\ d = [issues |-> d.issues, projects |-> d.projects, numItems |-> d.numItems]
      BY <1>1, <2>6 DEF Corpus
    <2>8. d.issues \in [Issue -> Known]
      BY <1>1, <2>1, <2>4, <2>7
    <2> HIDE DEF d
    <2>9. d \in Corpus
      BY <1>1, <2>5, <2>7, <2>8 DEF Corpus
    <2>10. \A k \in Issue : Covered(w, d.issues[k])
      BY <1>1, <2>1, <2>4, <2>7 DEF CorpusRight
    <2>11. CorpusRight(w, d)
      BY <2>5, <2>9, <2>10 DEF CorpusRight
    <2> QED BY <2>11 DEF d
  <1> QED BY <1>2, <1>3 DEF MutRight

-----------------------------------------------------------------------------
LEMMA DatesAre == World => Dating(Dates) /\ Extends(Dates, Dates) /\ DOMAIN Dates \subseteq EditNum
  <1>1. ASSUME World PROVE DOMAIN Dates = 1 .. edits /\ 1 .. edits \subseteq EditNum
    BY <1>1, ProjectsAssumption DEF World, Dates, EditNum
  <1>2. ASSUME World, NEW k \in 1 .. edits PROVE Dates[k] = when[k] /\ when[k] \in Nat
    BY <1>1, <1>2 DEF World, Dates
  <1> QED BY <1>1, <1>2 DEF Dating, Extends

\* Nothing changed on GitHub.
LEMMA GitHubStays ==
  ASSUME World, UNCHANGED github
  PROVE  World' /\ Dates' = Dates
  <1>1. Dates' = Dates
    BY DEF github, Dates
  <1> QED BY <1>1 DEF World, github

LEMMA AddMutationKeeps ==
  ASSUME World, Corpora, Pending, NEW p \in Process, NEW m, MutRight(Dates, m),
         AddMutation(p, m), UNCHANGED <<github, disk>>
  PROVE  World' /\ Corpora' /\ Pending' /\ Dates' = Dates
  <1>1. World' /\ Dates' = Dates
    BY GitHubStays
  <1>2. CorpusRight(Dates, mem') /\ CorpusRight(Dates, disk)
    BY ProcessedKeeps, DatesAre DEF Corpora, AddMutation
  <1>3. Corpora'
    BY <1>1, <1>2 DEF Corpora
  <1>4. m \in IssueMutation \union SchemaMutation
    BY DEF MutRight
  <1>5. pend' = [pend EXCEPT ![p] = m]
    BY DEF AddMutation
  <1>6. pend' \in [Process -> {None} \union IssueMutation \union SchemaMutation]
    BY <1>4, <1>5 DEF Pending
  <1>7. \A q \in Process : pend'[q] # None => MutRight(Dates, pend'[q])
    BY <1>5 DEF Pending
  <1>8. Pending'
    BY <1>1, <1>6, <1>7 DEF Pending
  <1> QED BY <1>1, <1>3, <1>8

\* A step of a caller, by what its variables become.
LEMMA JobKeeps ==
  ASSUME World, Jobs, UNCHANGED github, NEW p \in Process, NEW j \in Job, JobRight(Dates, j),
         job' = [job EXCEPT ![p] = j]
  PROVE  Jobs'
  <1>1. Dates' = Dates
    BY GitHubStays
  <1>2. job' \in [Process -> {Idle} \union Job]
    BY DEF Jobs
  <1>3. \A q \in Process : job'[q] # Idle => JobRight(Dates, job'[q])
    BY DEF Jobs
  <1> QED BY <1>1, <1>2, <1>3 DEF Jobs

\* A caller that has asked has an answer and a mutation to fill.
LEMMA BusyHasJob ==
  ASSUME Jobs, NEW p \in Process, job[p].phase # "idle"
  PROVE  job[p] \in Job /\ JobRight(Dates, job[p]) /\ job[p] # Idle
  BY DEF Jobs, Idle

LEMMA AskKeeps ==
  ASSUME IInv, NEW p \in Process, NEW i \in Issue, NEW date \in {0, now}, Asks(p, i, date),
         faults' \in 0 .. MaxFaults
  PROVE  IInv'
  <1> DEFINE j == Answer(i, date)
  <1>1. World /\ Corpora /\ Pending /\ Jobs
    BY DEF IInv
  <1>2. World' /\ Dates' = Dates
    BY <1>1, GitHubStays DEF Asks
  <1>3. Corpora' /\ Pending'
    BY <1>1, <1>2 DEF Asks, Corpora, Pending
  <1>4. NoMutation(i) \in IssueMutation
    <2>1. IsFiniteSet({0})
      BY FS_Singleton
    <2> QED BY <2>1 DEF NoMutation, IssueMutation, NoItems, NoItem, NoFields, Item, Values
  <1>5. j \in Job
    BY <1>1, <1>4 DEF Answer, Job, World, Items
  <1>6. JobRight(Dates, j)
    <2>1. Brought(j.mut) = {}
      BY DEF Answer, NoMutation, Brought, NoItems, NoItem
    <2>2. MutDated(Dates, j.mut)
      BY <2>1 DEF Answer, NoMutation, MutDated
    <2>3. now \in Nat /\ Dated(Dates, j.snap, now) /\ j.date \in {0, now}
      BY <1>1 DEF World, Answer
    <2> QED BY <2>1, <2>2, <2>3 DEF JobRight, Answer, NoMutation
  <1>7. job' = [job EXCEPT ![p] = j]
    BY DEF Asks
  <1> HIDE DEF j
  <1>8. Jobs'
    BY <1>1, <1>5, <1>6, <1>7, JobKeeps DEF Asks
  <1>9. alone' \subseteq Process /\ faults' \in 0 .. MaxFaults
    BY DEF Asks, IInv
  <1> QED BY <1>2, <1>3, <1>8, <1>9 DEF IInv

\* An item of the answer comes into the mutation with the time it has on GitHub.
LEMMA BringItem ==
  ASSUME World, NEW w, NEW b \in Job, JobRight(w, b), NEW j \in b.todo, NEW schema \in Schema
  PROVE  LET item == OwnValues(b.snap.items[j], schema)
             m == [b.mut EXCEPT !.items[j] = item] IN
         m \in IssueMutation /\ MutDated(w, m) /\ Brought(m) = Brought(b.mut) \union {j}
         /\ m.removed = b.mut.removed
  <1> DEFINE had == b.snap.items[j]
             item == OwnValues(had, schema)
             m == [b.mut EXCEPT !.items[j] = item]
  <1>1. b.mut \in IssueMutation /\ b.snap \in UpIssue /\ j \in Project /\ j \in Items(b.snap)
    BY DEF Job, JobRight
  <1>2. had \in Item /\ had.id # 0
    BY <1>1 DEF UpIssue, Items
  <1>3. item = [id |-> had.id, updated |-> had.updated,
                values |-> [f \in Field |-> IF f \in schema.fields THEN had.values[f] ELSE 0]]
    BY <1>2 DEF OwnValues, Item, Values
  <1>4. item \in Item
    BY <1>2, <1>3 DEF Item, Values
  <1>5. m.items = [b.mut.items EXCEPT ![j] = item] /\ m.items \in [Project -> Item]
    BY <1>1, <1>4 DEF IssueMutation
  <1>6. m \in IssueMutation
    BY <1>1, <1>4 DEF IssueMutation
  <1>7. Brought(m) = Brought(b.mut) \union {j}
    <2>1. item.id # 0
      BY <1>2, <1>3
    <2>2. b.mut.items \in [Project -> Item]
      BY <1>1 DEF IssueMutation
    <2> HIDE DEF item, m
    <2> QED BY <2>1, <2>2, <1>1, <1>5 DEF Brought
  <1>8. ItemBy(w, item, item.updated)
    <2>1. ItemBy(w, had, had.updated)
      BY <1>1 DEF JobRight, Dated
    <2> QED BY <2>1, <1>3 DEF ItemBy
  <1>9. MutDated(w, m)
    <2>1. MutDated(w, b.mut)
      BY DEF JobRight
    <2>2. ASSUME NEW k \in Brought(m) PROVE ItemBy(w, m.items[k], m.items[k].updated)
      <3>1. b.mut.items \in [Project -> Item] /\ k \in Project
        BY <1>1 DEF IssueMutation, Brought
      <3> HIDE DEF item
      <3>2. CASE k = j
        BY <3>1, <3>2, <1>1, <1>5, <1>8
      <3>3. CASE k # j
        <4>1. m.items[k] = b.mut.items[k] /\ k \in Brought(b.mut)
          BY <3>1, <3>3, <1>1, <1>5, <1>7
        <4> QED BY <4>1, <2>1 DEF MutDated
      <3> QED BY <3>2, <3>3
    <2>3. /\ m.events = b.mut.events /\ m.times = b.mut.times /\ m.type = b.mut.type
          /\ m.meta = b.mut.meta /\ m.fieldsSynced = b.mut.fieldsSynced
          /\ m.fields = b.mut.fields
      BY <1>1 DEF IssueMutation
    <2> HIDE DEF m
    <2> QED BY <2>1, <2>2, <2>3 DEF MutDated
  <1>10. m.removed = b.mut.removed
    BY <1>1 DEF IssueMutation
  <1> HIDE DEF m, item, had
  <1>11. m \in IssueMutation /\ MutDated(w, m) /\ Brought(m) = Brought(b.mut) \union {j}
         /\ m.removed = b.mut.removed
    BY <1>6, <1>7, <1>9, <1>10
  <1> QED BY <1>11 DEF m, item, had

LEMMA SyncItemKeeps ==
  ASSUME IInv, NEW p \in Process, NEW j \in Project, SyncItem(p, j)
  PROVE  IInv'
  <1> DEFINE b == job[p]
             schema == b.boards[j]
             item == OwnValues(b.snap.items[j], schema)
             with == [b.mut EXCEPT !.items[j] = item]
             m == IF SameItem(mem.issues[b.mut.num].items[j], item) THEN b.mut ELSE with
             new == [b EXCEPT !.todo = @ \ {j}, !.mut = m]
  <1>1. World /\ Corpora /\ Pending /\ Jobs
    BY DEF IInv
  <1>2. b \in Job /\ JobRight(Dates, b) /\ j \in b.todo
    BY <1>1, BusyHasJob DEF SyncItem, In
  <1>3. schema \in Schema
    BY <1>2 DEF Job
  <1>4. World' /\ Corpora' /\ Pending' /\ Dates' = Dates
    <2>1. UNCHANGED <<github, disk>>
      BY DEF SyncItem
    <2>2. CASE NeedsUpdate(mem.projects[j], schema)
      <3>1. AddMutation(p, ProjectMutation(j, schema))
        BY <2>2 DEF SyncItem
      <3>2. MutRight(Dates, ProjectMutation(j, schema))
        BY <1>3 DEF MutRight, SchemaMutation, ProjectMutation
      <3> QED BY <1>1, <2>1, <3>1, <3>2, AddMutationKeeps
    <2>3. CASE ~NeedsUpdate(mem.projects[j], schema)
      <3>1. UNCHANGED <<mem, pend>>
        BY <2>3 DEF SyncItem
      <3>2. World' /\ Dates' = Dates
        BY <1>1, <2>1, GitHubStays
      <3> QED BY <1>1, <2>1, <3>1, <3>2 DEF Corpora, Pending
    <2> QED BY <2>2, <2>3
  <1>5. m \in IssueMutation /\ MutDated(Dates, m) /\ Brought(m) \subseteq Brought(b.mut) \union {j}
        /\ m.removed = b.mut.removed
    <2>1. with \in IssueMutation /\ MutDated(Dates, with)
          /\ Brought(with) = Brought(b.mut) \union {j} /\ with.removed = b.mut.removed
      <3> HIDE DEF b, schema
      <3> QED BY <1>1, <1>2, <1>3, BringItem
    <2>2. b.mut \in IssueMutation /\ MutDated(Dates, b.mut)
      BY <1>2 DEF Job, JobRight
    <2> HIDE DEF with
    <2> QED BY <2>1, <2>2
  <1>6. new.snap = b.snap /\ new.date = b.date /\ new.todo = b.todo \ {j} /\ new.mut = m
        /\ new = [phase |-> b.phase, snap |-> b.snap, boards |-> b.boards, date |-> b.date,
                  todo |-> b.todo \ {j}, mut |-> m]
    <2> HIDE DEF b, m
    <2>1. b = [phase |-> b.phase, snap |-> b.snap, boards |-> b.boards, date |-> b.date,
               todo |-> b.todo, mut |-> b.mut]
      BY <1>2 DEF Job
    <2>2. new = [phase |-> b.phase, snap |-> b.snap, boards |-> b.boards, date |-> b.date,
                 todo |-> b.todo \ {j}, mut |-> m]
      <3> DEFINE c == [b EXCEPT !.todo = @ \ {j}]
      <3>1. c = [phase |-> b.phase, snap |-> b.snap, boards |-> b.boards, date |-> b.date,
                 todo |-> b.todo \ {j}, mut |-> b.mut]
        BY <2>1
      <3>2. new = [c EXCEPT !.mut = m]
        OBVIOUS
      <3> HIDE DEF c, new
      <3> QED BY <3>1, <3>2
    <2> HIDE DEF new
    <2> QED BY <2>2
  <1>7. job' = [job EXCEPT ![p] = new]
    BY <1>1 DEF SyncItem, Jobs
  <1> HIDE DEF b, m, new
  <1>8. new \in Job
    BY <1>2, <1>5, <1>6 DEF Job
  <1>9. JobRight(Dates, new)
    BY <1>2, <1>5, <1>6 DEF JobRight
  <1>10. Jobs'
    BY <1>1, <1>7, <1>8, <1>9, JobKeeps DEF SyncItem
  <1>11. alone' \subseteq Process /\ faults' \in 0 .. MaxFaults
    BY DEF SyncItem, IInv
  <1> QED BY <1>4, <1>10, <1>11 DEF IInv

\* The times of what is compared with the corpus are those of the answer, and of the events.
LEMMA CompareKeeps ==
  ASSUME IInv, NEW p \in Process, Compare(p)
  PROVE  IInv'
  <1> DEFINE b == job[p]
             is == b.snap
             gi == mem.issues[b.mut.num]
             events == Seen(is) \ gi.events
             times == {0} \union {when[k] : k \in events}
             type == IF is.type # gi.type THEN is.type ELSE 0
             fields == FieldsFit(is) /\ is.fields # gi.fields
             changes == ChangesFit(is) /\ ChangesDiffer(gi, is)
             m == [b.mut EXCEPT
                     !.removed = Removed(gi, is), !.events = events, !.times = times,
                     !.type = type,
                     !.fieldsSynced = fields, !.fields = IF fields THEN is.fields ELSE NoFields,
                     !.changesSynced = changes, !.changes = IF changes THEN is.changes ELSE 0,
                     !.meta = IF fields \/ type # 0 THEN b.date ELSE 0]
             new == [b EXCEPT !.phase = "add", !.mut = m]
  <1>1. World /\ Corpora /\ Pending /\ Jobs
    BY DEF IInv
  <1>2. b \in Job /\ JobRight(Dates, b)
    BY <1>1, BusyHasJob DEF Compare, In
  <1>3. b.mut \in IssueMutation /\ is \in UpIssue /\ b.date \in Nat /\ gi \in Known
    BY <1>1, <1>2 DEF Job, Corpora, CorpusRight, Corpus, IssueMutation
  <1>4. World' /\ Dates' = Dates /\ Corpora' /\ Pending'
    <2>1. UNCHANGED <<github, mem, disk, pend>>
      BY DEF Compare
    <2>2. World' /\ Dates' = Dates
      BY <1>1, <2>1, GitHubStays
    <2> QED BY <1>1, <2>1, <2>2 DEF Corpora, Pending
  <1>5. job' = [job EXCEPT ![p] = new]
    BY <1>1 DEF Compare, Jobs
  <1>6. events \subseteq is.events /\ events \in SUBSET EditNum
    BY <1>3 DEF Seen, UpIssue
  <1>7. times \in SUBSET Nat /\ IsFiniteSet(times) /\ \A k \in events : when[k] \in times
    <2>1. when \in [EditNum -> Nat]
      BY <1>1 DEF World
    <2>2. IsFiniteSet(events)
      <3>1. IsFiniteSet(EditNum)
        BY FS_Interval, ProjectsAssumption DEF EditNum
      <3> QED BY <3>1, <1>6, FS_Subset
    <2> HIDE DEF events
    <2>3. IsFiniteSet({when[k] : k \in events})
      BY <2>1, <2>2, <1>6, ImageIsFinite
    <2>4. IsFiniteSet(times)
      <3>1. IsFiniteSet({0})
        BY FS_Singleton
      <3> QED BY <3>1, <2>3, FS_Union
    <2>5. times \in SUBSET Nat
      BY <2>1, <1>6
    <2> QED BY <2>4, <2>5
  <1>8. type \in Nat /\ (type # 0 => type = is.type)
    BY <1>3 DEF UpIssue
  <1>9. fields \in BOOLEAN /\ changes \in BOOLEAN
    BY DEF FieldsFit, ChangesFit
  <1>10. Removed(gi, is) \subseteq Project /\ Removed(gi, is) \intersect Items(is) = {}
    BY DEF Removed, Items
  <1>11. is.fields \in [Name -> Nat] /\ NoFields \in [Name -> Nat] /\ is.changes \in Nat
    BY <1>3 DEF UpIssue, NoFields
  <1> HIDE DEF b, is, gi, events, times, type, fields, changes
  <1>12. m \in IssueMutation
    BY <1>3, <1>6, <1>7, <1>8, <1>9, <1>10, <1>11 DEF IssueMutation
  <1>13. /\ m.items = b.mut.items /\ m.removed = Removed(gi, is) /\ m.events = events
         /\ m.times = times /\ m.type = type /\ m.fieldsSynced = fields
         /\ fields => m.fields = is.fields
         /\ m.meta \in {0, b.date}
    BY <1>3 DEF IssueMutation
  <1>14. new = [phase |-> "add", snap |-> is, boards |-> b.boards, date |-> b.date,
                todo |-> b.todo, mut |-> m]
    <2> HIDE DEF m
    <2>1. b = [phase |-> b.phase, snap |-> is, boards |-> b.boards, date |-> b.date,
               todo |-> b.todo, mut |-> b.mut]
      BY <1>2 DEF Job, is
    <2> DEFINE c == [b EXCEPT !.phase = "add"]
    <2>2. c = [phase |-> "add", snap |-> is, boards |-> b.boards, date |-> b.date,
               todo |-> b.todo, mut |-> b.mut]
      BY <2>1
    <2>3. new = [c EXCEPT !.mut = m]
      OBVIOUS
    <2> HIDE DEF c, new
    <2> QED BY <2>2, <2>3
  <1> HIDE DEF m
  <1>15. MutDated(Dates, m)
    <2>0. PICK t \in Nat : Dated(Dates, is, t) /\ b.date \in {0, t}
      BY <1>2 DEF JobRight, is
    <2>1. MutDated(Dates, b.mut) /\ (m.meta # 0 => m.meta = t)
      BY <1>2, <1>13, <2>0 DEF JobRight
    <2>2. Brought(m) = Brought(b.mut)
      BY <1>13 DEF Brought
    <2>3. \A j \in Brought(m) : ItemBy(Dates, m.items[j], m.items[j].updated)
      BY <1>13, <2>1, <2>2 DEF MutDated
    <2>4. ASSUME NEW k \in m.events PROVE k \in DOMAIN Dates /\ Dates[k] \in m.times
      <3>1. k \in DOMAIN Dates
        BY <1>6, <1>13, <2>0, <2>4 DEF Dated, By
      <3>2. Dates[k] = when[k]
        BY <3>1 DEF Dates
      <3> QED BY <3>1, <3>2, <1>7, <1>13, <2>4
    <2>5. m.type # 0 /\ m.meta # 0 => By(Dates, m.type, m.meta)
      BY <1>8, <1>13, <2>0, <2>1 DEF Dated
    <2>6. m.fieldsSynced /\ m.meta # 0 => \A n \in Name : m.fields[n] # 0 => By(Dates, m.fields[n], m.meta)
      BY <1>13, <2>0, <2>1 DEF Dated
    <2> QED BY <2>3, <2>4, <2>5, <2>6 DEF MutDated
  <1>16. new \in Job
    BY <1>2, <1>3, <1>12, <1>14 DEF Job
  <1>17. JobRight(Dates, new)
    <2>1. Brought(m) = Brought(b.mut)
      BY <1>13 DEF Brought
    <2>2. new.snap = is /\ new.date = b.date /\ new.todo = b.todo /\ new.mut = m
      BY <1>14
    <2> HIDE DEF new
    <2> QED BY <2>1, <2>2, <1>2, <1>10, <1>13, <1>15 DEF JobRight, is
  <1> HIDE DEF new
  <1>18. Jobs'
    BY <1>1, <1>5, <1>16, <1>17, JobKeeps DEF Compare
  <1>19. alone' \subseteq Process /\ faults' \in 0 .. MaxFaults
    BY DEF Compare, IInv
  <1> QED BY <1>4, <1>18, <1>19 DEF IInv

\* What is added does not bring an item that it removes.
LEMMA AddKeeps ==
  ASSUME IInv, NEW p \in Process, Add(p)
  PROVE  IInv'
  <1> DEFINE b == job[p]
             new == [b EXCEPT !.phase = "done"]
  <1>1. World /\ Corpora /\ Pending /\ Jobs
    BY DEF IInv
  <1>2. b \in Job /\ JobRight(Dates, b)
    BY <1>1, BusyHasJob DEF Add, In
  <1>3. UNCHANGED <<github, disk>>
    BY DEF Add
  <1>4. MutRight(Dates, b.mut)
    BY <1>2 DEF MutRight, JobRight, Job, Apart
  <1>5. World' /\ Corpora' /\ Pending' /\ Dates' = Dates
    <2>1. CASE AddMutation(p, b.mut)
      BY <1>1, <1>3, <1>4, <2>1, AddMutationKeeps
    <2>2. CASE UNCHANGED <<mem, pend>>
      <3>1. World' /\ Dates' = Dates
        BY <1>1, <1>3, GitHubStays
      <3> QED BY <1>1, <1>3, <2>2, <3>1 DEF Corpora, Pending
    <2> QED BY <2>1, <2>2 DEF Add
  <1>6. job' = [job EXCEPT ![p] = new]
    BY <1>1 DEF Add, Jobs
  <1> HIDE DEF b
  <1>7. new \in Job /\ JobRight(Dates, new)
    <2>1. new = [phase |-> "done", snap |-> b.snap, boards |-> b.boards, date |-> b.date,
                 todo |-> b.todo, mut |-> b.mut]
      BY <1>2 DEF Job
    <2>2. new.snap = b.snap /\ new.date = b.date /\ new.todo = b.todo /\ new.mut = b.mut
      BY <2>1
    <2>3. new \in Job
      BY <1>2, <2>1 DEF Job
    <2> HIDE DEF new
    <2> QED BY <1>2, <2>2, <2>3 DEF JobRight
  <1> HIDE DEF new
  <1>8. Jobs'
    BY <1>1, <1>3, <1>6, <1>7, JobKeeps
  <1>9. alone' \subseteq Process /\ faults' \in 0 .. MaxFaults
    BY DEF Add, IInv
  <1> QED BY <1>5, <1>8, <1>9 DEF IInv

LEMMA ReturnKeeps ==
  ASSUME IInv, NEW p \in Process, Return(p)
  PROVE  IInv'
  <1>1. World' /\ Dates' = Dates
    BY GitHubStays DEF IInv, Return
  <1>2. Corpora' /\ Pending'
    BY <1>1 DEF IInv, Return, Corpora, Pending
  <1>3. Jobs'
    BY <1>1 DEF IInv, Return, Jobs
  <1>4. alone' \subseteq Process /\ faults' \in 0 .. MaxFaults
    BY DEF Return, IInv
  <1> QED BY <1>1, <1>2, <1>3, <1>4 DEF IInv

LEMMA AddProjectKeeps ==
  ASSUME IInv, NEW p \in Process, NEW j \in Project, AddProject(p, j)
  PROVE  IInv'
  <1> DEFINE m == ProjectMutation(j, [boards[j] EXCEPT !.fields = {}])
  <1>1. World /\ Corpora /\ Pending /\ Jobs
    BY DEF IInv
  <1>2. MutRight(Dates, m)
    <2>1. [boards[j] EXCEPT !.fields = {}] \in Schema
      BY <1>1 DEF World, Schema
    <2> QED BY <2>1 DEF MutRight, SchemaMutation, ProjectMutation
  <1>3. AddMutation(p, m) /\ UNCHANGED <<github, disk, job, faults>> /\ alone' = {}
    BY DEF AddProject
  <1> HIDE DEF m
  <1>4. World' /\ Corpora' /\ Pending' /\ Dates' = Dates
    BY <1>1, <1>2, <1>3, AddMutationKeeps
  <1>5. Jobs'
    BY <1>1, <1>3, <1>4 DEF Jobs
  <1> QED BY <1>3, <1>4, <1>5 DEF IInv

LEMMA LogKeeps ==
  ASSUME IInv, NEW p \in Process, Log(p)
  PROVE  IInv'
  <1>1. World /\ Corpora /\ Pending /\ Jobs
    BY DEF IInv
  <1>2. World' /\ Dates' = Dates
    BY <1>1, GitHubStays DEF Log
  <1>3. CorpusRight(Dates, disk')
    <2>1. MutRight(Dates, pend[p])
      BY <1>1 DEF Log, Pending
    <2>2. Dating(Dates) /\ CorpusRight(Dates, disk)
      BY <1>1, DatesAre DEF Corpora
    <2> QED BY <2>1, <2>2, ProcessedKeeps DEF Log
  <1>4. Corpora'
    BY <1>1, <1>2, <1>3 DEF Log, Corpora
  <1>5. Pending'
    BY <1>1, <1>2 DEF Log, Pending
  <1>6. Jobs'
    BY <1>1, <1>2 DEF Log, Jobs
  <1>7. alone' \subseteq Process /\ faults' \in 0 .. MaxFaults
    BY DEF Log, IInv
  <1> QED BY <1>2, <1>4, <1>5, <1>6, <1>7 DEF IInv

LEMMA CrashKeeps ==
  ASSUME IInv, Crash
  PROVE  IInv'
  <1>1. World' /\ Dates' = Dates
    BY GitHubStays DEF IInv, Crash
  <1>2. Corpora'
    BY <1>1 DEF IInv, Crash, Corpora
  <1>3. Pending' /\ Jobs'
    BY <1>1 DEF Crash, Pending, Jobs
  <1>4. alone' \subseteq Process /\ faults' \in 0 .. MaxFaults
    BY ProjectsAssumption DEF Crash, IInv
  <1> QED BY <1>1, <1>2, <1>3, <1>4 DEF IInv

LEMMA TickKeeps ==
  ASSUME IInv, Tick
  PROVE  IInv'
  <1>1. World /\ Dating(Dates) /\ Extends(Dates, Dates)
    BY DatesAre DEF IInv
  <1>2. Dates' = Dates
    BY DEF Tick, Dates
  <1>3. World'
    <2>1. now \in Nat /\ now' = now + 1 /\ UNCHANGED <<up, boards, when, edits>>
      BY <1>1 DEF Tick, World
    <2>2. \A i \in Issue : Dated(Dates, up[i], now')
      <3>1. now' \in Nat /\ now <= now'
        BY <2>1
      <3> QED BY <1>1, <3>1, DatedGrows DEF World
    <2>3. \A k \in 1 .. edits : when[k] <= now'
      <3>1. \A k \in 1 .. edits : when[k] \in Nat
        BY <1>1, ProjectsAssumption DEF World, EditNum
      <3> QED BY <1>1, <2>1, <3>1 DEF World
    <2> QED BY <1>1, <1>2, <2>1, <2>2, <2>3 DEF World
  <1>4. Corpora' /\ Pending' /\ Jobs'
    BY <1>2 DEF IInv, Tick, Corpora, Pending, Jobs
  <1> QED BY <1>3, <1>4 DEF IInv, Tick

\* An edit happens now.
LEMMA EditDates ==
  ASSUME World, Editing
  PROVE  /\ Extends(Dates', Dates) /\ Dating(Dates) /\ By(Dates', Fresh, now)
         /\ Fresh \in EditNum /\ Fresh \in Nat \ {0} /\ Dates'[Fresh] = now
         /\ Given \subseteq Nat /\ \A v \in Given : v # 0 => By(Dates', v, now)
         /\ now' = now /\ edits' \in 0 .. MaxEdits
         /\ when' \in [EditNum -> Nat] /\ \A k \in 1 .. edits' : when'[k] <= now'
  <1>1. edits \in Nat /\ edits' = edits + 1 /\ edits' <= MaxEdits /\ now \in Nat /\ now' = now
        /\ MaxEdits \in Nat
    BY ProjectsAssumption DEF World, Editing, Fresh
  <1>2. Fresh = edits' /\ Fresh \in EditNum /\ Fresh \in Nat \ {0} /\ edits' \in 0 .. MaxEdits
    BY <1>1 DEF Fresh, EditNum
  <1>3. when' = [when EXCEPT ![Fresh] = now] /\ when \in [EditNum -> Nat]
    BY DEF Editing, World
  <1>4. when' \in [EditNum -> Nat] /\ when'[Fresh] = now
        /\ \A k \in EditNum : k # Fresh => when'[k] = when[k]
    BY <1>1, <1>2, <1>3
  <1>5. \A k \in 1 .. edits' : k \in EditNum /\ (k = Fresh \/ k \in 1 .. edits)
    BY <1>1 DEF Fresh, EditNum
  <1>6. DOMAIN Dates = 1 .. edits /\ DOMAIN Dates' = 1 .. edits' /\ 1 .. edits \subseteq 1 .. edits'
    BY <1>1 DEF Dates
  <1>7. \A k \in 1 .. edits' : Dates'[k] = when'[k]
    BY DEF Dates
  <1>8. \A k \in 1 .. edits : Dates[k] = when[k] /\ k # Fresh
    BY <1>1 DEF Dates, Fresh
  <1>9. Extends(Dates', Dates)
    BY <1>4, <1>5, <1>6, <1>7, <1>8 DEF Extends
  <1>10. Fresh \in 1 .. edits'
    BY <1>1, <1>2
  <1>11. Dates'[Fresh] = now /\ By(Dates', Fresh, now)
    BY <1>1, <1>4, <1>6, <1>7, <1>10 DEF By
  <1>12. \A k \in 1 .. edits' : when'[k] <= now'
    BY <1>1, <1>4, <1>5 DEF World
  <1>13. Given \subseteq Nat /\ \A v \in Given : v # 0 => v \in 1 .. edits'
    BY <1>1 DEF Given, Fresh
  <1>14. \A v \in Given : v # 0 => By(Dates', v, now)
    BY <1>1, <1>6, <1>7, <1>12, <1>13 DEF By
  <1> QED BY <1>1, <1>2, <1>4, <1>9, <1>11, <1>12, <1>13, <1>14, DatesAre

\* Whatever is edited, what else there is and what callers have stays right.
LEMMA EditKeeps ==
  ASSUME IInv, Editing, up' \in [Issue -> UpIssue], boards' \in [Project -> Schema],
         \A i \in Issue : up'[i] = up[i] \/ Dated(Dates', up'[i], now)
  PROVE  IInv'
  <1>1. World /\ Corpora /\ Pending /\ Jobs
    BY DEF IInv
  <1>2. Extends(Dates', Dates) /\ Dating(Dates)
    BY <1>1, EditDates
  <1>3. UNCHANGED <<now, mem, disk, pend, job, alone, faults>>
    BY DEF Editing
  <1>4. World'
    <2>1. \A i \in Issue : Dated(Dates', up'[i], now)
      <3> SUFFICES ASSUME NEW i \in Issue, up'[i] = up[i] PROVE Dated(Dates', up[i], now)
        OBVIOUS
      <3>1. up[i] \in UpIssue /\ now \in Nat /\ now <= now /\ Dated(Dates, up[i], now)
        BY <1>1 DEF World
      <3> QED BY <3>1, <1>2, DatedGrows
    <2>2. /\ now' = now /\ edits' \in 0 .. MaxEdits
          /\ when' \in [EditNum -> Nat] /\ \A k \in 1 .. edits' : when'[k] <= now'
      BY <1>1, EditDates
    <2> QED BY <1>1, <2>1, <2>2 DEF World
  <1>5. Corpora'
    <2>1. CorpusRight(Dates', mem) /\ CorpusRight(Dates', disk)
      BY <1>1, <1>2, CorpusRightGrows DEF Corpora
    <2> QED BY <1>3, <2>1 DEF Corpora
  <1>6. Pending'
    <2>1. \A p \in Process : pend[p] # None => MutRight(Dates', pend[p])
      BY <1>1, <1>2, MutRightGrows DEF Pending
    <2> QED BY <1>1, <1>3, <2>1 DEF Pending
  <1>7. Jobs'
    <2>1. ASSUME NEW p \in Process, job[p] # Idle PROVE JobRight(Dates', job[p])
      <3>1. job[p] \in Job /\ JobRight(Dates, job[p])
        BY <1>1, <2>1 DEF Jobs
      <3> QED BY <3>1, <1>2, JobRightGrows
    <2> QED BY <1>1, <1>3, <2>1 DEF Jobs
  <1>8. alone' \subseteq Process /\ faults' \in 0 .. MaxFaults
    BY <1>3 DEF IInv
  <1> QED BY <1>4, <1>5, <1>6, <1>7, <1>8 DEF IInv

LEMMA EditIssueKeeps ==
  ASSUME IInv, NEW i \in Issue, NEW is \in UpIssue, Edit(i, is), Dated(Dates', is, now)
  PROVE  IInv'
  <1>1. up \in [Issue -> UpIssue] /\ boards \in [Project -> Schema]
    BY DEF IInv, World
  <1>2. up' = [up EXCEPT ![i] = is] /\ boards' = boards /\ Editing
    BY DEF Edit
  <1>3. up' \in [Issue -> UpIssue] /\ \A k \in Issue : up'[k] = up[k] \/ Dated(Dates', up'[k], now)
    BY <1>1, <1>2
  <1> QED BY <1>1, <1>2, <1>3, EditKeeps

\* An issue before an edit, seen after it.
LEMMA BeforeEdit ==
  ASSUME IInv, Editing, NEW i \in Issue
  PROVE  /\ up[i] \in UpIssue /\ now \in Nat
         /\ Dated(Dates', up[i], now) /\ By(Dates', Fresh, now)
         /\ Fresh \in EditNum /\ Fresh \in Nat \ {0} /\ Dates'[Fresh] = now
         /\ Given \subseteq Nat /\ \A v \in Given : v # 0 => By(Dates', v, now)
         /\ \A j \in Items(up[i]) : ItemBy(Dates', up[i].items[j], now)
  <1>1. World /\ up[i] \in UpIssue /\ now \in Nat /\ now <= now /\ Dated(Dates, up[i], now)
    BY DEF IInv, World
  <1>2. Extends(Dates', Dates) /\ Dating(Dates) /\ By(Dates', Fresh, now)
        /\ Fresh \in EditNum /\ Fresh \in Nat \ {0} /\ Dates'[Fresh] = now
        /\ Given \subseteq Nat /\ \A v \in Given : v # 0 => By(Dates', v, now)
    BY <1>1, EditDates
  <1>3. Dated(Dates', up[i], now)
    BY <1>1, <1>2, DatedGrows
  <1>4. ASSUME NEW j \in Items(up[i]) PROVE ItemBy(Dates', up[i].items[j], now)
    <2> DEFINE item == up[i].items[j]
    <2>1. ItemBy(Dates, item, item.updated) /\ item.updated <= now
      BY <1>1 DEF Dated
    <2>2. item.updated \in Nat
      BY <1>1 DEF Items, UpIssue, Item
    <2> HIDE DEF item
    <2>3. ItemBy(Dates', item, now)
      BY <1>1, <1>2, <2>1, <2>2, ItemByGrows
    <2> QED BY <2>3 DEF item
  <1> QED BY <1>1, <1>2, <1>3, <1>4

\* An edit of one item; the others stay.
LEMMA EditItem ==
  ASSUME NEW w, NEW is \in UpIssue, NEW t \in Nat, Dated(w, is, t), NEW j \in Project,
         NEW item \in Item, NEW events \in SUBSET EditNum, \A k \in events : By(w, k, t),
         item.id # 0 => ItemBy(w, item, item.updated) /\ item.updated <= t,
         NEW new, new = [is EXCEPT !.items[j] = item, !.events = events]
  PROVE  new \in UpIssue /\ Dated(w, new, t)
  <1>1. is.items \in [Project -> Item]
    BY DEF UpIssue
  <1>2. /\ new.items = [is.items EXCEPT ![j] = item] /\ new.events = events
        /\ new.type = is.type /\ new.fields = is.fields /\ new.changes = is.changes
    BY DEF UpIssue
  <1>3. new \in UpIssue
    BY <1>1 DEF UpIssue
  <1>4. ASSUME NEW k \in Items(new)
        PROVE  ItemBy(w, new.items[k], new.items[k].updated) /\ new.items[k].updated <= t
    <2>1. k \in Project /\ new.items[k].id # 0
      BY DEF Items
    <2>2. CASE k = j
      <3>1. new.items[k] = item
        BY <1>1, <1>2, <2>1, <2>2
      <3> QED BY <2>1, <3>1
    <2>3. CASE k # j
      <3>1. new.items[k] = is.items[k]
        BY <1>1, <1>2, <2>1, <2>3
      <3> QED BY <2>1, <3>1 DEF Dated, Items
    <2> QED BY <2>2, <2>3
  <1>5. Dated(w, new, t)
    BY <1>2, <1>4 DEF Dated
  <1> QED BY <1>3, <1>5

LEMMA AddToProjectKeeps ==
  ASSUME IInv, NEW i \in Issue, NEW j \in Project, AddToProject(i, j)
  PROVE  IInv'
  <1> DEFINE item == [NoItem EXCEPT !.id = Fresh, !.updated = now]
             events == up[i].events \union {Fresh}
             new == [up[i] EXCEPT !.items[j] = item, !.events = @ \union {Fresh}]
  <1>1. Editing /\ Edit(i, new)
    BY DEF AddToProject, Edit
  <1>2. /\ up[i] \in UpIssue /\ now \in Nat /\ Dated(Dates', up[i], now)
        /\ By(Dates', Fresh, now) /\ Fresh \in EditNum /\ Fresh \in Nat /\ Dates'[Fresh] = now
    BY <1>1, BeforeEdit
  <1>3. item = [id |-> Fresh, values |-> [f \in Field |-> 0], updated |-> now]
    <2> DEFINE c == [NoItem EXCEPT !.id = Fresh]
    <2>1. c = [id |-> Fresh, values |-> [f \in Field |-> 0], updated |-> 0]
      BY DEF NoItem
    <2>2. item = [c EXCEPT !.updated = now]
      OBVIOUS
    <2> HIDE DEF c, item
    <2> QED BY <2>1, <2>2
  <1>4. item \in Item
    <2> HIDE DEF item
    <2> QED BY <1>2, <1>3 DEF Item, Values
  <1>5. ItemBy(Dates', item, item.updated) /\ item.updated <= now
    <2> HIDE DEF item
    <2>1. item.id = Fresh /\ item.updated = now /\ \A f \in Field : item.values[f] = 0
      BY <1>3
    <2> QED BY <1>2, <2>1 DEF ItemBy
  <1>6. events \in SUBSET EditNum /\ \A k \in events : By(Dates', k, now)
    BY <1>2 DEF UpIssue, Dated
  <1>7. new = [up[i] EXCEPT !.items[j] = item, !.events = events]
    BY <1>2 DEF UpIssue
  <1> HIDE DEF item, events, new
  <1>8. new \in UpIssue /\ Dated(Dates', new, now)
    BY <1>2, <1>4, <1>5, <1>6, <1>7, EditItem
  <1> QED BY <1>1, <1>8, EditIssueKeeps

LEMMA RemoveFromProjectKeeps ==
  ASSUME IInv, NEW i \in Issue, NEW j \in Project, RemoveFromProject(i, j)
  PROVE  IInv'
  <1> DEFINE events == up[i].events \union {Fresh}
             new == [up[i] EXCEPT !.items[j] = NoItem, !.events = @ \union {Fresh}]
  <1>1. Editing /\ Edit(i, new)
    BY DEF RemoveFromProject, Edit
  <1>2. /\ up[i] \in UpIssue /\ now \in Nat /\ Dated(Dates', up[i], now)
        /\ By(Dates', Fresh, now) /\ Fresh \in EditNum
    BY <1>1, BeforeEdit
  <1>3. NoItem \in Item /\ NoItem.id = 0
    BY DEF NoItem, Item, Values
  <1>4. events \in SUBSET EditNum /\ \A k \in events : By(Dates', k, now)
    BY <1>2 DEF UpIssue, Dated
  <1>5. new = [up[i] EXCEPT !.items[j] = NoItem, !.events = events]
    BY <1>2 DEF UpIssue
  <1> HIDE DEF events, new
  <1>6. new \in UpIssue /\ Dated(Dates', new, now)
    BY <1>2, <1>3, <1>4, <1>5, EditItem
  <1> QED BY <1>1, <1>6, EditIssueKeeps

LEMMA SetValueKeeps ==
  ASSUME IInv, NEW i \in Issue, NEW j \in Project, NEW f \in Field, SetValue(i, j, f)
  PROVE  IInv'
  <1>0. PICK v \in Given :
          Edit(i, [up[i] EXCEPT !.items[j].values[f] = v, !.items[j].updated = now])
    BY DEF SetValue
  <1> DEFINE had == up[i].items[j]
             item == [had EXCEPT !.values[f] = v, !.updated = now]
             new == [up[i] EXCEPT !.items[j].values[f] = v, !.items[j].updated = now]
  <1>1. Editing /\ Edit(i, new) /\ j \in Items(up[i])
    BY <1>0 DEF SetValue, Edit, Items
  <1>2. /\ up[i] \in UpIssue /\ now \in Nat /\ Dated(Dates', up[i], now)
        /\ v \in Nat /\ (v # 0 => By(Dates', v, now)) /\ ItemBy(Dates', had, now)
    BY <1>1, BeforeEdit
  <1>3. had \in Item
    BY <1>2 DEF UpIssue
  <1>4. item = [id |-> had.id, values |-> [had.values EXCEPT ![f] = v], updated |-> now]
    <2> HIDE DEF had
    <2> DEFINE c == [had EXCEPT !.values[f] = v]
    <2>1. c = [id |-> had.id, values |-> [had.values EXCEPT ![f] = v], updated |-> had.updated]
      BY <1>3 DEF Item
    <2>2. item = [c EXCEPT !.updated = now]
      OBVIOUS
    <2> HIDE DEF c, item
    <2> QED BY <2>1, <2>2
  <1>5. new = [up[i] EXCEPT !.items[j] = item, !.events = up[i].events]
    <2>1. had.values \in Values
      BY <1>3 DEF Item
    <2> QED BY <1>2, <1>4 DEF UpIssue, Item
  <1>6. up[i].events \in SUBSET EditNum /\ \A k \in up[i].events : By(Dates', k, now)
    BY <1>2 DEF UpIssue, Dated
  <1> HIDE DEF had, item, new
  <1>7. item \in Item
    BY <1>2, <1>3, <1>4 DEF Item, Values
  <1>8. had.values \in [Field -> Nat]
    BY <1>3 DEF Item, Values
  <1>9. item.values[f] = v /\ \A g \in Field : g # f => item.values[g] = had.values[g]
    BY <1>4, <1>8
  <1>10. ItemBy(Dates', item, item.updated)
    BY <1>2, <1>4, <1>9 DEF ItemBy
  <1>11. item.updated = now /\ now <= now
    BY <1>2, <1>4
  <1>12. new \in UpIssue /\ Dated(Dates', new, now)
    BY <1>2, <1>5, <1>6, <1>7, <1>10, <1>11, EditItem
  <1> QED BY <1>1, <1>12, EditIssueKeeps

LEMMA SetFieldKeeps ==
  ASSUME IInv, NEW i \in Issue, NEW n \in Name, SetField(i, n)
  PROVE  IInv'
  <1>1. PICK v \in Given : Edit(i, [up[i] EXCEPT !.fields[n] = v, !.changes = @ + 1])
    BY DEF SetField
  <1> DEFINE is == up[i]
             new == [is EXCEPT !.fields[n] = v, !.changes = @ + 1]
  <1>2. /\ is \in UpIssue /\ now \in Nat /\ Dated(Dates', is, now)
        /\ v \in Nat /\ (v # 0 => By(Dates', v, now))
    BY <1>1, BeforeEdit DEF Edit
  <1> HIDE DEF is
  <1>3. v \in Nat /\ is.fields \in [Name -> Nat]
    BY <1>2 DEF UpIssue
  <1>4. new \in UpIssue
    <2> DEFINE c == [is EXCEPT !.fields[n] = v]
    <2>1. c \in UpIssue
      BY <1>2, <1>3 DEF UpIssue
    <2>2. new = [c EXCEPT !.changes = @ + 1]
      OBVIOUS
    <2> HIDE DEF c, new
    <2> QED BY <2>1, <2>2 DEF UpIssue
  <1>5. new.fields = [is.fields EXCEPT ![n] = v] /\ new.items = is.items
        /\ new.events = is.events /\ new.type = is.type
    BY <1>2 DEF UpIssue
  <1> HIDE DEF new
  <1>6. ASSUME NEW k \in Name, new.fields[k] # 0 PROVE By(Dates', new.fields[k], now)
    <2>1. new.fields[k] = IF k = n THEN v ELSE is.fields[k]
      BY <1>3, <1>5
    <2> QED BY <1>2, <1>6, <2>1 DEF Dated
  <1>7. Items(new) = Items(is)
    BY <1>5 DEF Items
  <1>8. Dated(Dates', new, now)
    BY <1>2, <1>5, <1>6, <1>7 DEF Dated
  <1>9. Edit(i, new)
    BY <1>1 DEF new, is
  <1> QED BY <1>4, <1>8, <1>9, EditIssueKeeps

LEMMA SetTypeKeeps ==
  ASSUME IInv, NEW i \in Issue, SetType(i)
  PROVE  IInv'
  <1>1. PICK t \in Given : Edit(i, [up[i] EXCEPT !.type = t])
    BY DEF SetType
  <1> DEFINE is == up[i]
             new == [is EXCEPT !.type = t]
  <1>2. /\ is \in UpIssue /\ now \in Nat /\ Dated(Dates', is, now)
        /\ t \in Nat /\ (t # 0 => By(Dates', t, now))
    BY <1>1, BeforeEdit DEF Edit
  <1> HIDE DEF is
  <1>3. new \in UpIssue
    BY <1>2 DEF UpIssue
  <1>4. new.fields = is.fields /\ new.items = is.items /\ new.events = is.events /\ new.type = t
    BY <1>2 DEF UpIssue
  <1> HIDE DEF new
  <1>5. Items(new) = Items(is)
    BY <1>4 DEF Items
  <1>6. Dated(Dates', new, now)
    BY <1>2, <1>4, <1>5 DEF Dated
  <1>7. Edit(i, new)
    BY <1>1 DEF new, is
  <1> QED BY <1>3, <1>6, <1>7, EditIssueKeeps

LEMMA EditProjectKeeps ==
  ASSUME IInv, NEW j \in Project, EditProject(j)
  PROVE  IInv'
  <1>1. Editing /\ up' = up
    BY DEF EditProject
  <1>2. up \in [Issue -> UpIssue] /\ boards \in [Project -> Schema]
    BY DEF IInv, World
  <1>3. boards' \in [Project -> Schema]
    <2>1. CASE boards' = [boards EXCEPT ![j].title = @ + 1]
      BY <2>1, <1>2 DEF Schema
    <2>2. ASSUME NEW f \in Field,
                 boards' = [boards EXCEPT ![j].fields = IF f \in @ THEN @ \ {f}
                                                        ELSE @ \union {f}]
          PROVE  boards' \in [Project -> Schema]
      BY <2>2, <1>2 DEF Schema
    <2> QED BY <2>1, <2>2 DEF EditProject
  <1> QED BY <1>1, <1>2, <1>3, EditKeeps

-----------------------------------------------------------------------------
\* What the first edits made is of their time.
LEMMA InitDates ==
  ASSUME Init
  PROVE  /\ edits \in 0 .. MaxEdits /\ when \in [EditNum -> Nat]
         /\ \A k \in 1 .. edits : when[k] = 1 /\ Dates[k] = 1
         /\ \A k \in Nat : k <= InitEdits /\ k # 0 => By(Dates, k, 1)
  <1>1. edits = InitEdits /\ InitEdits \in Nat /\ InitEdits <= MaxEdits /\ MaxEdits \in Nat
    BY ProjectsAssumption DEF Init, InitAssumption
  <1>2. when = [k \in EditNum |-> IF k <= InitEdits THEN 1 ELSE 0]
    BY DEF Init
  <1>3. \A k \in 1 .. edits : k \in EditNum /\ when[k] = 1 /\ Dates[k] = 1
    BY <1>1, <1>2 DEF EditNum, Dates
  <1>4. DOMAIN Dates = 1 .. edits
    BY DEF Dates
  <1>5. \A k \in Nat : k <= InitEdits /\ k # 0 => By(Dates, k, 1)
    BY <1>1, <1>3, <1>4 DEF By
  <1> QED BY <1>1, <1>2, <1>3, <1>5

LEMMA MadeBeforeItems ==
  ASSUME Init, NEW is, is.items \in [Project -> Item], is.fields \in [Name -> Nat],
         is.type \in Nat, MadeBefore(is)
  PROVE  /\ \A j \in Items(is) : ItemBy(Dates, is.items[j], 1) /\ is.items[j].updated = 1
         /\ \A k \in is.events : By(Dates, k, 1)
         /\ is.type # 0 => By(Dates, is.type, 1)
         /\ \A n \in Name : is.fields[n] # 0 => By(Dates, is.fields[n], 1)
  <1>1. \A k \in Nat : k <= InitEdits /\ k # 0 => By(Dates, k, 1)
    BY InitDates
  <1>2. ASSUME NEW j \in Items(is)
        PROVE  ItemBy(Dates, is.items[j], 1) /\ is.items[j].updated = 1
    <2>1. j \in Project /\ is.items[j].id # 0 /\ is.items[j] \in Item
      BY DEF Items
    <2>2. /\ is.items[j].id \in 1 .. InitEdits /\ is.items[j].updated = 1
          /\ \A f \in Field : is.items[j].values[f] <= InitEdits
      BY <2>1 DEF MadeBefore, NoItem
    <2>3. is.items[j].id \in Nat /\ \A f \in Field : is.items[j].values[f] \in Nat
      BY <2>1 DEF Item, Values
    <2>4. InitEdits \in Nat
      BY ProjectsAssumption DEF InitAssumption
    <2>5. By(Dates, is.items[j].id, 1)
      BY <2>2, <2>3, <2>4, <1>1
    <2> QED BY <2>2, <2>3, <2>5, <1>1 DEF ItemBy
  <1>3. \A k \in is.events : By(Dates, k, 1)
    <2>1. InitEdits \in Nat
      BY ProjectsAssumption DEF InitAssumption
    <2>2. \A k \in 1 .. InitEdits : k \in Nat /\ k <= InitEdits /\ k # 0
      BY <2>1
    <2> QED BY <2>2, <1>1 DEF MadeBefore
  <1>4. is.type # 0 => By(Dates, is.type, 1)
    BY <1>1 DEF MadeBefore
  <1>5. \A n \in Name : is.fields[n] # 0 => By(Dates, is.fields[n], 1)
    BY <1>1 DEF MadeBefore
  <1> QED BY <1>2, <1>3, <1>4, <1>5

LEMMA InitMemRight == Init => CorpusRight(Dates, InitMem)
  <1> SUFFICES ASSUME Init PROVE CorpusRight(Dates, InitMem)
    OBVIOUS
  <1>1. InitMem \in Corpus /\ InitMem.numItems = Cardinality(Present(InitMem))
    BY ProjectsAssumption DEF InitAssumption, Present
  <1>2. ASSUME NEW i \in Issue PROVE Covered(Dates, InitMem.issues[i])
    <2> DEFINE gi == InitMem.issues[i]
    <2>1. gi \in Known
      BY <1>1 DEF Corpus
    <2>2. /\ MadeBefore(gi)
          /\ gi.items # NoItems \/ gi.events # {} => gi.eventMaxTime = 1
          /\ gi.type # 0 \/ gi.fields # NoFields => gi.metaChangedAt = 1
      BY ProjectsAssumption DEF InitAssumption
    <2> HIDE DEF gi
    <2>3. gi.items \in [Project -> Item] /\ gi.fields \in [Name -> Nat] /\ gi.type \in Nat
      BY <2>1 DEF Known
    <2>4. /\ \A j \in Items(gi) : ItemBy(Dates, gi.items[j], 1) /\ gi.items[j].updated = 1
          /\ \A k \in gi.events : By(Dates, k, 1)
          /\ gi.type # 0 => By(Dates, gi.type, 1)
          /\ \A n \in Name : gi.fields[n] # 0 => By(Dates, gi.fields[n], 1)
      BY <2>2, <2>3, MadeBeforeItems
    <2>5. \A j \in Items(gi) : gi.eventMaxTime = 1
      <3>1. \A j \in Items(gi) : gi.items # NoItems
        BY DEF Items, NoItems, NoItem
      <3> QED BY <3>1, <2>2
    <2>6. \A n \in Name : gi.fields[n] # 0 => gi.metaChangedAt = 1
      BY <2>2 DEF NoFields
    <2>7. \A k \in gi.events : gi.eventMaxTime = 1
      BY <2>2
    <2>8. gi.type # 0 => gi.metaChangedAt = 1
      BY <2>2
    <2>9. Covered(Dates, gi)
      BY <2>4, <2>5, <2>6, <2>7, <2>8 DEF Covered
    <2> QED BY <2>9 DEF gi
  <1> QED BY <1>1, <1>2 DEF CorpusRight

LEMMA IInvInit == Init => IInv
  <1> SUFFICES ASSUME Init PROVE IInv
    OBVIOUS
  <1>1. InitProjects \in [Project -> Schema]
    BY ProjectsAssumption DEF Schema
  <1>2. up = InitUp /\ InitUp \in [Issue -> UpIssue] /\ \A i \in Issue : MadeBefore(InitUp[i])
    BY ProjectsAssumption DEF Init, InitAssumption
  <1>3. ASSUME NEW i \in Issue PROVE Dated(Dates, InitUp[i], 1)
    <2> DEFINE is == InitUp[i]
    <2>1. is \in UpIssue /\ MadeBefore(is)
      BY <1>2
    <2> HIDE DEF is
    <2>2. is.items \in [Project -> Item] /\ is.fields \in [Name -> Nat] /\ is.type \in Nat
      BY <2>1 DEF UpIssue
    <2>3. /\ \A j \in Items(is) : ItemBy(Dates, is.items[j], 1) /\ is.items[j].updated = 1
          /\ \A k \in is.events : By(Dates, k, 1)
          /\ is.type # 0 => By(Dates, is.type, 1)
          /\ \A n \in Name : is.fields[n] # 0 => By(Dates, is.fields[n], 1)
      BY <2>1, <2>2, MadeBeforeItems
    <2>4. Dated(Dates, is, 1)
      BY <2>3 DEF Dated
    <2> QED BY <2>4 DEF is
  <1>4. now = 1 /\ boards = InitProjects
    BY DEF Init
  <1>5. /\ edits \in 0 .. MaxEdits /\ when \in [EditNum -> Nat]
        /\ \A k \in 1 .. edits : when[k] <= now
    BY <1>4, InitDates
  <1>6. World
    BY <1>1, <1>2, <1>3, <1>4, <1>5 DEF World
  <1>7. mem = InitMem /\ disk = InitMem /\ pend = [p \in Process |-> None]
        /\ job = [p \in Process |-> Idle] /\ alone = {} /\ faults = 0
    BY DEF Init
  <1>8. Corpora /\ Pending /\ Jobs
    BY <1>7, InitMemRight DEF Corpora, Pending, Jobs
  <1> QED BY <1>6, <1>7, <1>8, ProjectsAssumption DEF IInv

LEMMA IInvNext == IInv /\ [Next]_vars => IInv'
  <1> SUFFICES ASSUME IInv, [Next]_vars PROVE IInv'
    OBVIOUS
  <1>1. ASSUME NEW p \in Process, NEW i \in Issue, Ask(p, i) \/ AskUndated(p, i) PROVE IInv'
    <2>1. faults \in 0 .. MaxFaults /\ MaxFaults \in Nat
      BY ProjectsAssumption DEF IInv
    <2>2. CASE Ask(p, i)
      BY <2>1, <2>2, AskKeeps DEF Ask
    <2>3. CASE AskUndated(p, i)
      <3>1. Asks(p, i, 0) /\ faults < MaxFaults /\ faults' = faults + 1
        BY <2>3 DEF AskUndated
      <3>2. faults' \in 0 .. MaxFaults
        BY <2>1, <3>1
      <3> QED BY <3>1, <3>2, AskKeeps
    <2> QED BY <1>1, <2>2, <2>3
  <1>2. ASSUME NEW p \in Process, NEW j \in Project, SyncItem(p, j) PROVE IInv'
    BY <1>2, SyncItemKeeps
  <1>3. ASSUME NEW p \in Process, NEW j \in Project, AddProject(p, j) PROVE IInv'
    BY <1>3, AddProjectKeeps
  <1>4. ASSUME NEW p \in Process, Compare(p) \/ Add(p) \/ Return(p) \/ Log(p) PROVE IInv'
    BY <1>4, CompareKeeps, AddKeeps, ReturnKeeps, LogKeeps
  <1>5. CASE Crash \/ Tick
    BY <1>5, CrashKeeps, TickKeeps
  <1>6. ASSUME NEW i \in Issue, SetType(i) PROVE IInv'
    BY <1>6, SetTypeKeeps
  <1>7. ASSUME NEW i \in Issue, NEW n \in Name, SetField(i, n) PROVE IInv'
    BY <1>7, SetFieldKeeps
  <1>8. ASSUME NEW i \in Issue, NEW j \in Project,
               AddToProject(i, j) \/ RemoveFromProject(i, j) PROVE IInv'
    BY <1>8, AddToProjectKeeps, RemoveFromProjectKeeps
  <1>9. ASSUME NEW i \in Issue, NEW j \in Project, NEW f \in Field, SetValue(i, j, f) PROVE IInv'
    BY <1>9, SetValueKeeps
  <1>10. ASSUME NEW j \in Project, EditProject(j) PROVE IInv'
    BY <1>10, EditProjectKeeps
  <1>11. CASE UNCHANGED vars
    <2>1. World' /\ Dates' = Dates
      BY <1>11, GitHubStays DEF IInv, vars, github
    <2> QED BY <1>11, <2>1 DEF IInv, vars, Corpora, Pending, Jobs
  <1> QED BY <1>1, <1>2, <1>3, <1>4, <1>5, <1>6, <1>7, <1>8, <1>9, <1>10, <1>11
          DEF Next, GitHub

\* The invariant that carries the proofs below: what GitHub, the corpora, the mutations
\* on their way and the callers have, with the times at which it came to be.
THEOREM InvariantHolds == Spec => []IInv
  BY IInvInit, IInvNext, PTL DEF Spec

\* Types, whatever callers, projects and edits there are.
THEOREM ProjectTypes == Spec => []TypeOK
  <1>1. IInv => TypeOK
    BY DEF IInv, World, Corpora, CorpusRight, Jobs, Job, Idle, TypeOK
  <1> QED BY <1>1, InvariantHolds, PTL

\* numProjectItems is the number of items in the leader and after a replay, however
\* callers compare, add and log in turn, and wherever the leader stops: no mutation
\* brings what it removes.
THEOREM CountIsRight == Spec => []CountersMatch
  <1>1. IInv => CountersMatch
    BY DEF IInv, Corpora, CorpusRight, Present, CountersMatch
  <1> QED BY <1>1, InvariantHolds, PTL

\* LastModified covers all that the corpus has as GitHub has it, but for a value that was
\* given back or cleared unseen and an answer without a Date: each mutation has, with an
\* item, an event, a type or fields, a time that is no earlier than theirs.
THEOREM LastModifiedIsLate == Spec => []LastModifiedCovers
  <1>1. ASSUME IInv, NEW c \in {mem, disk}, NEW i \in InitKnown
        PROVE  LET gi == c.issues[i]
                   is == up[i] IN
               /\ \A j \in Items(gi) : LastModified(gi) >= gi.items[j].updated
               /\ \A j \in Items(is) :
                    SameItem(gi.items[j], is.items[j]) /\ UpdatedAnew(is.items[j])
                    => LastModified(gi) >= is.items[j].updated
               /\ \A k \in gi.events : LastModified(gi) >= when[k]
               /\ ~ gi.undated =>
                    /\ gi.type = is.type /\ is.type # 0 => LastModified(gi) >= when[is.type]
                    /\ \A n \in Name : gi.fields[n] = is.fields[n] /\ is.fields[n] # 0
                                       => LastModified(gi) >= when[is.fields[n]]
    <2> DEFINE gi == c.issues[i]
               is == up[i]
               last == LastModified(gi)
    <2>1. i \in Issue /\ gi \in Known /\ Covered(Dates, gi)
      BY <1>1, ProjectsAssumption DEF IInv, Corpora, CorpusRight, Corpus
    <2>2. \A j \in Items(gi) : gi.items[j].updated \in Nat
      BY <2>1 DEF Items, Known, Item
    <2>3. gi.eventMaxTime \in Nat /\ gi.metaChangedAt \in Nat
      BY <2>1 DEF Known
    <2> HIDE DEF gi, is
    <2>4. last \in Nat /\ gi.eventMaxTime <= last /\ gi.metaChangedAt <= last
      BY <2>3, LatestOfTwo DEF LastModified
    <2> HIDE DEF last
    <2>5. \A k \in DOMAIN Dates : Dates[k] = when[k] /\ Dates[k] \in Nat
      BY <1>1, DatesAre DEF IInv, Dates, Dating
    <2>6. ASSUME NEW k, NEW t \in Nat, t <= last, By(Dates, k, t)
          PROVE  k \in DOMAIN Dates /\ last >= when[k] /\ last >= Dates[k]
      BY <2>4, <2>5, <2>6 DEF By
    <2>7. ASSUME NEW j \in Items(is), SameItem(gi.items[j], is.items[j]), UpdatedAnew(is.items[j])
          PROVE  last >= is.items[j].updated
      <3>1. j \in Items(gi)
        BY <2>7 DEF Items, SameItem
      <3>2. ItemBy(Dates, is.items[j], gi.eventMaxTime)
        BY <2>1, <2>7, <3>1 DEF Covered, ItemBy, SameItem
      <3>3. PICK k \in {is.items[j].id} \union {is.items[j].values[f] : f \in Field} :
              k # 0 /\ is.items[j].updated = when[k]
        BY <2>7 DEF UpdatedAnew
      <3>4. By(Dates, k, gi.eventMaxTime)
        BY <3>2, <3>3 DEF ItemBy
      <3> QED BY <3>3, <3>4, <2>3, <2>4, <2>6
    <2>8. \A k \in gi.events : last >= when[k]
      BY <2>1, <2>3, <2>4, <2>6 DEF Covered
    <2>9. ~ gi.undated /\ gi.type = is.type /\ is.type # 0 => last >= when[is.type]
      BY <2>1, <2>3, <2>4, <2>6 DEF Covered
    <2>10. ~ gi.undated => \A n \in Name : gi.fields[n] = is.fields[n] /\ is.fields[n] # 0
                           => last >= when[is.fields[n]]
      BY <2>1, <2>3, <2>4, <2>6 DEF Covered
    <2>11. \A j \in Items(gi) : last >= gi.items[j].updated
      BY <2>1, <2>2, <2>3, <2>4 DEF Covered
    <2> QED BY <2>7, <2>8, <2>9, <2>10, <2>11 DEF last, gi, is
  <1>2. IInv => LastModifiedCovers
    BY <1>1 DEF LastModifiedCovers
  <1> QED BY <1>2, InvariantHolds, PTL
-----------------------------------------------------------------------------
\* A field is set of an item only, on GitHub, in an answer and in a corpus.
Unset(items) == \A j \in Project : items[j].id = 0 => items[j].values = [f \in Field |-> 0]
Tidy ==
  /\ \A i \in Issue :
       Unset(up[i].items) /\ Unset(mem.issues[i].items) /\ Unset(disk.issues[i].items)
  /\ \A p \in Process : job[p] # Idle => Unset(job[p].snap.items)

\* What corpus c has of project j, as the answer of b has it.
SchemaTold(b, c, j) ==
  /\ c.projects[j].title = b.boards[j].title
  /\ b.boards[j].fields # {} => c.projects[j].fields = b.boards[j].fields

\* An item that was compared is in the mutation, or in the corpus.
ItemTold(b, gi, j) ==
  LET item == OwnValues(b.snap.items[j], b.boards[j]) IN
  IF j \in Brought(b.mut) THEN b.mut.items[j] = item ELSE SameItem(gi.items[j], item)

\* What a caller that no other met has done so far, and what its mutation is to do.
Progress(b, c) ==
  LET gi == c.issues[b.mut.num] IN
  /\ b.phase \in {"add", "done"} => b.todo = {}
  /\ \A j \in Items(b.snap) \ b.todo : SchemaTold(b, c, j)
  /\ b.phase = "items" => /\ Brought(b.mut) \intersect b.todo = {}
                          /\ \A j \in Items(b.snap) \ b.todo : ItemTold(b, gi, j)
  /\ b.phase = "add" => Agrees(Updated(gi, b.mut, c.projects), b.snap, b.boards)
  /\ b.phase = "done" => Agrees(gi, b.snap, b.boards)

Solo ==
  \A p \in alone : /\ job[p] # Idle /\ \A q \in Process \ {p} : job[q] = Idle
                   /\ Progress(job[p], mem)

\* The mutation that Compare makes.
Differing(b, gi) ==
  LET is == b.snap
      new == Seen(is) \ gi.events
      type == IF is.type # gi.type THEN is.type ELSE 0
      fields == FieldsFit(is) /\ is.fields # gi.fields
      changes == ChangesFit(is) /\ ChangesDiffer(gi, is) IN
  [b.mut EXCEPT
     !.removed = Removed(gi, is), !.events = new, !.times = {0} \union {when[k] : k \in new},
     !.type = type,
     !.fieldsSynced = fields, !.fields = IF fields THEN is.fields ELSE NoFields,
     !.changesSynced = changes, !.changes = IF changes THEN is.changes ELSE 0,
     !.meta = IF fields \/ type # 0 THEN b.date ELSE 0]

LEMMA UpdatedUnset ==
  ASSUME NEW gi \in Known, Unset(gi.items), NEW m \in IssueMutation, NEW projects
  PROVE  Unset(Updated(gi, m, projects).items)
  <1> SUFFICES ASSUME NEW j \in Project, Updated(gi, m, projects).items[j].id = 0
               PROVE  Updated(gi, m, projects).items[j].values = [f \in Field |-> 0]
    BY DEF Unset
  <1>1. Updated(gi, m, projects).items[j]
          = IF j \in m.removed THEN NoItem ELSE IF j \in Brought(m) THEN m.items[j] ELSE gi.items[j]
    BY DEF Updated
  <1>2. CASE j \in m.removed
    BY <1>1, <1>2 DEF NoItem
  <1>3. CASE j \notin m.removed
    <2>1. j \notin Brought(m)
      BY <1>1, <1>3 DEF Brought
    <2>2. Updated(gi, m, projects).items[j] = gi.items[j]
      BY <1>1, <1>3, <2>1
    <2> QED BY <2>2 DEF Unset
  <1> QED BY <1>2, <1>3

\* What a mutation leaves of a corpus: a project's has its projects changed, an issue's
\* its issues.
LEMMA ProcessedIs ==
  ASSUME NEW c \in Corpus, NEW m \in IssueMutation \union SchemaMutation
  PROVE  /\ m.num \in Issue \union Project
         /\ m \in IssueMutation =>
              /\ m.num \in Issue
              /\ Processed(c, m).projects = c.projects
              /\ Processed(c, m).issues
                   = [c.issues EXCEPT ![m.num] = Updated(c.issues[m.num], m, c.projects)]
         /\ m \in SchemaMutation =>
              /\ m.num \in Project
              /\ Processed(c, m).issues = c.issues
              /\ Processed(c, m).projects =
                   [c.projects EXCEPT ![m.num] =
                      [title |-> m.schema.title,
                       fields |-> IF m.schema.fields = {} THEN c.projects[m.num].fields
                                  ELSE m.schema.fields]]
  <1> DEFINE gi == c.issues[m.num]
             new == Updated(gi, m, c.projects)
             n == Cardinality(NewItems(gi, m))
             o == Cardinality(OldItems(gi, m))
             schema == [title |-> m.schema.title,
                        fields |-> IF m.schema.fields = {} THEN c.projects[m.num].fields
                                   ELSE m.schema.fields]
  <1>1. CASE m \in IssueMutation
    <2>1. m.kind = "issue" /\ m.num \in Issue
      BY <1>1 DEF IssueMutation
    <2>2. Processed(c, m) = [c EXCEPT !.issues[m.num] = new, !.numItems = @ + n - o]
      BY <2>1 DEF Processed
    <2> HIDE DEF gi, new, n, o
    <2>3. Processed(c, m).projects = c.projects
          /\ Processed(c, m).issues = [c.issues EXCEPT ![m.num] = new]
      BY <2>2 DEF Corpus
    <2>4. m \notin SchemaMutation
      BY <2>1 DEF SchemaMutation
    <2> QED BY <2>1, <2>3, <2>4 DEF new, gi
  <1>2. CASE m \in SchemaMutation
    <2>1. m.kind = "project" /\ m.num \in Project
      BY <1>2 DEF SchemaMutation
    <2>2. Processed(c, m) = [c EXCEPT !.projects[m.num] = schema]
      BY <2>1 DEF Processed, Corpus
    <2> HIDE DEF schema
    <2>3. Processed(c, m).issues = c.issues
          /\ Processed(c, m).projects = [c.projects EXCEPT ![m.num] = schema]
      BY <2>2 DEF Corpus
    <2>4. m \notin IssueMutation
      BY <2>1 DEF IssueMutation
    <2> QED BY <2>1, <2>3, <2>4 DEF schema
  <1> QED BY <1>1, <1>2

LEMMA ProcessedUnset ==
  ASSUME NEW c \in Corpus, \A i \in Issue : Unset(c.issues[i].items),
         NEW m \in IssueMutation \union SchemaMutation
  PROVE  \A i \in Issue : Unset(Processed(c, m).issues[i].items)
  <1>1. c.issues \in [Issue -> Known]
    BY DEF Corpus
  <1>2. CASE m \in IssueMutation
    <2>1. Processed(c, m).issues
            = [c.issues EXCEPT ![m.num] = Updated(c.issues[m.num], m, c.projects)]
          /\ m.num \in Issue
      BY <1>2, ProcessedIs
    <2>2. Unset(Updated(c.issues[m.num], m, c.projects).items)
      BY <1>1, <1>2, <2>1, UpdatedUnset
    <2> QED BY <1>1, <2>1, <2>2
  <1>3. CASE m \in SchemaMutation
    BY <1>3, ProcessedIs
  <1> QED BY <1>2, <1>3

LEMMA TidyNext ==
  ASSUME IInv, Tidy, [Next]_vars
  PROVE  Tidy'
  <1> DEFINE TidyUp == \A i \in Issue : Unset(up[i].items)
             TidyMem == \A i \in Issue : Unset(mem.issues[i].items)
             TidyDisk == \A i \in Issue : Unset(disk.issues[i].items)
             TidyJobs == \A p \in Process : job[p] # Idle => Unset(job[p].snap.items)
  <1>0. TidyUp /\ TidyMem /\ TidyDisk /\ TidyJobs
    BY DEF Tidy
  <1>1. TidyUp' /\ TidyMem' /\ TidyDisk' /\ TidyJobs' => Tidy'
    BY DEF Tidy
  <1>2. /\ mem \in Corpus /\ disk \in Corpus /\ up \in [Issue -> UpIssue] /\ Jobs /\ World
        /\ job \in [Process -> {Idle} \union Job]
    BY DEF IInv, World, Corpora, CorpusRight, Jobs
  <1>3. ASSUME NEW p \in Process, NEW m \in IssueMutation \union SchemaMutation, AddMutation(p, m)
        PROVE  TidyMem'
    BY <1>0, <1>2, <1>3, ProcessedUnset DEF AddMutation
  <1>4. ASSUME NEW p \in Process, NEW i \in Issue, Ask(p, i) \/ AskUndated(p, i) PROVE Tidy'
    <2>1. PICK date : Asks(p, i, date)
      BY <1>4 DEF Ask, AskUndated
    <2> DEFINE b == Answer(i, date)
    <2>2. job' = [job EXCEPT ![p] = b] /\ UNCHANGED <<github, mem, disk>>
      BY <2>1 DEF Asks
    <2>3. TidyUp' /\ TidyMem' /\ TidyDisk'
      BY <1>0, <2>2 DEF github
    <2>4. Unset(b.snap.items)
      BY <1>0 DEF Answer
    <2> HIDE DEF b
    <2>5. TidyJobs'
      BY <1>0, <1>2, <2>2, <2>4
    <2> QED BY <1>1, <2>3, <2>5
  <1>5. ASSUME NEW p \in Process, NEW b, job[p] # Idle, b.snap = job[p].snap,
               job' = [job EXCEPT ![p] = b]
        PROVE  TidyJobs'
    BY <1>0, <1>2, <1>5
  <1>6. ASSUME NEW p \in Process, NEW j \in Project, SyncItem(p, j) PROVE Tidy'
    <2> DEFINE b == job[p]
               m == IF SameItem(mem.issues[b.mut.num].items[j],
                                OwnValues(b.snap.items[j], b.boards[j])) THEN b.mut
                    ELSE [b.mut EXCEPT !.items[j] = OwnValues(b.snap.items[j], b.boards[j])]
               new == [b EXCEPT !.todo = @ \ {j}, !.mut = m]
    <2>1. b \in Job /\ b # Idle
      BY <1>2, <1>6, BusyHasJob DEF SyncItem, In
    <2>2. job' = [job EXCEPT ![p] = new] /\ UNCHANGED <<github, disk>>
      BY <1>2, <1>6 DEF SyncItem
    <2>3. new.snap = b.snap
      <3> HIDE DEF b, m
      <3> QED BY <2>1 DEF Job
    <2> HIDE DEF new
    <2>4. TidyJobs'
      BY <2>1, <2>2, <2>3, <1>5
    <2>5. TidyMem'
      <3>1. b.boards[j] \in Schema
        BY <2>1 DEF Job
      <3>2. ProjectMutation(j, b.boards[j]) \in SchemaMutation
        BY <3>1 DEF ProjectMutation, SchemaMutation
      <3>3. AddMutation(p, ProjectMutation(j, b.boards[j])) \/ mem' = mem
        BY <1>6 DEF SyncItem
      <3> QED BY <3>2, <3>3, <1>0, <1>3
    <2> QED BY <1>0, <1>1, <2>2, <2>4, <2>5 DEF github
  <1>7. ASSUME NEW p \in Process, Compare(p) PROVE Tidy'
    <2>1. job[p] \in Job /\ job[p] # Idle
      BY <1>2, <1>7, BusyHasJob DEF Compare, In
    <2> DEFINE m == Differing(job[p], mem.issues[job[p].mut.num])
    <2>2. job' = [job EXCEPT ![p] = [job[p] EXCEPT !.phase = "add", !.mut = m]]
      BY <1>2, <1>7 DEF Compare, Differing
    <2> HIDE DEF m
    <2>3. UNCHANGED <<github, mem, disk>>
      BY <1>7 DEF Compare
    <2>4. TidyJobs'
      <3> DEFINE new == [job[p] EXCEPT !.phase = "add", !.mut = m]
      <3>1. new.snap = job[p].snap
        BY <2>1 DEF Job
      <3>2. job' = [job EXCEPT ![p] = new]
        BY <2>2
      <3> HIDE DEF new
      <3> QED BY <2>1, <3>1, <3>2, <1>5
    <2> QED BY <1>0, <1>1, <2>3, <2>4 DEF github
  <1>8. ASSUME NEW p \in Process, Add(p) PROVE Tidy'
    <2>1. job[p] \in Job /\ job[p] # Idle
      BY <1>2, <1>8, BusyHasJob DEF Add, In
    <2>2. job' = [job EXCEPT ![p] = [job[p] EXCEPT !.phase = "done"]]
          /\ UNCHANGED <<github, disk>>
      BY <1>2, <1>8 DEF Add
    <2>3. TidyJobs'
      <3> DEFINE new == [job[p] EXCEPT !.phase = "done"]
      <3>1. new.snap = job[p].snap
        BY <2>1 DEF Job
      <3>2. job' = [job EXCEPT ![p] = new]
        BY <2>2
      <3> HIDE DEF new
      <3> QED BY <2>1, <3>1, <3>2, <1>5
    <2>4. TidyMem'
      <3>1. job[p].mut \in IssueMutation
        BY <2>1 DEF Job
      <3>2. AddMutation(p, job[p].mut) \/ mem' = mem
        BY <1>8 DEF Add
      <3> QED BY <3>1, <3>2, <1>0, <1>3
    <2> QED BY <1>0, <1>1, <2>2, <2>3, <2>4 DEF github
  <1>9. ASSUME NEW p \in Process, Return(p) PROVE Tidy'
    <2>1. job' = [job EXCEPT ![p] = Idle] /\ UNCHANGED <<github, mem, disk>>
      BY <1>9 DEF Return
    <2> QED BY <1>0, <1>1, <1>2, <2>1 DEF github
  <1>10. ASSUME NEW p \in Process, NEW j \in Project, AddProject(p, j) PROVE Tidy'
    <2> DEFINE m == ProjectMutation(j, [boards[j] EXCEPT !.fields = {}])
    <2>1. m \in SchemaMutation
      <3>1. [boards[j] EXCEPT !.fields = {}] \in Schema
        BY <1>2 DEF World, Schema
      <3> QED BY <3>1 DEF SchemaMutation, ProjectMutation
    <2>2. AddMutation(p, m) /\ UNCHANGED <<github, disk, job>>
      BY <1>10 DEF AddProject
    <2> HIDE DEF m
    <2>3. TidyMem'
      BY <2>1, <2>2, <1>3
    <2> QED BY <1>0, <1>1, <2>2, <2>3 DEF github
  <1>11. ASSUME NEW p \in Process, Log(p) PROVE Tidy'
    <2>1. pend[p] \in IssueMutation \union SchemaMutation
      BY <1>11 DEF Log, IInv, Pending
    <2>2. TidyDisk'
      BY <1>0, <1>2, <1>11, <2>1, ProcessedUnset DEF Log
    <2> QED BY <1>0, <1>1, <1>11, <2>2 DEF Log, github
  <1>12. CASE Crash
    BY <1>0, <1>1, <1>12 DEF Crash, github
  <1>13. CASE Tick \/ UNCHANGED vars
    BY <1>0, <1>1, <1>13 DEF Tick, vars
  <1>14. ASSUME NEW i \in Issue, NEW is, Edit(i, is), Unset(is.items) PROVE Tidy'
    <2>1. up' = [up EXCEPT ![i] = is] /\ UNCHANGED <<mem, disk, job>>
      BY <1>14 DEF Edit, Editing
    <2> QED BY <1>0, <1>1, <1>2, <1>14, <2>1
  <1>15. ASSUME NEW i \in Issue, SetType(i) PROVE Tidy'
    <2>1. PICK t : Edit(i, [up[i] EXCEPT !.type = t])
      BY <1>15 DEF SetType
    <2>2. [up[i] EXCEPT !.type = t].items = up[i].items
      BY <1>2 DEF UpIssue
    <2> QED BY <1>0, <2>1, <2>2, <1>14
  <1>16. ASSUME NEW i \in Issue, NEW n \in Name, SetField(i, n) PROVE Tidy'
    <2>1. PICK v : Edit(i, [up[i] EXCEPT !.fields[n] = v, !.changes = @ + 1])
      BY <1>16 DEF SetField
    <2>2. [up[i] EXCEPT !.fields[n] = v, !.changes = @ + 1].items = up[i].items
      BY <1>2 DEF UpIssue
    <2> QED BY <1>0, <2>1, <2>2, <1>14
  <1>17. ASSUME NEW i \in Issue, NEW j \in Project, NEW item,
                item.id = 0 => item.values = [f \in Field |-> 0]
         PROVE  Unset([up[i].items EXCEPT ![j] = item])
    <2>1. up[i].items \in [Project -> Item]
      BY <1>2 DEF UpIssue
    <2> QED BY <1>0, <1>17, <2>1 DEF Unset
  <1>18. ASSUME NEW i \in Issue, NEW j \in Project, AddToProject(i, j) PROVE Tidy'
    <2> DEFINE item == [NoItem EXCEPT !.id = Fresh, !.updated = now]
               new == [up[i] EXCEPT !.items[j] = item, !.events = @ \union {Fresh}]
    <2>1. Edit(i, new)
      BY <1>18 DEF AddToProject
    <2>2. item.values = [f \in Field |-> 0]
      BY DEF NoItem
    <2> HIDE DEF item
    <2>3. new.items = [up[i].items EXCEPT ![j] = item]
      BY <1>2 DEF UpIssue
    <2> HIDE DEF new
    <2> QED BY <2>1, <2>2, <2>3, <1>14, <1>17
  <1>19. ASSUME NEW i \in Issue, NEW j \in Project, RemoveFromProject(i, j) PROVE Tidy'
    <2> DEFINE new == [up[i] EXCEPT !.items[j] = NoItem, !.events = @ \union {Fresh}]
    <2>1. Edit(i, new)
      BY <1>19 DEF RemoveFromProject
    <2>2. new.items = [up[i].items EXCEPT ![j] = NoItem]
      BY <1>2 DEF UpIssue
    <2>3. NoItem.values = [f \in Field |-> 0]
      BY DEF NoItem
    <2> HIDE DEF new
    <2> QED BY <2>1, <2>2, <2>3, <1>14, <1>17
  <1>20. ASSUME NEW i \in Issue, NEW j \in Project, NEW f \in Field, SetValue(i, j, f) PROVE Tidy'
    <2>0. PICK v \in Given :
            Edit(i, [up[i] EXCEPT !.items[j].values[f] = v, !.items[j].updated = now])
      BY <1>20 DEF SetValue
    <2> DEFINE new == [up[i] EXCEPT !.items[j].values[f] = v, !.items[j].updated = now]
               item == [up[i].items[j] EXCEPT !.values[f] = v, !.updated = now]
    <2>1. Edit(i, new) /\ up[i].items[j].id # 0
      BY <1>20, <2>0 DEF SetValue
    <2>2. up[i] \in UpIssue /\ up[i].items[j] \in Item
      BY <1>2 DEF UpIssue
    <2>3. new.items = [up[i].items EXCEPT ![j] = item]
      BY <2>2 DEF UpIssue
    <2>4. item.id = up[i].items[j].id
      BY <2>2 DEF Item
    <2> HIDE DEF new, item
    <2> QED BY <2>1, <2>3, <2>4, <1>14, <1>17
  <1>21. ASSUME NEW j \in Project, EditProject(j) PROVE Tidy'
    BY <1>0, <1>1, <1>21 DEF EditProject, Editing
  <1> QED BY <1>4, <1>6, <1>7, <1>8, <1>9, <1>10, <1>11, <1>12, <1>13, <1>15, <1>16, <1>18,
             <1>19, <1>20, <1>21 DEF Next, GitHub

\* A caller that no other has met is the only one at work.
LEMMA OneAtWork ==
  ASSUME Jobs, Solo, NEW p \in Process, job[p] # Idle, NEW b, b # Idle,
         job' = [job EXCEPT ![p] = b], alone' = alone, p \in alone => Progress(b, mem')
  PROVE  Solo'
  <1> SUFFICES ASSUME NEW r \in alone
               PROVE  /\ job'[r] # Idle /\ \A q \in Process \ {r} : job'[q] = Idle
                      /\ Progress(job'[r], mem')
    BY DEF Solo
  <1>1. r = p
    BY DEF Solo
  <1>2. job \in [Process -> {Idle} \union Job]
    BY DEF Jobs
  <1>3. job'[p] = b /\ \A q \in Process \ {p} : job'[q] = job[q]
    BY <1>2
  <1> QED BY <1>1, <1>3 DEF Solo

LEMMA SyncItemProgress ==
  ASSUME IInv, Tidy, Solo, NEW p \in Process, NEW j \in Project, SyncItem(p, j)
  PROVE  Solo'
  <1> DEFINE b == job[p]
             n == b.mut.num
             schema == b.boards[j]
             item == OwnValues(b.snap.items[j], schema)
             with == [b.mut EXCEPT !.items[j] = item]
             same == SameItem(mem.issues[n].items[j], item)
             m == IF same THEN b.mut ELSE with
             new == [b EXCEPT !.todo = @ \ {j}, !.mut = m]
  <1>1. World /\ Corpora /\ Pending /\ Jobs /\ mem \in Corpus
    BY DEF IInv, Corpora, CorpusRight
  <1>2. b \in Job /\ JobRight(Dates, b) /\ b # Idle /\ j \in b.todo /\ b.phase = "items"
    BY <1>1, BusyHasJob DEF SyncItem, In
  <1>3. schema \in Schema /\ b.mut \in IssueMutation /\ n \in Issue
    BY <1>2 DEF Job, IssueMutation
  <1>4. job' = [job EXCEPT ![p] = new] /\ alone' = alone
    BY <1>1 DEF SyncItem, Jobs
  <1>5. /\ with.items = [b.mut.items EXCEPT ![j] = item] /\ with.num = n
        /\ Brought(with) = Brought(b.mut) \union {j}
    <2>1. Brought(with) = Brought(b.mut) \union {j}
      <3> HIDE DEF b
      <3> QED BY <1>1, <1>2, <1>3, BringItem
    <2> HIDE DEF b, item
    <2> QED BY <2>1, <1>3 DEF IssueMutation
  <1>6. /\ new.phase = "items" /\ new.snap = b.snap /\ new.boards = b.boards
        /\ new.todo = b.todo \ {j} /\ new.mut = m
    <2> HIDE DEF b, m
    <2> QED BY <1>2 DEF Job
  <1>7. /\ mem'.issues = mem.issues
        /\ \A k \in Project : k # j => mem'.projects[k] = mem.projects[k]
        /\ mem'.projects[j].title = schema.title
        /\ schema.fields # {} => mem'.projects[j].fields = schema.fields
    <2>1. CASE NeedsUpdate(mem.projects[j], schema)
      <3> DEFINE s == ProjectMutation(j, schema)
      <3>1. s \in SchemaMutation /\ s.num = j /\ s.schema = schema
        BY <1>3 DEF SchemaMutation, ProjectMutation
      <3>2. mem' = Processed(mem, s)
        BY <2>1 DEF SyncItem, AddMutation
      <3> HIDE DEF s
      <3>3. /\ mem'.issues = mem.issues
            /\ mem'.projects = [mem.projects EXCEPT ![j] =
                 [title |-> schema.title,
                  fields |-> IF schema.fields = {} THEN mem.projects[j].fields
                             ELSE schema.fields]]
        <4> HIDE DEF schema
        <4>1. s \in IssueMutation \union SchemaMutation
          BY <3>1
        <4>2. /\ Processed(mem, s).issues = mem.issues
              /\ Processed(mem, s).projects = [mem.projects EXCEPT ![s.num] =
                   [title |-> s.schema.title,
                    fields |-> IF s.schema.fields = {} THEN mem.projects[s.num].fields
                               ELSE s.schema.fields]]
          BY <3>1, <4>1, <1>1, ProcessedIs
        <4> QED BY <3>1, <3>2, <4>2
      <3>4. mem.projects \in [Project -> Schema]
        BY <1>1 DEF Corpus
      <3> HIDE DEF schema
      <3> QED BY <3>3, <3>4
    <2>2. CASE ~NeedsUpdate(mem.projects[j], schema)
      <3>1. mem' = mem /\ mem.projects[j] = schema
        BY <2>2 DEF SyncItem, NeedsUpdate
      <3> QED BY <3>1
    <2> QED BY <2>1, <2>2
  <1>8. ASSUME p \in alone PROVE Progress(new, mem')
    <2>1. Progress(b, mem)
      BY <1>8 DEF Solo
    <2>2. j \notin Brought(b.mut)
      BY <2>1, <1>2 DEF Progress
    <2>3. m.num = n /\ Brought(m) \subseteq Brought(b.mut) \union {j}
      BY <1>5
    <2>4. Brought(m) \intersect new.todo = {}
      BY <2>1, <2>3, <1>2, <1>6 DEF Progress
    <2>5. ASSUME NEW k \in Items(b.snap) \ new.todo
          PROVE  SchemaTold(new, mem', k) /\ ItemTold(new, mem.issues[n], k)
      <3>1. k \in Project
        BY DEF Items
      <3>2. CASE k = j
        <4>1. SchemaTold(new, mem', k)
          BY <1>6, <1>7, <3>2 DEF SchemaTold
        <4>2. CASE same
          <5>1. m = b.mut
            BY <4>2
          <5> HIDE DEF m, new, same
          <5>2. SameItem(mem.issues[n].items[k], OwnValues(new.snap.items[k], new.boards[k]))
            BY <1>6, <3>2, <4>2 DEF same
          <5>3. ItemTold(new, mem.issues[n], k)
            BY <5>1, <5>2, <1>6, <2>2, <3>2 DEF ItemTold
          <5> QED BY <4>1, <5>3
        <4>3. CASE ~same
          <5>1. m = with
            BY <4>3
          <5>2. m.items[j] = item /\ j \in Brought(m)
            <6>1. b.mut.items \in [Project -> Item]
              BY <1>3 DEF IssueMutation
            <6> HIDE DEF b, item, m, with
            <6> QED BY <5>1, <6>1, <1>5
          <5> HIDE DEF m, with
          <5>3. ItemTold(new, mem.issues[n], k)
            BY <5>2, <1>6, <3>2 DEF ItemTold
          <5> QED BY <4>1, <5>3
        <4> QED BY <4>2, <4>3
      <3>3. CASE k # j
        <4>1. k \in Items(b.snap) \ b.todo
          BY <1>6, <3>3
        <4>2. SchemaTold(b, mem, k) /\ ItemTold(b, mem.issues[n], k)
          BY <2>1, <4>1, <1>2 DEF Progress
        <4>3. SchemaTold(new, mem', k)
          BY <4>2, <1>6, <1>7, <3>1, <3>3 DEF SchemaTold
        <4>4. m.items[k] = b.mut.items[k] /\ (k \in Brought(m) <=> k \in Brought(b.mut))
          <5>1. b.mut.items \in [Project -> Item]
            BY <1>3 DEF IssueMutation
          <5>2. m = b.mut \/ m = with
            OBVIOUS
          <5> HIDE DEF b, item, m, with
          <5> QED BY <5>1, <5>2, <1>5, <3>1, <3>3
        <4> HIDE DEF m, new
        <4>5. ItemTold(new, mem.issues[n], k)
          BY <4>2, <4>4, <1>6 DEF ItemTold
        <4> QED BY <4>3, <4>5
      <3> QED BY <3>2, <3>3
    <2> HIDE DEF new, m, b
    <2> QED BY <2>3, <2>4, <2>5, <1>6, <1>7 DEF Progress
  <1>9. new # Idle
    BY <1>6 DEF Idle
  <1> HIDE DEF new, m
  <1> QED BY <1>1, <1>2, <1>4, <1>8, <1>9, OneAtWork

\* Once every item was compared, the mutation makes of the issue what the answer has.
LEMMA DiffersIsEnough ==
  ASSUME NEW b \in Job, NEW gi \in Known, NEW projects, Unset(gi.items), Unset(b.snap.items),
         \A j \in Items(b.snap) : ItemTold(b, gi, j), Brought(b.mut) \subseteq Items(b.snap),
         NEW m \in IssueMutation, m.items = b.mut.items,
         m.removed = Removed(gi, b.snap), m.events = Seen(b.snap) \ gi.events,
         m.type = IF b.snap.type # gi.type THEN b.snap.type ELSE 0,
         FieldsFit(b.snap) => IF m.fieldsSynced THEN m.fields = b.snap.fields
                              ELSE gi.fields = b.snap.fields,
         ~FieldsFit(b.snap) => ~m.fieldsSynced,
         ChangesFit(b.snap) => IF m.changesSynced THEN m.changes = b.snap.changes
                               ELSE gi.changes = b.snap.changes
  PROVE  Agrees(Updated(gi, m, projects), b.snap, b.boards)
  <1> DEFINE is == b.snap
             new == Updated(gi, m, projects)
  <1>0. is \in UpIssue
    BY DEF Job
  <1>1. ASSUME NEW j \in Project
        PROVE  SameItem(new.items[j], OwnValues(is.items[j], b.boards[j]))
    <2> DEFINE item == OwnValues(is.items[j], b.boards[j])
    <2>1. new.items[j] = IF j \in m.removed THEN NoItem
                         ELSE IF j \in Brought(m) THEN m.items[j] ELSE gi.items[j]
      BY DEF Updated
    <2>2. Brought(m) = Brought(b.mut)
      BY DEF Brought
    <2>3. CASE j \in Items(is)
      <3>1. j \notin m.removed
        BY <2>3 DEF Removed
      <3>2. ItemTold(b, gi, j)
        BY <2>3
      <3> HIDE DEF new, item
      <3>3. SameItem(new.items[j], item)
        BY <2>1, <2>2, <3>1, <3>2 DEF ItemTold, SameItem, item
      <3> QED BY <3>3 DEF item
    <2>4. CASE j \notin Items(is)
      <3>1. is.items[j].id = 0 /\ is.items[j].values = [f \in Field |-> 0]
        BY <2>4 DEF Items, Unset
      <3>2. j \notin Brought(m)
        BY <2>2, <2>4
      <3>3. new.items[j].id = 0 /\ new.items[j].values = [f \in Field |-> 0]
        <4>1. CASE j \in Items(gi)
          <5>1. j \in m.removed
            BY <4>1, <2>4 DEF Removed
          <5> QED BY <2>1, <5>1 DEF NoItem
        <4>2. CASE j \notin Items(gi)
          <5>1. new.items[j] = gi.items[j]
            BY <2>1, <3>2, <4>2 DEF Removed
          <5> QED BY <4>2, <5>1 DEF Items, Unset
        <4> QED BY <4>1, <4>2
      <3>4. item.id = 0 /\ item.values = [f \in Field |-> 0]
        <4>1. is.items[j] \in Item
          BY <1>0 DEF UpIssue
        <4> HIDE DEF is
        <4> QED BY <4>1, <3>1 DEF OwnValues, Item, Values
      <3> HIDE DEF new, item
      <3>5. SameItem(new.items[j], item)
        BY <3>3, <3>4 DEF SameItem
      <3> QED BY <3>5 DEF item
    <2> QED BY <2>3, <2>4
  <1>2. Seen(is) \subseteq new.events
    BY DEF Updated
  <1>3. is.type \in {0, new.type}
    <2>1. new.type = IF m.type # 0 THEN m.type ELSE gi.type
      BY DEF Updated
    <2> QED BY <2>1
  <1>4. FieldsFit(is) => new.fields = is.fields
    <2>1. new.fields = IF m.fieldsSynced THEN m.fields ELSE gi.fields
      BY DEF Updated
    <2> HIDE DEF new
    <2> QED BY <2>1
  <1>5. ChangesFit(is) => new.changes = is.changes
    <2>1. new.changes = IF m.changesSynced THEN m.changes ELSE gi.changes
      BY DEF Updated
    <2> HIDE DEF new
    <2> QED BY <2>1
  <1> HIDE DEF new
  <1>6. Agrees(new, is, b.boards)
    BY <1>1, <1>2, <1>3, <1>4, <1>5 DEF Agrees
  <1> QED BY <1>6 DEF new

LEMMA CompareProgress ==
  ASSUME IInv, Tidy, Solo, NEW p \in Process, Compare(p)
  PROVE  Solo'
  <1> DEFINE b == job[p]
             n == b.mut.num
             is == b.snap
             gi == mem.issues[n]
             m == Differing(b, gi)
             new == [b EXCEPT !.phase = "add", !.mut = m]
  <1>1. World /\ Corpora /\ Pending /\ Jobs /\ mem \in Corpus
    BY DEF IInv, Corpora, CorpusRight
  <1>2. b \in Job /\ JobRight(Dates, b) /\ b # Idle /\ b.todo = {} /\ b.phase = "items"
    BY <1>1, BusyHasJob DEF Compare, In
  <1>3. b.mut \in IssueMutation /\ n \in Issue /\ gi \in Known /\ is \in UpIssue
    BY <1>1, <1>2 DEF Job, IssueMutation, Corpus
  <1>4. job' = [job EXCEPT ![p] = new] /\ alone' = alone /\ mem' = mem
    BY <1>1 DEF Compare, Jobs, Differing
  <1>5. /\ new.phase = "add" /\ new.snap = is /\ new.boards = b.boards
        /\ new.todo = {} /\ new.mut = m
    <2> HIDE DEF b, m
    <2> QED BY <1>2 DEF Job, is
  <1>6. job'[p] \in Job /\ job'[p] = new
    <2> HIDE DEF new
    <2>1. IInv'
      BY CompareKeeps
    <2>2. job'[p] = new
      BY <1>1, <1>4 DEF Jobs
    <2>3. job'[p] # Idle
      BY <2>2, <1>5 DEF Idle
    <2> QED BY <2>1, <2>2, <2>3 DEF IInv, Jobs
  <1>7. m \in IssueMutation
    <2> HIDE DEF new, m
    <2> QED BY <1>6, <1>5 DEF Job
  <1> DEFINE fields == FieldsFit(is) /\ is.fields # gi.fields
             changes == ChangesFit(is) /\ ChangesDiffer(gi, is)
  <1>8. /\ m.num = n /\ m.items = b.mut.items /\ m.removed = Removed(gi, is)
        /\ m.events = Seen(is) \ gi.events
        /\ m.type = IF is.type # gi.type THEN is.type ELSE 0
        /\ m.fieldsSynced = fields /\ m.fields = (IF fields THEN is.fields ELSE NoFields)
        /\ m.changesSynced = changes /\ m.changes = (IF changes THEN is.changes ELSE 0)
    <2> HIDE DEF b, gi
    <2> QED BY <1>3 DEF IssueMutation, Differing
  <1>9. ASSUME p \in alone PROVE Progress(new, mem)
    <2>1. Progress(b, mem)
      BY <1>9 DEF Solo
    <2>2. \A j \in Items(is) : SchemaTold(b, mem, j) /\ ItemTold(b, gi, j)
      BY <2>1, <1>2 DEF Progress
    <2>3. Unset(gi.items) /\ Unset(is.items)
      BY <1>2, <1>3 DEF Tidy
    <2>4. Brought(b.mut) \subseteq Items(is)
      BY <1>2 DEF JobRight
    <2>5. FieldsFit(is) => IF m.fieldsSynced THEN m.fields = is.fields ELSE gi.fields = is.fields
      <3> HIDE DEF m, is, gi
      <3> QED BY <1>8
    <2>6. ~FieldsFit(is) => ~m.fieldsSynced
      <3> HIDE DEF m, is, gi
      <3> QED BY <1>8
    <2>7. ChangesFit(is) => IF m.changesSynced THEN m.changes = is.changes
                            ELSE gi.changes = is.changes
      <3> HIDE DEF m, is, gi
      <3> QED BY <1>8 DEF ChangesDiffer
    <2>8. Agrees(Updated(gi, m, mem.projects), is, b.boards)
      <3> HIDE DEF m, gi, b
      <3> QED BY <2>2, <2>3, <2>4, <2>5, <2>6, <2>7, <1>2, <1>3, <1>7, <1>8, DiffersIsEnough
    <2>9. \A j \in Items(is) : SchemaTold(new, mem, j)
      <3> HIDE DEF new, m
      <3> QED BY <2>2, <1>5 DEF SchemaTold
    <2> HIDE DEF new, m, b
    <2> QED BY <2>8, <2>9, <1>5, <1>8 DEF Progress, gi
  <1>10. new # Idle
    BY <1>5 DEF Idle
  <1> HIDE DEF new
  <1> QED BY <1>1, <1>2, <1>4, <1>9, <1>10, OneAtWork

\* Adding nothing leaves what adding a mutation without contents would.
LEMMA NothingToAdd ==
  ASSUME NEW gi \in Known, NEW i, NEW projects, NEW is, NEW schemas,
         Agrees(Updated(gi, NoMutation(i), projects), is, schemas)
  PROVE  Agrees(gi, is, schemas)
  <1> DEFINE m == NoMutation(i)
             new == Updated(gi, m, projects)
  <1>1. /\ Brought(m) = {} /\ m.removed = {} /\ m.events = {} /\ m.type = 0
        /\ m.fieldsSynced = FALSE /\ m.changesSynced = FALSE
    BY DEF NoMutation, Brought, NoItems, NoItem
  <1> HIDE DEF m
  <1>2. \A j \in Project : new.items[j] = gi.items[j]
    BY <1>1 DEF Updated
  <1>3. new.events = gi.events /\ new.type = gi.type
    BY <1>1 DEF Updated
  <1>4. new.fields = gi.fields /\ new.changes = gi.changes
    BY <1>1 DEF Updated
  <1> HIDE DEF new
  <1>5. Agrees(new, is, schemas)
    BY DEF new, m
  <1> QED BY <1>2, <1>3, <1>4, <1>5 DEF Agrees

LEMMA AddProgress ==
  ASSUME IInv, Tidy, Solo, NEW p \in Process, Add(p)
  PROVE  Solo'
  <1> DEFINE b == job[p]
             m == b.mut
             gi == mem.issues[m.num]
             new == [b EXCEPT !.phase = "done"]
  <1>1. World /\ Corpora /\ Pending /\ Jobs /\ mem \in Corpus
    BY DEF IInv, Corpora, CorpusRight
  <1>2. b \in Job /\ JobRight(Dates, b) /\ b # Idle /\ b.phase = "add"
    BY <1>1, BusyHasJob DEF Add, In
  <1>3. m \in IssueMutation /\ m.num \in Issue /\ gi \in Known
    BY <1>1, <1>2 DEF Job, IssueMutation, Corpus
  <1>4. job' = [job EXCEPT ![p] = new] /\ alone' = alone
    BY <1>1 DEF Add, Jobs
  <1>5. /\ new.phase = "done" /\ new.snap = b.snap /\ new.boards = b.boards
        /\ new.todo = b.todo /\ new.mut = m
    <2> HIDE DEF b
    <2> QED BY <1>2 DEF Job, m
  <1>6. ASSUME p \in alone PROVE Progress(new, mem')
    <2>1. Progress(b, mem)
      BY <1>6 DEF Solo
    <2>2. b.todo = {} /\ Agrees(Updated(gi, m, mem.projects), b.snap, b.boards)
          /\ \A j \in Items(b.snap) : SchemaTold(b, mem, j)
      BY <2>1, <1>2 DEF Progress
    <2>3. mem'.projects = mem.projects /\ Agrees(mem'.issues[m.num], b.snap, b.boards)
      <3>1. CASE m = NoMutation(m.num)
        <4>1. mem' = mem
          BY <3>1 DEF Add
        <4>2. Agrees(Updated(gi, NoMutation(m.num), mem.projects), b.snap, b.boards)
          BY <2>2, <3>1
        <4> HIDE DEF gi, m
        <4>3. Agrees(gi, b.snap, b.boards)
          BY <4>2, <1>3, NothingToAdd
        <4> QED BY <4>1, <4>3 DEF gi
      <3>2. CASE m # NoMutation(m.num)
        <4>1. mem' = Processed(mem, m)
          BY <3>2 DEF Add, AddMutation
        <4> HIDE DEF m
        <4>2. mem'.projects = mem.projects
              /\ mem'.issues = [mem.issues EXCEPT ![m.num] = Updated(gi, m, mem.projects)]
          BY <4>1, <1>1, <1>3, ProcessedIs
        <4>3. mem.issues \in [Issue -> Known]
          BY <1>1 DEF Corpus
        <4>4. mem'.issues[m.num] = Updated(gi, m, mem.projects)
          BY <4>2, <4>3, <1>3
        <4> QED BY <2>2, <4>2, <4>4
      <3> QED BY <3>1, <3>2
    <2>4. \A j \in Items(b.snap) : SchemaTold(new, mem', j)
      <3> HIDE DEF new
      <3> QED BY <2>2, <2>3, <1>5 DEF SchemaTold
    <2> HIDE DEF new, b, m
    <2> QED BY <2>2, <2>3, <2>4, <1>5 DEF Progress
  <1>7. new # Idle
    BY <1>5 DEF Idle
  <1> HIDE DEF new
  <1> QED BY <1>1, <1>2, <1>4, <1>6, <1>7, OneAtWork

LEMMA AskProgress ==
  ASSUME IInv, Solo, NEW p \in Process, NEW i \in Issue, NEW date, Asks(p, i, date)
  PROVE  Solo'
  <1> DEFINE b == Answer(i, date)
  <1>1. /\ job' = [job EXCEPT ![p] = b]
        /\ alone' = IF \A q \in Process : job[q] = Idle THEN {p} ELSE {}
        /\ mem' = mem
    BY DEF Asks
  <1>2. Progress(b, mem)
    <2>1. b.phase = "items" /\ b.todo = Items(b.snap) /\ b.mut = NoMutation(i)
      BY DEF Answer
    <2>2. Brought(b.mut) = {}
      BY <2>1 DEF NoMutation, Brought, NoItems, NoItem
    <2> HIDE DEF b
    <2> QED BY <2>1, <2>2 DEF Progress
  <1>3. b # Idle
    BY DEF Answer, Idle
  <1> HIDE DEF b
  <1>4. job'[p] = b /\ \A q \in Process \ {p} : job'[q] = job[q]
    BY <1>1 DEF IInv, Jobs
  <1> QED BY <1>1, <1>2, <1>3, <1>4 DEF Solo

LEMMA SoloNext ==
  ASSUME IInv, Tidy, Solo, [Next]_vars
  PROVE  Solo'
  <1>1. ASSUME NEW p \in Process, NEW i \in Issue, Ask(p, i) \/ AskUndated(p, i) PROVE Solo'
    BY <1>1, AskProgress DEF Ask, AskUndated
  <1>2. ASSUME NEW p \in Process, NEW j \in Project, SyncItem(p, j) PROVE Solo'
    BY <1>2, SyncItemProgress
  <1>3. ASSUME NEW p \in Process, Compare(p) \/ Add(p) PROVE Solo'
    BY <1>3, CompareProgress, AddProgress
  <1>4. ASSUME NEW p \in Process, Return(p) PROVE Solo'
    <2>1. job[p] # Idle
      BY <1>4 DEF Return, In, Idle
    <2>2. alone' = {}
      BY <1>4, <2>1 DEF Return, Solo
    <2> QED BY <2>2 DEF Solo
  <1>5. ASSUME NEW p \in Process, NEW j \in Project, AddProject(p, j) PROVE Solo'
    BY <1>5 DEF AddProject, Solo
  <1>6. CASE UNCHANGED <<mem, job, alone>>
    BY <1>6 DEF Solo
  <1>7. CASE Crash
    BY <1>7 DEF Crash, Solo
  <1>8. CASE Tick \/ (\E p \in Process : Log(p)) \/ UNCHANGED vars
    BY <1>6, <1>8 DEF Tick, Log, vars
  <1>9. CASE GitHub
    <2>1. ASSUME NEW i \in Issue, SetType(i) \/ (\E n \in Name : SetField(i, n)) PROVE Editing
      BY <2>1 DEF SetType, SetField, Edit
    <2>2. ASSUME NEW i \in Issue, NEW j \in Project,
                 \/ AddToProject(i, j) \/ RemoveFromProject(i, j)
                 \/ \E f \in Field : SetValue(i, j, f)
          PROVE  Editing
      <3>1. CASE AddToProject(i, j)
        BY <3>1 DEF AddToProject, Edit
      <3>2. CASE RemoveFromProject(i, j)
        BY <3>2 DEF RemoveFromProject, Edit
      <3>3. CASE \E f \in Field : SetValue(i, j, f)
        BY <3>3 DEF SetValue, Edit
      <3> QED BY <2>2, <3>1, <3>2, <3>3
    <2>3. ASSUME NEW j \in Project, EditProject(j) PROVE Editing
      BY <2>3 DEF EditProject
    <2>4. Editing
      BY <1>9, <2>1, <2>2, <2>3 DEF GitHub
    <2> QED BY <2>4, <1>6 DEF Editing
  <1> QED BY <1>1, <1>2, <1>3, <1>4, <1>5, <1>7, <1>8, <1>9 DEF Next

LEMMA SoloHolds == Spec => [](Tidy /\ Solo)
  <1>1. Init => Tidy /\ Solo
    <2>1. ASSUME NEW is, MadeBefore(is) PROVE Unset(is.items)
      <3> SUFFICES ASSUME NEW j \in Project, is.items[j].id = 0
                   PROVE  is.items[j].values = [f \in Field |-> 0]
        BY DEF Unset
      <3>1. InitEdits \in Nat
        BY ProjectsAssumption DEF InitAssumption
      <3>2. is.items[j] = NoItem
        BY <2>1, <3>1 DEF MadeBefore
      <3> QED BY <3>2 DEF NoItem
    <2>2. \A i \in Issue : Unset(InitUp[i].items) /\ Unset(InitMem.issues[i].items)
      BY <2>1, ProjectsAssumption DEF InitAssumption
    <2> QED BY <2>2 DEF Init, Tidy, Solo
  <1>2. IInv /\ Tidy /\ Solo /\ [Next]_vars => Tidy' /\ Solo'
    BY TidyNext, SoloNext
  <1> QED BY <1>1, <1>2, InvariantHolds, PTL DEF Spec

\* A caller that no other met has left the issue, and the projects it is in, as GitHub
\* answered: item by item the mutation has what the corpus had not, and adding it makes
\* up the difference, whatever earlier callers and restarts left behind.
THEOREM AloneSeesAll == Spec => []AloneIsComplete
  <1>1. ASSUME IInv, Solo, NEW p \in alone, In(p, "done")
        PROVE  LET j == job[p] IN
               /\ Agrees(mem.issues[j.mut.num], j.snap, j.boards)
               /\ \A k \in Items(j.snap) :
                    /\ mem.projects[k].title = j.boards[k].title
                    /\ j.boards[k].fields # {} => mem.projects[k].fields = j.boards[k].fields
    <2>1. Progress(job[p], mem) /\ job[p].phase = "done"
      BY <1>1 DEF Solo, In
    <2> QED BY <2>1 DEF Progress, SchemaTold
  <1>2. IInv /\ Solo => AloneIsComplete
    BY <1>1 DEF AloneIsComplete
  <1> QED BY <1>2, InvariantHolds, SoloHolds, PTL
=============================================================================
