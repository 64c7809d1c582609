---------------------------- MODULE GitHubProjects ----------------------------
(***************************************************************************)
(* SyncProjectsForIssue: what the boards (Projects V2) and the fields of   *)
(* the organization say of an issue.  One GraphQL request answers the      *)
(* items that the issue has in projects with the projects' schemas, the    *)
(* first page of the events of the boards, the issue's type, and the       *)
(* values and the history of its fields.  The mutation of a project whose  *)
(* schema is new comes before that of the issue, which has what differs    *)
(* from the corpus.                                                        *)
(*                                                                         *)
(* Whoever has a corpus may call it, from any goroutine.  The corpus is    *)
(* read in pieces, each under the lock, and written through addMutation,   *)
(* which processes a mutation under the lock and logs it later; a crash    *)
(* loses the corpus and what is not logged.                                *)
(*                                                                         *)
(* A step here reads what it compares at once, and adds a mutation with    *)
(* the comparison that led to it; the code takes the lock for each.        *)
(*                                                                         *)
(* On GitHub, IDs are not used twice; a value is, when a field is set to   *)
(* what it was before.  An issue is in no more projects than an answer can *)
(* have, and a project has no more fields.                                 *)
(***************************************************************************)
EXTENDS Integers, FiniteSets

CONSTANTS
  Process,    \* the callers
  Issue,
  InitKnown,  \* the issues that the corpus has
  Project,
  Field,      \* fields that a project may have
  Name,       \* and an issue by itself
  PageSize,   \* what an answer has at most of events, fields and changes; 100 in the code
  InitProjects,
  InitEdits,  \* so many edits were in the first second;
  InitUp,     \* they left this of the issues on GitHub,
  InitMem,    \* and this is what calls before told the corpus of it
  MaxTime,    \* bound: seconds
  MaxEdits,   \* bound: edits on GitHub
  MaxFaults   \* bound: answers without a Date and restarts of the leader

Values == [Field -> Nat]  \* 0 where a field is not set
Item == [id : Nat, values : Values, updated : Nat]
NoItem == [id |-> 0, values |-> [f \in Field |-> 0], updated |-> 0]

\* A project's title stands for what is copied one by one.
Schema == [title : Nat, fields : SUBSET Field]
Untold == [title |-> 0, fields |-> {}]

\* The number of an edit on GitHub is the ID that it gives, and its event; and the
\* value, unless that is the value of an earlier edit, or none.
EditNum == 1 .. MaxEdits

\* What GitHub has of an issue; changes is the length of its fields' history.
UpIssue ==
  [items : [Project -> Item], events : SUBSET EditNum, type : Nat, fields : [Name -> Nat],
   changes : Nat]

NoItems == [j \in Project |-> NoItem]
NoFields == [n \in Name |-> 0]
NoMeta == [items |-> NoItems, events |-> {}, type |-> 0, fields |-> NoFields, changes |-> 0]

\* What the corpus has.  linked[j]: the item's Project is not nil; undated, a history
\* variable: the type or a field came with an answer that had no Date.
Known ==
  [items : [Project -> Item], linked : SUBSET Project, events : SUBSET EditNum,
   type : Nat, fields : [Name -> Nat], changes : Nat,
   eventMaxTime : Nat, metaChangedAt : Nat, undated : BOOLEAN]

Blank ==
  [items |-> NoItems, linked |-> {}, events |-> {}, type |-> 0, fields |-> NoFields,
   changes |-> 0, eventMaxTime |-> 0, metaChangedAt |-> 0, undated |-> FALSE]

Corpus == [issues : [Issue -> Known], projects : [Project -> Schema], numItems : Nat]

\* is has nothing but what the first edits made; an item may have come without an event.
MadeBefore(is) ==
  /\ is.events \subseteq 1 .. InitEdits /\ is.type <= InitEdits
  /\ \A n \in Name : is.fields[n] <= InitEdits
  /\ \A j \in Project :
       \/ is.items[j] = NoItem
       \/ /\ is.items[j].id \in 1 .. InitEdits /\ is.items[j].updated = 1
          /\ \A f \in Field : is.items[j].values[f] <= InitEdits

InitAssumption ==
  /\ InitEdits \in 0 .. MaxEdits /\ InitUp \in [Issue -> UpIssue] /\ InitMem \in Corpus
  /\ InitMem.numItems =
       Cardinality({k \in Issue \X Project : InitMem.issues[k[1]].items[k[2]].id # 0})
  /\ \A i \in Issue :
       LET gi == InitMem.issues[i] IN
       /\ MadeBefore(InitUp[i]) /\ MadeBefore(gi)
       /\ gi.items # NoItems \/ gi.events # {} => gi.eventMaxTime = 1
       /\ gi.type # 0 \/ gi.fields # NoFields => gi.metaChangedAt = 1

ASSUME ProjectsAssumption ==
  /\ IsFiniteSet(Issue) /\ InitKnown \subseteq Issue
  /\ IsFiniteSet(Project)
  /\ InitProjects \in [Project -> [title : Nat \ {0}, fields : SUBSET Field]]
  /\ PageSize \in Nat \ {0} /\ {MaxTime, MaxEdits, MaxFaults} \subseteq Nat
  /\ InitAssumption

VARIABLES
  now,      \* the time, in seconds
  up,       \* the issues on GitHub
  boards,   \* the projects on GitHub
  when,     \* when[k]: the time of the k-th edit on GitHub
  mem,      \* the leader's corpus
  disk,     \* the corpus that a replay of the log gives
  pend,     \* pend[p]: the mutation that p processed but has not logged
  job,      \* job[p]: the variables of syncProjectsForIssue
  alone,    \* callers that no other has met since they asked: a history variable
  edits, faults

github == <<now, up, boards, when, edits>>
vars == <<now, up, boards, when, mem, disk, pend, job, alone, edits, faults>>

-----------------------------------------------------------------------------
Latest(S) == CHOOSE t \in S : \A s \in S : s <= t

None == [kind |-> "none"]
NoMutation(i) ==
  [kind |-> "issue", num |-> i, items |-> NoItems, removed |-> {}, events |-> {},
   times |-> {0}, type |-> 0, fieldsSynced |-> FALSE, fields |-> NoFields,
   changesSynced |-> FALSE, changes |-> 0, meta |-> 0]
ProjectMutation(j, schema) == [kind |-> "project", num |-> j, schema |-> schema]

\* The projects whose items m brings.
Brought(m) == {j \in Project : m.items[j].id # 0}

\* The boards' events do not move the issue's updated time, nor do the values of an item.
EventMaxTimeOfEvents(gi, m) == Latest({gi.eventMaxTime} \union m.times)
EventMaxTime(gi, m) ==
  Latest({gi.eventMaxTime} \union m.times \union {m.items[j].updated : j \in Brought(m)})

\* What m makes of an issue: an item is replaced, and linked to its project if that
\* is known by now; the fields and their history are snapshots.
Updated(gi, m, projects) ==
  [items |-> [j \in Project |-> IF j \in m.removed THEN NoItem
                                ELSE IF j \in Brought(m) THEN m.items[j] ELSE gi.items[j]],
   linked |-> ((gi.linked \ Brought(m)) \union {j \in Brought(m) : projects[j] # Untold})
              \ m.removed,
   events |-> gi.events \union m.events,
   type |-> IF m.type # 0 THEN m.type ELSE gi.type,
   fields |-> IF m.fieldsSynced THEN m.fields ELSE gi.fields,
   changes |-> IF m.changesSynced THEN m.changes ELSE gi.changes,
   eventMaxTime |-> EventMaxTime(gi, m),
   metaChangedAt |-> Latest({gi.metaChangedAt, m.meta}),
   undated |-> gi.undated \/ (m.meta = 0 /\ (m.fieldsSynced \/ m.type # 0))]

\* numProjectItems counts an item that was not there, and no longer one that was.
EveryItem(gi, m) == Brought(m)
NewItems(gi, m) == {j \in Brought(m) : gi.items[j].id = 0}
EveryRemoved(gi, m) == m.removed
OldItems(gi, m) == {j \in m.removed : gi.items[j].id # 0}

\* A project keeps the fields it had if the mutation has none.
Processed(c, m) ==
  IF m.kind = "project"
  THEN [c EXCEPT !.projects[m.num] =
          [title |-> m.schema.title,
           fields |-> IF m.schema.fields = {} THEN @.fields ELSE m.schema.fields]]
  ELSE LET gi == c.issues[m.num] IN
       [c EXCEPT !.issues[m.num] = Updated(gi, m, c.projects),
                 !.numItems = @ + Cardinality(NewItems(gi, m)) - Cardinality(OldItems(gi, m))]

AddMutation(p, m) ==
  /\ mem' = Processed(mem, m)
  /\ pend' = [pend EXCEPT ![p] = m]

Log(p) ==
  /\ pend[p] # None
  /\ disk' = Processed(disk, pend[p])
  /\ pend' = [pend EXCEPT ![p] = None]
  /\ UNCHANGED <<github, mem, job, alone, faults>>

-----------------------------------------------------------------------------
Idle == [phase |-> "idle"]

Init ==
  /\ now = 1
  /\ up = InitUp
  /\ boards = InitProjects
  /\ when = [k \in EditNum |-> IF k <= InitEdits THEN 1 ELSE 0]
  /\ mem = InitMem /\ disk = InitMem
  /\ pend = [p \in Process |-> None]
  /\ job = [p \in Process |-> Idle]
  /\ alone = {}
  /\ edits = InitEdits /\ faults = 0

In(p, phase) == job[p].phase = phase /\ pend[p] = None
Items(is) == {j \in Project : is.items[j].id # 0}

\* What the answer to the query has, with its Date header, 0 if none can be read, and
\* what there is to do with it.
Answer(i, date) ==
  [phase |-> "items", snap |-> up[i], boards |-> boards, date |-> date,
   todo |-> Items(up[i]), mut |-> NoMutation(i)]

\* The request for an issue is answered, and the issue is in the corpus.
Asks(p, i, date) ==
  /\ job[p] = Idle /\ i \in InitKnown
  /\ job' = [job EXCEPT ![p] = Answer(i, date)]
  /\ alone' = IF \A q \in Process : job[q] = Idle THEN {p} ELSE {}
  /\ UNCHANGED <<github, mem, disk, pend>>
Ask(p, i) == Asks(p, i, now) /\ UNCHANGED faults
AskUndated(p, i) ==
  /\ faults < MaxFaults /\ faults' = faults + 1
  /\ Asks(p, i, 0)

\* maybeEmitProjectMutation, and whether the item has a new ID or other values than
\* the corpus: only those of the project's own fields count.
NeedsUpdate(existing, schema) == existing # schema
OwnValues(item, schema) ==
  [item EXCEPT !.values = [f \in Field |-> IF f \in schema.fields THEN @[f] ELSE 0]]
SameItem(a, b) == a.id = b.id /\ a.values = b.values

SyncItem(p, j) ==
  /\ In(p, "items") /\ j \in job[p].todo
  /\ LET schema == job[p].boards[j]
         item == OwnValues(job[p].snap.items[j], schema)
         mut == job[p].mut IN
     /\ IF NeedsUpdate(mem.projects[j], schema)
        THEN AddMutation(p, ProjectMutation(j, schema))
        ELSE UNCHANGED <<mem, pend>>
     /\ job' = [job EXCEPT
          ![p].todo = @ \ {j},
          ![p].mut = IF SameItem(mem.issues[mut.num].items[j], item) THEN mut
                     ELSE [mut EXCEPT !.items[j] = item]]
  /\ UNCHANGED <<github, disk, alone, faults>>

NoneRemoved(gi, is) == {}
Removed(gi, is) == Items(gi) \ Items(is)

\* Of more events than a page only the first are seen; of more fields, or changes of
\* fields, than a page, nothing is taken.
Seen(is) == {k \in is.events : Cardinality({l \in is.events : l <= k}) <= PageSize}
FieldsFit(is) == Cardinality({n \in Name : is.fields[n] # 0}) <= PageSize
ChangesFit(is) == is.changes <= PageSize

\* The history only grows, so that its length tells whether it changed.
ChangesDiffer(gi, is) == gi.changes # is.changes

\* The rest of the answer is compared.  An issue that lost its type keeps it.
Compare(p) ==
  /\ In(p, "items") /\ job[p].todo = {}
  /\ LET is == job[p].snap
         mut == job[p].mut
         gi == mem.issues[mut.num]
         new == Seen(is) \ gi.events
         type == IF is.type # gi.type THEN is.type ELSE 0
         fields == FieldsFit(is) /\ is.fields # gi.fields
         changes == ChangesFit(is) /\ ChangesDiffer(gi, is) IN
     job' = [job EXCEPT
       ![p].phase = "add",
       ![p].mut = [mut EXCEPT
          !.removed = Removed(gi, is),
          !.events = new, !.times = {0} \union {when[k] : k \in new},
          !.type = type,
          !.fieldsSynced = fields, !.fields = IF fields THEN is.fields ELSE NoFields,
          !.changesSynced = changes, !.changes = IF changes THEN is.changes ELSE 0,
          !.meta = IF fields \/ type # 0 THEN job[p].date ELSE 0]]
  /\ UNCHANGED <<github, mem, disk, pend, alone, faults>>

\* What differs, if anything, is added to the corpus.
Add(p) ==
  /\ In(p, "add")
  /\ LET mut == job[p].mut IN
     IF mut = NoMutation(mut.num) THEN UNCHANGED <<mem, pend>> ELSE AddMutation(p, mut)
  /\ job' = [job EXCEPT ![p].phase = "done"]
  /\ UNCHANGED <<github, disk, alone, faults>>

Return(p) ==
  /\ In(p, "done")
  /\ job' = [job EXCEPT ![p] = Idle]
  /\ alone' = alone \ {p}
  /\ UNCHANGED <<github, mem, disk, pend, faults>>

\* AddProject: a backfill tells of a project, of its title only.
AddProject(p, j) ==
  /\ job[p] = Idle /\ pend[p] = None
  /\ mem.projects[j].title # boards[j].title
  /\ AddMutation(p, ProjectMutation(j, [boards[j] EXCEPT !.fields = {}]))
  /\ alone' = {}
  /\ UNCHANGED <<github, disk, job, faults>>

Crash ==
  /\ faults < MaxFaults /\ faults' = faults + 1
  /\ mem' = disk
  /\ pend' = [p \in Process |-> None]
  /\ job' = [p \in Process |-> Idle]
  /\ alone' = {}
  /\ UNCHANGED <<github, disk>>

-----------------------------------------------------------------------------
Tick ==
  /\ now < MaxTime /\ now' = now + 1
  /\ UNCHANGED <<up, boards, when, mem, disk, pend, job, alone, edits, faults>>

Fresh == edits + 1
Editing ==
  /\ edits < MaxEdits /\ edits' = Fresh
  /\ when' = [when EXCEPT ![Fresh] = now]
  /\ UNCHANGED <<now, mem, disk, pend, job, alone, faults>>
Edit(i, is) == Editing /\ up' = [up EXCEPT ![i] = is] /\ UNCHANGED boards

AddToProject(i, j) ==
  /\ up[i].items[j].id = 0
  /\ Edit(i, [up[i] EXCEPT !.items[j] = [NoItem EXCEPT !.id = Fresh, !.updated = now],
                           !.events = @ \union {Fresh}])
RemoveFromProject(i, j) ==
  /\ up[i].items[j].id # 0
  /\ Edit(i, [up[i] EXCEPT !.items[j] = NoItem, !.events = @ \union {Fresh}])
\* A field is set, to what no edit gave before or to what one did, or cleared.
Given == 0 .. Fresh
SetValue(i, j, f) ==
  /\ up[i].items[j].id # 0 /\ f \in boards[j].fields
  /\ \E v \in Given \ {up[i].items[j].values[f]} :
       Edit(i, [up[i] EXCEPT !.items[j].values[f] = v, !.items[j].updated = now])
SetField(i, n) ==
  \E v \in Given \ {up[i].fields[n]} :
    Edit(i, [up[i] EXCEPT !.fields[n] = v, !.changes = @ + 1])
SetType(i) == \E t \in Given \ {up[i].type} : Edit(i, [up[i] EXCEPT !.type = t])
EditProject(j) ==
  /\ Editing
  /\ \/ boards' = [boards EXCEPT ![j].title = @ + 1]
     \/ \E f \in Field :
          boards' = [boards EXCEPT ![j].fields = IF f \in @ THEN @ \ {f} ELSE @ \union {f}]
  /\ UNCHANGED up

GitHub ==
  \/ \E i \in Issue :
       \/ SetType(i)
       \/ \E n \in Name : SetField(i, n)
       \/ \E j \in Project : \/ AddToProject(i, j) \/ RemoveFromProject(i, j)
                             \/ \E f \in Field : SetValue(i, j, f)
  \/ \E j \in Project : EditProject(j)

Next ==
  \/ \E p \in Process :
       \/ \E i \in Issue : Ask(p, i) \/ AskUndated(p, i)
       \/ \E j \in Project : SyncItem(p, j) \/ AddProject(p, j)
       \/ Compare(p) \/ Add(p) \/ Return(p) \/ Log(p)
  \/ Crash \/ Tick \/ GitHub

Spec == Init /\ [][Next]_vars

-----------------------------------------------------------------------------
\* Every variable has its type.
TypeOK ==
  /\ now \in Nat /\ up \in [Issue -> UpIssue] /\ boards \in [Project -> Schema]
  /\ when \in [EditNum -> Nat]
  /\ mem \in Corpus /\ disk \in Corpus
  /\ \A p \in Process : job[p].phase \in {"idle", "items", "add", "done"}
  /\ alone \subseteq Process
  /\ edits \in 0 .. MaxEdits /\ faults \in 0 .. MaxFaults

\* numProjectItems, counted one by one by callers that compared with a corpus that
\* another has changed since, is the number of items, also after a replay.
CountersMatch ==
  \A c \in {mem, disk} :
    c.numItems = Cardinality({k \in Issue \X Project : c.issues[k[1]].items[k[2]].id # 0})

\* The corpus has the issue as is says, as far as the request tells: all but a type
\* that is no more, the events beyond the page and fields that do not fit.
Agrees(gi, is, schemas) ==
  /\ \A j \in Project : SameItem(gi.items[j], OwnValues(is.items[j], schemas[j]))
  /\ Seen(is) \subseteq gi.events
  /\ is.type \in {0, gi.type}
  /\ FieldsFit(is) => gi.fields = is.fields
  /\ ChangesFit(is) => gi.changes = is.changes

\* A caller that no other met leaves the corpus as GitHub answered it, whatever
\* concurrent callers and restarts left behind before: the issue, and the schema of
\* the projects it is in, but for one without fields.
AloneIsComplete ==
  \A p \in alone :
    LET j == job[p] IN
    In(p, "done") =>
      /\ Agrees(mem.issues[j.mut.num], j.snap, j.boards)
      /\ \A k \in Items(j.snap) :
           /\ mem.projects[k].title = j.boards[k].title
           /\ j.boards[k].fields # {} => mem.projects[k].fields = j.boards[k].fields

LastModified(gi) == Latest({gi.eventMaxTime, gi.metaChangedAt})

\* The last edit of an item gave it its ID, or a value that it had not had before.
UpdatedAnew(item) ==
  \E k \in {item.id} \union {item.values[f] : f \in Field} : k # 0 /\ item.updated = when[k]

\* Changes in projects, fields and type leave the updated time of an issue alone, and
\* LastModified is to show them.  Of whatever the corpus has as GitHub has it,
\* LastModified is no earlier than the time at which that came to be, in the leader
\* and after a replay: of an event; of an item, unless its last edit gave it back a
\* value or cleared one, which looks like no edit to a corpus that has not seen the
\* edits before it, when it covers the updated time that the corpus has; and of the
\* type or a field that is set, the time at which it first was what it is, unless an
\* answer that changed them had no Date.
LastModifiedCovers ==
  \A c \in {mem, disk}, i \in InitKnown :
    LET gi == c.issues[i]
        is == up[i] IN
    /\ \A j \in Items(gi) : LastModified(gi) >= gi.items[j].updated
    /\ \A j \in Items(is) : SameItem(gi.items[j], is.items[j]) /\ UpdatedAnew(is.items[j])
                            => LastModified(gi) >= is.items[j].updated
    /\ \A k \in gi.events : LastModified(gi) >= when[k]
    /\ ~ gi.undated =>
         /\ gi.type = is.type /\ is.type # 0 => LastModified(gi) >= when[is.type]
         /\ \A n \in Name : gi.fields[n] = is.fields[n] /\ is.fields[n] # 0
                            => LastModified(gi) >= when[is.fields[n]]
=============================================================================
