----------------------------- MODULE GitHubSync -----------------------------
(***************************************************************************)
(* The leader's poller of a GitHub repository.  A cycle lists the issues,  *)
(* most recently updated first, page by page, until a page has nothing     *)
(* new; logs what changed in each; and then brings up to date what an      *)
(* issue has besides, its facets: comments, events, reviews and the        *)
(* details of a pull request.  A facet is synced if it was read in a later *)
(* second than that of the issue's last update.  At the first error the    *)
(* cycle is given up, and the next one starts from the top.                *)
(*                                                                         *)
(* Before a page's first change is logged, two goroutines list the         *)
(* repository's labels and milestones, through a cache in memory.          *)
(*                                                                         *)
(* addMutation processes a mutation under c.mu and logs it after the       *)
(* unlock; a crash loses the corpus and the mutations not yet logged.      *)
(*                                                                         *)
(* What GitHub does: an edit of an issue, or of a facet, moves the issue's *)
(* updated time to the current second; times have a resolution of one      *)
(* second; events and reviews are only appended.  A deleted or moved issue *)
(* is no longer listed, and its facets answer 404, 410 or 301.             *)
(*                                                                         *)
(* Fields that are compared and copied one by one (title, body, lock,      *)
(* milestone, user, merge time) behave as closed does, assignees as labels *)
(* do.  Reactions and workflow runs, which the cycle comes to last, are    *)
(* the modules GitHubReactions and GitHubActions; an issue's projects,     *)
(* which are no part of the cycle, are GitHubProjects.                     *)
(***************************************************************************)
EXTENDS Integers, FiniteSets

CONSTANTS
  Issue,       \* numbers of issues
  PR,          \* those that are pull requests
  Label,       \* labels that an issue may have
  Comment,     \* IDs of comments
  Pages,       \* pages of the list of labels, and of milestones, an entry each
  IssuesPerPage, \* what a page of issues has at most; 100 in the code, and so has
  PerPage,     \* a page of comments, events or reviews
  InitUp,      \* what the repository's issues are when the leader starts
  InitNow,     \* and the time of that
  MaxTime,     \* bound: seconds
  MaxEdits,    \* bound: edits on GitHub
  MaxFaults    \* bound: requests that fail and restarts of the leader

List == {"labels", "milestones"}
Feed == {"events", "reviews"}
Facet == Feed \union {"comments", "details"}
Entry == 1 .. Pages
Process == List \union {"poller"}

Text == [at : Nat, body : Nat]  \* a comment; at is 0 if it does not exist
NoText == [at |-> 0, body |-> 0]

\* An event or a review of an issue is told by its ID, and what it says never changes.
Event == Nat
Review == Nat

\* The fields that a mutation may set; updated is 0 before the issue exists.
Fields == [updated : Nat, closed : BOOLEAN, closedAt : Nat, draft : BOOLEAN, details : Nat]

\* An issue as GitHub has it.
UpIssue ==
  [fields : Fields, labels : SUBSET Label, comments : [Comment -> Text],
   feed : [Feed -> Nat],  \* the number of events and of reviews
   gone : BOOLEAN]

\* An issue in the corpus.
Known ==
  [known : BOOLEAN,       \* it is in gr.issues
   gone : BOOLEAN,        \* NotExist
   pr : BOOLEAN,          \* PullRequest is not nil
   fields : Fields, labels : SUBSET Label, comments : [Comment -> Text],
   feed : [Feed -> SUBSET (Event \union Review)],
   asOf : [Facet -> Nat]] \* commentsSyncedAsOf, eventsSyncedAsOf and so on

NoFields == [updated |-> 0, closed |-> FALSE, closedAt |-> 0, draft |-> FALSE, details |-> 0]
Blank ==
  [known |-> FALSE, gone |-> FALSE, pr |-> FALSE, fields |-> NoFields, labels |-> {},
   comments |-> [c \in Comment |-> NoText], feed |-> [f \in Feed |-> {}],
   asOf |-> [f \in Facet |-> 0]]

Bucket == BOOLEAN \X BOOLEAN  \* pull request or issue, closed or open
BucketOf(gi) == <<gi.pr, gi.fields.closed>>

Corpus ==
  [issues : [Issue -> Known],
   count : [Bucket -> Int],           \* closedPRs, openPRs, closedIssues, openIssues
   names : [List -> [Entry -> Nat]]]  \* versions of labels and milestones, 0 for none
NoNames == [e \in Entry |-> 0]
EmptyCorpus ==
  [issues |-> [i \in Issue |-> Blank], count |-> [b \in Bucket |-> 0],
   names |-> [l \in List |-> NoNames]]

ASSUME GitHubAssumption ==
  /\ Issue \subseteq Nat \ {0} /\ IsFiniteSet(Issue) /\ PR \subseteq Issue
  /\ Comment \subseteq Nat /\ IsFiniteSet(Comment)
  /\ Pages \in Nat \ {0} /\ {IssuesPerPage, PerPage} \subseteq Nat \ {0}
  /\ InitUp \in [Issue -> UpIssue]
  /\ InitNow \in Nat
  /\ \A i \in Issue : /\ InitUp[i].fields.updated <= InitNow
                      /\ \A c \in Comment : InitUp[i].comments[c].at <= InitNow
  /\ {MaxTime, MaxEdits, MaxFaults} \subseteq Nat

VARIABLES
  now,      \* the time, in seconds
  up,       \* the issues on GitHub
  upNames,  \* the labels and milestones on GitHub
  mem,      \* the leader's corpus
  disk,     \* the corpus that a replay of the log gives
  pend,     \* pend[p]: the mutation that p processed but has not logged
  phase,    \* what the cycle is at
  pass,     \* the variables of syncIssues
  task,     \* those of the sync of a facet
  lists,    \* those of syncLabels and syncMilestones
  cached,   \* cached[l]: what the first page of a list was when it was last got
  edits, faults,
  missed    \* history: the issues that a failed pass had yet to come to when it
            \* had come to others, and that no pass has come to since

upstream == <<now, up, upNames, edits>>
vars == <<now, up, upNames, mem, disk, pend, phase, pass, task, lists, cached,
          edits, faults, missed>>

-----------------------------------------------------------------------------
\* f, where it says something, and g elsewhere.
Over(f, g) == [x \in DOMAIN g |-> IF x \in DOMAIN f THEN f[x] ELSE g[x]]
None == [num |-> 0]

\* A mutation of issue i sets nothing by itself; but it says that i exists.
Nothing == [x \in {} |-> 0]
Mutation(i) ==
  [num |-> i, gone |-> FALSE, pr |-> FALSE, set |-> Nothing, add |-> {}, remove |-> {},
   comments |-> Nothing, feed |-> Nothing, asOf |-> Nothing]
GoneMutation(i) == [Mutation(i) EXCEPT !.gone = TRUE]
NamesMutation(l, names) == [num |-> 0, list |-> l, names |-> names]

\* The labels (or assignees) that is has and gi has not, the other way round, and
\* what a mutation with the two makes of gi's.
NewLabels(gi, is) == is.labels \ gi.labels
DeletedLabels(gi, is) == gi.labels \ is.labels
SetLabels(gi, m) == (gi.labels \ m.remove) \union m.add

\* An event, or a review, replaces the one of its ID.
Recorded(gi, m, f) == gi.feed[f] \union (IF f \in DOMAIN m.feed THEN m.feed[f] ELSE {})

\* What m makes of the issue: a draft or details are kept for pull requests only.
Updated(gi, m) ==
  LET pr == gi.pr \/ m.pr IN
  [known |-> TRUE, gone |-> FALSE, pr |-> pr,
   fields |-> [Over(m.set, gi.fields) EXCEPT
                 !.draft = IF pr THEN @ ELSE gi.fields.draft,
                 !.details = IF pr THEN @ ELSE gi.fields.details],
   labels |-> SetLabels(gi, m),
   comments |-> Over(m.comments, gi.comments),
   feed |-> [f \in Feed |-> Recorded(gi, m, f)],
   asOf |-> Over(m.asOf, gi.asOf)]

\* A new issue is counted; one that changes its bucket is moved.
CountedOnce(count, old, new) ==
  [b \in Bucket |-> count[b] + (IF ~ old.known /\ b = BucketOf(new) THEN 1 ELSE 0)]
Counted(count, old, new) ==
  [b \in Bucket |-> count[b] + (IF b = BucketOf(new) THEN 1 ELSE 0)
                             - (IF old.known /\ b = BucketOf(old) THEN 1 ELSE 0)]

ProcessIssue(c, m) ==
  LET old == c.issues[m.num]
      new == IF m.gone THEN [old EXCEPT !.known = TRUE, !.gone = TRUE] ELSE Updated(old, m) IN
  [c EXCEPT !.issues[m.num] = new,
            !.count = IF m.gone THEN @ ELSE Counted(@, old, new)]

ProcessNames(c, m) ==
  [c EXCEPT !.names[m.list] =
     [e \in Entry |-> IF m.names[e] = 0 THEN @[e] ELSE m.names[e]]]

Processed(c, m) == IF m.num = 0 THEN ProcessNames(c, m) ELSE ProcessIssue(c, m)

AddMutation(p, m) ==
  /\ mem' = Processed(mem, m)
  /\ pend' = [pend EXCEPT ![p] = m]

\* The second half of addMutation.
Log(p) ==
  /\ pend[p] # None
  /\ disk' = Processed(disk, pend[p])
  /\ pend' = [pend EXCEPT ![p] = None]
  /\ UNCHANGED <<upstream, mem, phase, pass, task, lists, cached, faults, missed>>

At(ph) == phase = ph /\ pend["poller"] = None

-----------------------------------------------------------------------------
\* The fields of an issue as listed that a mutation must set: a time that GitHub
\* no longer gives is kept.
Listed == {"updated", "closed", "closedAt", "draft"}
Differing(gi, is) ==
  {f \in Listed : /\ is.fields[f] # gi.fields[f]
                  /\ f = "closedAt" => is.fields[f] # 0}
Diff(i, gi, is) ==
  [Mutation(i) EXCEPT
     !.pr = i \in PR,
     !.set = [f \in Differing(gi, is) |-> is.fields[f]],
     !.add = NewLabels(gi, is),
     !.remove = DeletedLabels(gi, is)]
Same(gi, is) == Differing(gi, is) = {} /\ is.labels = gi.labels

Listable(i) == up[i].fields.updated > 0 /\ ~ up[i].gone

\* The listing is sorted by the time of the last update, the newest first.
Newer(a, i, b, j) == a > b \/ (a = b /\ i > j)
Above(i, j) == Newer(up[i].fields.updated, i, up[j].fields.updated, j)

\* A page begins after a cursor, the place of the last issue of the page before.
Top == <<MaxTime + 1, 0>>
After(cursor) ==
  {i \in Issue : Listable(i) /\ Newer(cursor[1], cursor[2], up[i].fields.updated, i)}

NoPass == [cursor |-> Top, seen |-> {}, page |-> Nothing, changes |-> 0, listed |-> FALSE]
NoTask == [todo |-> {}, page |-> 0, since |-> 0, got |-> {}]
NoLists == [l \in List |-> [page |-> 0, got |-> NoNames, failed |-> FALSE]]

Init ==
  /\ now = InitNow
  /\ up = InitUp
  /\ upNames = [l \in List |-> [e \in Entry |-> 1]]
  /\ mem = EmptyCorpus
  /\ disk = EmptyCorpus
  /\ pend = [p \in Process |-> None]
  /\ phase = "idle"
  /\ pass = NoPass
  /\ task = NoTask
  /\ lists = NoLists
  /\ cached = [l \in List |-> 0]
  /\ edits = 0 /\ faults = 0
  /\ missed = {}

\* The timer or a webhook's wake-up starts a cycle.
BeginCycle ==
  /\ At("idle")
  /\ phase' = "issues"
  /\ pass' = NoPass
  /\ UNCHANGED <<upstream, mem, disk, pend, task, lists, cached, faults, missed>>

\* The facets in the order in which a cycle comes to them.
Following ==
  [page |-> "comments", issues |-> "comments", comments |-> "events", events |-> "reviews",
   reviews |-> "details", details |-> "idle"]

\* commentsSynced, eventsSynced, reviewsSynced: after is strict, as an issue may
\* change again in the second in which a facet was read.
SyncedOrEqual(gi, f) == gi.asOf[f] >= gi.fields.updated
Synced(gi, f) == gi.asOf[f] > gi.fields.updated
Stale(f) ==
  {i \in Issue : LET gi == mem.issues[i] IN
     /\ gi.known /\ ~ gi.gone
     /\ f \in {"reviews", "details"} => gi.pr
     /\ ~ Synced(gi, f)}

\* The cycle goes on with the next facet.
GoOn ==
  LET next == Following[phase] IN
  /\ phase' = next
  /\ task' = IF next \in Facet THEN [NoTask EXCEPT !.todo = Stale(next)] ELSE NoTask

\* A page of issues arrives.
ListIssues ==
  /\ At("issues")
  /\ LET rest == After(pass.cursor)
         page == {i \in rest : Cardinality({j \in rest : Above(j, i)}) < IssuesPerPage} IN
     IF page = {}
     THEN GoOn /\ pass' = NoPass
     ELSE /\ phase' = "page"
          /\ LET last == CHOOSE i \in page : \A j \in page \ {i} : Above(j, i) IN
             pass' = [pass EXCEPT
               !.page = [i \in page |-> up[i]],
               !.cursor = IF page = rest THEN Top ELSE <<up[last].fields.updated, last>>,
               !.changes = 0, !.listed = FALSE]
          /\ UNCHANGED task
  /\ UNCHANGED <<upstream, mem, disk, pend, lists, cached, faults, missed>>

\* The next issue of the page, and the rest of the page.
OnPage == At("page") /\ DOMAIN pass.page # {}
Item ==
  CHOOSE i \in DOMAIN pass.page : \A j \in DOMAIN pass.page \ {i} :
    Newer(pass.page[i].fields.updated, i, pass.page[j].fields.updated, j)
Taken ==
  [pass EXCEPT !.page = [i \in DOMAIN @ \ {Item} |-> @[i]], !.seen = @ \union {Item}]
Skipped == Item \in pass.seen \/ Same(mem.issues[Item], pass.page[Item])

\* The next issue is one that the pass has met before, or has nothing new.
SkipIssue ==
  /\ OnPage /\ Skipped
  /\ pass' = Taken /\ missed' = missed \ {Item}
  /\ UNCHANGED <<upstream, mem, disk, pend, phase, task, lists, cached, faults>>

\* The first that has is the occasion to look at the labels and milestones.
StartLists ==
  /\ OnPage /\ ~ Skipped /\ ~ pass.listed
  /\ phase' = "lists"
  /\ lists' = [l \in List |-> [NoLists[l] EXCEPT !.page = 1]]
  /\ pass' = [pass EXCEPT !.listed = TRUE]
  /\ UNCHANGED <<upstream, mem, disk, pend, task, cached, faults, missed>>

ChangeIssue ==
  /\ OnPage /\ ~ Skipped /\ pass.listed
  /\ AddMutation("poller", Diff(Item, mem.issues[Item], pass.page[Item]))
  /\ pass' = [Taken EXCEPT !.changes = @ + 1] /\ missed' = missed \ {Item}
  /\ UNCHANGED <<upstream, disk, phase, task, lists, cached, faults>>

\* What a pass that fails now has missed, if it has come to any issue, and what a
\* crash takes from it besides: the issue whose mutation is not yet logged.
YetToCome == IF pass.seen = {} THEN {} ELSE {i \in Issue : Listable(i)} \ pass.seen
Unlogged == IF phase = "page" THEN {pend["poller"].num} \intersect Issue ELSE {}

\* After a page without changes the rest is taken to be known.
AnyPageIsLast == TRUE
PageIsLast == pass.changes = 0
EndOfPage ==
  /\ At("page") /\ DOMAIN pass.page = {}
  /\ IF PageIsLast
     THEN GoOn /\ pass' = NoPass
     ELSE phase' = "issues" /\ UNCHANGED <<pass, task>>
  /\ UNCHANGED <<upstream, mem, disk, pend, lists, cached, faults, missed>>

-----------------------------------------------------------------------------
MorePagesByOne(e) == e \in Entry
MorePages(e) == e + 1 \in Entry

\* foreachItem gets a page of a list.  If the first page is what the cache has,
\* no page is looked at; what differs is logged at the end.
\* The cache keeps the first page of a list only.
Cacheable(e) == e = 1
FromCache(l, e) == Cacheable(e) /\ upNames[l][e] = cached[l]
Listing(l) == phase = "lists" /\ lists[l].page > 0 /\ ~ lists[l].failed /\ pend[l] = None
GetNames(l) ==
  /\ Listing(l)
  /\ LET e == lists[l].page
         name == upNames[l][e]
         got == IF name = mem.names[l][e] THEN lists[l].got ELSE [lists[l].got EXCEPT ![e] = name] IN
     IF FromCache(l, e)
     THEN /\ lists' = [lists EXCEPT ![l].page = 0]
          /\ UNCHANGED <<mem, pend, cached>>
     ELSE /\ cached' = IF Cacheable(e) THEN [cached EXCEPT ![l] = name] ELSE cached
          /\ IF MorePages(e)
             THEN /\ lists' = [lists EXCEPT ![l].page = e + 1, ![l].got = got]
                  /\ UNCHANGED <<mem, pend>>
             ELSE /\ lists' = [lists EXCEPT ![l].page = 0]
                  /\ IF got = NoNames THEN UNCHANGED <<mem, pend>>
                     ELSE AddMutation(l, NamesMutation(l, got))
  /\ UNCHANGED <<upstream, disk, phase, pass, task, faults, missed>>

\* group.Wait returns: nil, or the error for which the cycle ends.
ListsDone ==
  /\ phase = "lists"
  /\ \A l \in List : pend[l] = None /\ (lists[l].page = 0 \/ lists[l].failed)
  /\ IF \E l \in List : lists[l].failed
     THEN phase' = "idle" /\ pass' = NoPass /\ missed' = missed \union YetToCome
     ELSE phase' = "page" /\ UNCHANGED <<pass, missed>>
  /\ lists' = NoLists
  /\ UNCHANGED <<upstream, mem, disk, pend, task, cached, faults>>

-----------------------------------------------------------------------------
\* The facet's next issue, and what happens when it is done with.
Num == CHOOSE i \in task.todo : \A j \in task.todo : i <= j
Working(f) == At(f) /\ task.todo # {}
Done == [NoTask EXCEPT !.todo = task.todo \ {Num}]

\* The issue answers 404, 410 or 301.
IsGone(i) == up[i].gone
Gone(f) ==
  /\ Working(f) /\ IsGone(Num)
  /\ AddMutation("poller", GoneMutation(Num))
  /\ task' = Done
  /\ UNCHANGED <<upstream, disk, phase, pass, lists, cached, faults, missed>>

\* commentsUpdatedTil, from where comments are asked for.
Til(gi) ==
  LET ts == {gi.comments[c].at : c \in Comment} \union {0} IN
  CHOOSE t \in ts : \A s \in ts : s <= t

\* Comments are asked for by the time of their last change, the oldest first, and
\* each page from the time of the last comment of the page before.  The last page
\* says as of when they are synced.
SyncComments ==
  /\ Working("comments") /\ ~ IsGone(Num)
  /\ LET texts == up[Num].comments
         since == IF task.page = 0 THEN Til(mem.issues[Num]) ELSE task.since
         Earlier(c, d) ==
           texts[c].at < texts[d].at \/ (texts[c].at = texts[d].at /\ c < d)
         rest == {c \in Comment : texts[c].at > 0 /\ texts[c].at >= since}
         page == {c \in rest : Cardinality({d \in rest : Earlier(d, c)}) < PerPage}
         new == {c \in page : texts[c] # mem.issues[Num].comments[c]} IN
     /\ AddMutation("poller",
          [Mutation(Num) EXCEPT
             !.comments = [c \in new |-> texts[c]],
             !.asOf = IF page = rest THEN [f \in {"comments"} |-> now] ELSE Nothing])
     /\ task' = IF page = rest THEN Done
                ELSE [task EXCEPT !.page = @ + 1,
                        !.since = CHOOSE t \in {texts[c].at : c \in page} :
                                    \A c \in page : texts[c].at <= t]
  /\ UNCHANGED <<upstream, disk, phase, pass, lists, cached, faults, missed>>

\* A page of an issue's events or reviews, the oldest first, and whether the answer
\* has a link to the next.
PageOf(i, f, p) == {k \in 1 .. up[i].feed[f] : (p - 1) * PerPage < k /\ k <= p * PerPage}
HasNextPage(i, f, p) == p * PerPage < up[i].feed[f]

\* Of events and reviews the pages that must be known already are skipped; what
\* is new is logged when the last page is there, and is synced as of its date.
SyncFeed(f) ==
  /\ Working(f) /\ ~ IsGone(Num)
  /\ LET have == mem.issues[Num].feed[f]
         p == IF task.page = 0 THEN 1 + Cardinality(have) \div PerPage ELSE task.page
         got == task.got \union (PageOf(Num, f, p) \ have) IN
     IF HasNextPage(Num, f, p)
     THEN /\ task' = [task EXCEPT !.page = p + 1, !.got = got]
          /\ UNCHANGED <<mem, pend>>
     ELSE /\ AddMutation("poller",
               [Mutation(Num) EXCEPT !.feed = [x \in {f} |-> got],
                                     !.asOf = [x \in {f} |-> now]])
          /\ task' = Done
  /\ UNCHANGED <<upstream, disk, phase, pass, lists, cached, faults, missed>>
SyncEvents == SyncFeed("events")
SyncReviews == SyncFeed("reviews")

SyncDetails ==
  /\ Working("details") /\ ~ IsGone(Num)
  /\ LET differing == {f \in {"draft", "details"} :
                         up[Num].fields[f] # mem.issues[Num].fields[f]} IN
     AddMutation("poller",
       [Mutation(Num) EXCEPT !.pr = TRUE,
                             !.set = [f \in differing |-> up[Num].fields[f]],
                             !.asOf = [x \in {"details"} |-> now]])
  /\ task' = Done
  /\ UNCHANGED <<upstream, disk, phase, pass, lists, cached, faults, missed>>

\* Comments, events and reviews are gone over until none is stale.
EndOfFacet ==
  /\ phase \in Facet /\ At(phase) /\ task.todo = {}
  /\ IF phase # "details" /\ Stale(phase) # {}
     THEN task' = [NoTask EXCEPT !.todo = Stale(phase)] /\ UNCHANGED phase
     ELSE GoOn
  /\ UNCHANGED <<upstream, mem, disk, pend, pass, lists, cached, faults, missed>>

-----------------------------------------------------------------------------
\* A request fails, and with it the cycle; one of a list, with it its group,
\* whose context ends the other's requests too.
CycleFails ==
  /\ At("issues") \/ (phase \in Facet /\ Working(phase))
  /\ faults < MaxFaults
  /\ faults' = faults + 1
  /\ phase' = "idle" /\ pass' = NoPass /\ task' = NoTask
  /\ missed' = missed \union YetToCome
  /\ UNCHANGED <<upstream, mem, disk, pend, lists, cached>>

ListFails(l) ==
  /\ Listing(l)
  /\ IF \E k \in List : lists[k].failed THEN UNCHANGED faults
     ELSE faults < MaxFaults /\ faults' = faults + 1
  /\ lists' = [lists EXCEPT ![l].failed = TRUE]
  /\ UNCHANGED <<upstream, mem, disk, pend, phase, pass, task, cached, missed>>

\* The leader's process ends; the next one replays the log.
Crash ==
  /\ faults < MaxFaults
  /\ faults' = faults + 1
  /\ mem' = disk
  /\ pend' = [p \in Process |-> None]
  /\ phase' = "idle" /\ pass' = NoPass /\ task' = NoTask /\ lists' = NoLists
  /\ cached' = [l \in List |-> 0]
  /\ missed' = missed \union YetToCome \union Unlogged
  /\ UNCHANGED <<upstream, disk>>

-----------------------------------------------------------------------------
\* GitHub.  The last second is for the leader to catch up.
Tick ==
  /\ now < MaxTime
  /\ now' = now + 1
  /\ UNCHANGED <<up, upNames, mem, disk, pend, phase, pass, task, lists, cached, edits, faults, missed>>

Editing ==
  /\ edits < MaxEdits /\ now < MaxTime
  /\ edits' = edits + 1
  /\ UNCHANGED <<now, mem, disk, pend, phase, pass, task, lists, cached, faults, missed>>

Touched(i) == [up[i] EXCEPT !.fields.updated = now]
Edit(i, is) == Editing /\ up' = [up EXCEPT ![i] = is] /\ UNCHANGED upNames

OpenIssue(i) == up[i].fields.updated = 0 /\ Edit(i, Touched(i))
CloseOrReopen(i) ==
  /\ Listable(i)
  /\ LET closed == ~ up[i].fields.closed IN
     Edit(i, [Touched(i) EXCEPT !.fields.closed = closed,
                                !.fields.closedAt = IF closed THEN now ELSE 0,
                                !.feed["events"] = @ + 1])
AddOrRemoveLabel(i) ==
  /\ Listable(i)
  /\ \E l \in Label :
       Edit(i, [Touched(i) EXCEPT !.labels = IF l \in @ THEN @ \ {l} ELSE @ \union {l},
                                  !.feed["events"] = @ + 1])
\* No PerPage comments of an issue are of the same second.
WriteComment(i) ==
  /\ Listable(i)
  /\ Cardinality({c \in Comment : up[i].comments[c].at = now}) < PerPage - 1
  /\ \E c \in Comment :
       /\ \A d \in Comment : d < c => up[i].comments[d].at > 0
       /\ Edit(i, [Touched(i) EXCEPT !.comments[c] = [at |-> now, body |-> edits + 1]])
WorkOnPR(i) ==
  /\ Listable(i) /\ i \in PR
  /\ \/ Edit(i, [Touched(i) EXCEPT !.fields.draft = ~ @, !.feed["events"] = @ + 1])
     \/ Edit(i, [Touched(i) EXCEPT !.fields.details = @ + 1])
     \/ Edit(i, [Touched(i) EXCEPT !.feed["reviews"] = @ + 1])
DeleteIssue(i) == Listable(i) /\ Edit(i, [up[i] EXCEPT !.gone = TRUE])
Rename ==
  /\ Editing
  /\ \E l \in List, e \in Entry : upNames' = [upNames EXCEPT ![l][e] = @ + 1]
  /\ UNCHANGED up

GitHub ==
  \/ \E i \in Issue : \/ OpenIssue(i) \/ CloseOrReopen(i) \/ AddOrRemoveLabel(i)
                      \/ WriteComment(i) \/ WorkOnPR(i) \/ DeleteIssue(i)
  \/ Rename

Poller ==
  \/ BeginCycle \/ ListIssues \/ SkipIssue \/ StartLists \/ ChangeIssue \/ EndOfPage
  \/ \E l \in List : GetNames(l)
  \/ ListsDone
  \/ SyncComments \/ SyncEvents \/ SyncReviews \/ SyncDetails
  \/ \E f \in Facet : Gone(f)
  \/ EndOfFacet
  \/ \E p \in Process : Log(p)

Next ==
  \/ Poller \/ CycleFails \/ Crash
  \/ \E l \in List : ListFails(l)
  \/ Tick \/ GitHub

Spec == Init /\ [][Next]_vars

\* A cycle begins at the latest 15 minutes after the one before.  The poller can
\* always take a step, so its weak fairness is that it takes another one, which
\* TLC evaluates faster.
FairSpec == Spec /\ []<><<Poller>>_vars /\ WF_vars(Tick)

-----------------------------------------------------------------------------
\* Every variable has its type.
TypeOK ==
  /\ now \in Nat /\ up \in [Issue -> UpIssue] /\ upNames \in [List -> [Entry -> Nat]]
  /\ mem \in Corpus /\ disk \in Corpus
  /\ phase \in DOMAIN Following \union {"idle", "lists"}
  /\ pass.seen \subseteq Issue /\ pass.changes \in Nat
  /\ task.todo \subseteq Issue /\ task.page \in Nat
  /\ \A l \in List : lists[l].page \in {0} \union Entry /\ cached[l] \in Nat
  /\ edits \in Nat /\ faults \in Nat

\* commentsSynced, eventsSynced, reviewsSynced and prDetailsSynced only say when a
\* facet was read: an issue that the corpus has as updated when it was last
\* updated, and whose facet is synced, does have all of that facet, whatever was
\* edited between the listing, the pages of the facet and the end of the second,
\* and whatever a failed or restarted cycle had logged already.
Whole(gi, is, f) ==
  IF f = "comments" THEN \A c \in Comment : is.comments[c].at > 0 => gi.comments[c] = is.comments[c]
  ELSE IF f = "details" THEN gi.fields.details = is.fields.details /\ gi.fields.draft = is.fields.draft
  ELSE 1 .. is.feed[f] \subseteq gi.feed[f]

SyncedIsWhole ==
  \A i \in Issue, f \in Facet :
    LET gi == mem.issues[i] IN
    /\ gi.known /\ ~ gi.gone /\ ~ up[i].gone
    /\ gi.fields.updated = up[i].fields.updated
    /\ Synced(gi, f)
    => Whole(gi, up[i], f)

\* openIssues, closedIssues, openPRs and closedPRs, which processGithubIssueMutation
\* moves by ones, are at any time what counting gr.issues would give, in the corpus
\* and in one replayed from the log.  That is with the issues that are gone, each
\* as what it was when it was last heard of: a NotExist mutation leaves before the
\* counters, so that a deleted issue stays in the number of open issues although
\* its fields are to be ignored.
CountersMatch ==
  \A c \in {mem, disk} : \A b \in Bucket :
    c.count[b] = Cardinality({i \in Issue : c.issues[i].known /\ BucketOf(c.issues[i]) = b})

\* The corpus has the issue as GitHub lists it.
Current(i) ==
  LET gi == mem.issues[i] IN gi.known /\ ~ gi.gone /\ Same(gi, up[i])

\* A whole page of the listing, above i's, has nothing new, so that syncIssues never
\* comes to i.  There are two ways to get there.  A pass logged what is above i,
\* and failed before it came to i.  Or i was edited in a second of which i, or the
\* whole of that page, had been listed already: the edit moved it above nothing.
Position(i) == Cardinality({j \in Issue : Listable(j) /\ Above(j, i)})
SameSecond(gi, is) == gi.fields.updated = is.fields.updated
Hidden(i) ==
  \E n \in 0 .. Position(i) \div IssuesPerPage - 1 :
    \A j \in Issue : Listable(j) /\ Position(j) \div IssuesPerPage = n =>
      /\ Same(mem.issues[j], up[j])
      /\ i \in missed \/ SameSecond(mem.issues[i], up[i]) \/ SameSecond(up[j], up[i])

\* Once GitHub and the failures rest, every issue that is there gets into the corpus
\* as it is, however deep in the listing it is, but for one that a failed pass left
\* below a page that had been logged, and one edited within a second of which the
\* poller had listed it, or a page above it, already.  And whatever the corpus has
\* of an issue's fields, all its facets get synced as of a later second.
CatchesUp ==
  <>[](\A i \in Issue : Listable(i) =>
         /\ Current(i) \/ Hidden(i)
         /\ \A f \in Facet : i \notin Stale(f))
=============================================================================
