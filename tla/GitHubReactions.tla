--------------------------- MODULE GitHubReactions ---------------------------
(***************************************************************************)
(* How a leader keeps the reactions to issues and comments.  A reaction    *)
(* moves no time of its issue, so that a change is found by its count:     *)
(* the cycle compares counts in the lists that it gets anyway, and a scan  *)
(* in a goroutine of its own goes over all issues, a batch at a time, once *)
(* a day.  Where a count differs, the reactions of the issue are listed    *)
(* and compared one by one (syncReactionsOnIssue).  The cycle and the scan *)
(* may do so for one issue at the same time: only the corpus is locked,    *)
(* for reading, while the reactions to the comments are listed.            *)
(*                                                                         *)
(* A comment that was deleted on GitHub stays in the corpus, and whoever   *)
(* lists its reactions is told that it does not exist: the reactions of    *)
(* its issue are not synced any more.                                      *)
(*                                                                         *)
(* What else a cycle does is the module GitHubSync; here a cycle may learn *)
(* of any issue, meet any, or find any gone.  addMutation processes a      *)
(* mutation under the lock and logs it later; a crash loses the corpus and *)
(* what is not logged.  GitHub never uses the ID of a reaction again.      *)
(***************************************************************************)
EXTENDS Integers, Sequences, FiniteSets

CONSTANTS
  Issue,         \* numbers of issues, in the order of their creation
  PR,            \* those that are pull requests
  Comment,       \* IDs of comments of an issue, in the order of their creation
  CommentsAsked, \* how many of them a count is asked for; 100 in the code
  BatchSize,     \* reactionScanBatchSize, 10 in the code
  InitOpen,      \* issues that are there at the start
  InitComments,  \* the comments of each issue
  InitReactions, \* and the reactions to those that are there
  MaxReactions,  \* bound: IDs of reactions
  MaxEdits,      \* bound: edits on GitHub
  MaxFaults      \* bound: requests that fail, and restarts of the leader

Process == {"cycle", "scan"}
Body == 0                      \* the text of the issue itself
Place == {Body} \union Comment
Reaction == 1 .. MaxReactions
Reactions == [Place -> SUBSET Reaction]
Age == {"never", "recent", "old"}  \* of reactionsSyncedAsOf; old is more than a day

UpIssue == [open : BOOLEAN, gone : BOOLEAN, comments : SUBSET Comment, reactions : Reactions]
Known ==
  [known : BOOLEAN, gone : BOOLEAN, comments : SUBSET Comment, reactions : Reactions, asOf : Age]

NoReactions == [w \in Place |-> {}]
Blank ==
  [known |-> FALSE, gone |-> FALSE, comments |-> {}, reactions |-> NoReactions, asOf |-> "never"]

ASSUME ReactionsAssumption ==
  /\ Issue \subseteq Nat \ {0} /\ IsFiniteSet(Issue) /\ PR \subseteq Issue
  /\ Comment \subseteq Nat \ {0} /\ IsFiniteSet(Comment)
  /\ {BatchSize, CommentsAsked} \subseteq Nat \ {0}
  /\ {MaxReactions, MaxEdits, MaxFaults} \subseteq Nat
  /\ InitOpen \subseteq Issue /\ InitComments \in [Issue -> SUBSET Comment]
  /\ InitReactions \in [InitOpen -> Reactions]

\* The reactions of the start, each of one place, have the first IDs.
InitIDs == UNION {InitReactions[i][w] : i \in InitOpen, w \in Place}
ASSUME InitAssumption ==
  /\ InitIDs = 1 .. Cardinality(InitIDs)
  /\ \A i, j \in InitOpen, v, w \in Place :
       <<i, v>> = <<j, w>> \/ InitReactions[i][v] \intersect InitReactions[j][w] = {}
  /\ \A i \in InitOpen : \A c \in Comment \ InitComments[i] : InitReactions[i][c] = {}

VARIABLES
  up,     \* the issues on GitHub
  mem,    \* the leader's corpus
  disk,   \* the corpus that a replay of the log gives
  pend,   \* pend[p]: the mutation that p processed but has not logged
  queue,  \* queue[p]: the issues whose reactions p has yet to sync
  job,    \* job[p]: the variables of syncReactionsOnIssue
  cycle,  \* "list" or "react": whether the cycle has come to syncReactions
  scan,   \* the variables of reactionScanLoop
  next, edits, faults

github == <<up, next, edits>>
vars == <<up, mem, disk, pend, queue, job, cycle, scan, next, edits, faults>>

None == [num |-> 0]
Mutation(i) ==
  [num |-> i, gone |-> FALSE, comments |-> {}, add |-> NoReactions, remove |-> NoReactions,
   asOf |-> FALSE]

\* A mutation that does not say NotExist says that the issue exists.  Reactions are
\* added and removed by their IDs, of a comment that need not be known.
Updated(gi, m) ==
  [known |-> TRUE, gone |-> FALSE,
   comments |-> gi.comments \union m.comments
                \union {c \in Comment : m.add[c] \union m.remove[c] # {}},
   reactions |-> [w \in Place |-> (gi.reactions[w] \union m.add[w]) \ m.remove[w]],
   asOf |-> IF m.asOf THEN "recent" ELSE gi.asOf]

Processed(issues, m) ==
  [issues EXCEPT ![m.num] =
     IF m.gone THEN [@ EXCEPT !.known = TRUE, !.gone = TRUE] ELSE Updated(@, m)]

\* Reactions to comments are listed with the corpus locked for reading.
Reading == \E p \in Process : job[p].todo # {}

AddMutation(p, m) ==
  /\ ~ Reading
  /\ mem' = Processed(mem, m)
  /\ pend' = [pend EXCEPT ![p] = m]

Log(p) ==
  /\ pend[p] # None
  /\ disk' = Processed(disk, pend[p])
  /\ pend' = [pend EXCEPT ![p] = None]
  /\ UNCHANGED <<github, mem, queue, job, cycle, scan, faults>>

-----------------------------------------------------------------------------
NoJob == [num |-> 0, listed |-> {}, todo |-> {}, locked |-> FALSE,
          add |-> NoReactions, remove |-> NoReactions]
NoScan == [on |-> FALSE, list |-> <<>>, pos |-> 0, counts |-> <<>>, phase |-> "start"]

Init ==
  /\ up = [i \in Issue |->
             [open |-> i \in InitOpen, gone |-> FALSE, comments |-> InitComments[i],
              reactions |-> IF i \in InitOpen THEN InitReactions[i] ELSE NoReactions]]
  /\ mem = [i \in Issue |-> Blank]
  /\ disk = mem
  /\ pend = [p \in Process |-> None]
  /\ queue = [p \in Process |-> {}]
  /\ job = [p \in Process |-> NoJob]
  /\ cycle = "list"
  /\ scan = NoScan
  /\ next = 1 + Cardinality(InitIDs)
  /\ edits = 0 /\ faults = 0

Free(p) == pend[p] = None /\ job[p] = NoJob

\* The issue that p comes to next.
Num(p) == CHOOSE i \in queue[p] : \A j \in queue[p] : i <= j

\* The issue-body reactions of the next issue are listed.
ListBody(p) ==
  /\ Free(p) /\ queue[p] # {}
  /\ ~ up[Num(p)].gone
  /\ job' = [job EXCEPT
       ![p] = [NoJob EXCEPT !.num = Num(p), !.listed = up[Num(p)].reactions[Body]]]
  /\ queue' = [queue EXCEPT ![p] = @ \ {Num(p)}]
  /\ UNCHANGED <<github, mem, disk, pend, cycle, scan, faults>>

\* They are compared with the corpus, which stays locked for the comments.
Lock(p) ==
  /\ job[p].num # 0 /\ ~ job[p].locked
  /\ LET j == job[p]
         gi == mem[j.num] IN
     job' = [job EXCEPT
       ![p] = [j EXCEPT !.locked = TRUE, !.todo = gi.comments, !.listed = {},
                        !.add[Body] = j.listed \ gi.reactions[Body],
                        !.remove[Body] = gi.reactions[Body] \ j.listed]]
  /\ UNCHANGED <<github, mem, disk, pend, queue, cycle, scan, faults>>

ListComment(p, c) ==
  /\ c \in job[p].todo /\ c \in up[job[p].num].comments
  /\ LET j == job[p]
         there == up[j.num].reactions[c]
         had == mem[j.num].reactions[c] IN
     job' = [job EXCEPT ![p] = [j EXCEPT !.todo = j.todo \ {c},
                                         !.add[c] = there \ had, !.remove[c] = had \ there]]
  /\ UNCHANGED <<github, mem, disk, pend, queue, cycle, scan, faults>>

\* The corpus is unlocked, and the mutation added if it says anything.
AddReactions(p) ==
  /\ job[p].locked /\ job[p].todo = {}
  /\ LET j == job[p] IN
     IF j.add # NoReactions \/ j.remove # NoReactions \/ mem[j.num].asOf = "never"
     THEN AddMutation(p, [Mutation(j.num) EXCEPT !.add = j.add, !.remove = j.remove, !.asOf = TRUE])
     ELSE UNCHANGED <<mem, pend>>
  /\ job' = [job EXCEPT ![p] = NoJob]
  /\ UNCHANGED <<github, disk, queue, cycle, scan, faults>>

\* A request is answered by an error, or by none.
RequestFailed == faults < MaxFaults /\ faults' = faults + 1

\* A list cannot be got: the cycle is given up, the scan goes on with the next issue.
SyncFails(p) ==
  /\ \/ Free(p) /\ queue[p] # {}
     \/ job[p].todo # {}
  /\ queue' = [queue EXCEPT ![p] = IF p = "cycle" THEN {}
                                   ELSE IF job[p].num # 0 THEN @ ELSE @ \ {Num(p)}]
  /\ job' = [job EXCEPT ![p] = NoJob]
  /\ cycle' = IF p = "cycle" THEN "list" ELSE cycle
  /\ UNCHANGED <<github, mem, disk, pend, scan>>

\* By itself, or as the issue is gone or a comment of the corpus is.
RequestFails(p) ==
  /\ RequestFailed
  /\ SyncFails(p)
AnswersGone(p) ==
  /\ \/ /\ job[p].todo # {}
        /\ up[job[p].num].gone \/ ~ job[p].todo \subseteq up[job[p].num].comments
     \/ Free(p) /\ queue[p] # {} /\ up[Num(p)].gone
  /\ SyncFails(p)
  /\ UNCHANGED faults

-----------------------------------------------------------------------------
\* The counts that a list or an answer has, of the issue and of some comments.
Counts(i, comments) == [w \in {Body} \union comments |-> Cardinality(up[i].reactions[w])]

StaleByCount(gi, counts) ==
  \E w \in DOMAIN counts \intersect ({Body} \union gi.comments) :
    counts[w] # Cardinality(gi.reactions[w])

CycleLists == Free("cycle") /\ cycle = "list"

\* The cycle logs an issue and comments that it did not know.
Learn(i) ==
  /\ CycleLists /\ up[i].open /\ ~ up[i].gone
  /\ ~ mem[i].known \/ ~ up[i].comments \subseteq mem[i].comments
  /\ AddMutation("cycle", [Mutation(i) EXCEPT !.comments = up[i].comments])
  /\ UNCHANGED <<github, disk, queue, job, cycle, scan, faults>>

\* A facet of the issue answers 404.
FindGone(i) ==
  /\ CycleLists /\ up[i].gone /\ mem[i].known /\ ~ mem[i].gone
  /\ AddMutation("cycle", [Mutation(i) EXCEPT !.gone = TRUE])
  /\ UNCHANGED <<github, disk, queue, job, cycle, scan, faults>>

\* The list of issues, or that of the comments on one, has another count of
\* reactions than the corpus: staleReactionIssues.
Meet(i) ==
  /\ CycleLists /\ ~ up[i].gone /\ mem[i].known
  /\ StaleByCount(mem[i], Counts(i, up[i].comments))
  /\ queue' = [queue EXCEPT !["cycle"] = @ \union {i}]
  /\ UNCHANGED <<github, mem, disk, pend, job, cycle, scan, faults>>

\* The cycle comes to syncReactions, and ends.
BeginReactions ==
  /\ CycleLists
  /\ cycle' = "react"
  /\ UNCHANGED <<github, mem, disk, pend, queue, job, scan, faults>>
EndCycle ==
  /\ Free("cycle") /\ cycle = "react" /\ queue["cycle"] = {}
  /\ cycle' = "list"
  /\ UNCHANGED <<github, mem, disk, pend, queue, job, scan, faults>>

-----------------------------------------------------------------------------
\* buildReactionScanList: the issues that exist, by the time of their creation.  The
\* k-th is the one that k - 1 come before.
Exist == {i \in Issue : mem[i].known /\ ~ mem[i].gone}
Before(i) == {j \in Exist : j < i}
ScanList ==
  [k \in 1 .. Cardinality(Exist) |-> CHOOSE i \in Exist : Cardinality(Before(i)) = k - 1]

Scanning(ph) == scan.on /\ scan.phase = ph /\ Free("scan")

\* The time of day says where the scan starts; without an issue it does not.
StartPos(list) == IF list = <<>> THEN {0} ELSE 0 .. Len(list) - 1
StartScan ==
  /\ scan.phase = "start"
  /\ \E pos \in StartPos(ScanList) :
       scan' = [scan EXCEPT !.on = ScanList # <<>>, !.list = ScanList, !.pos = pos,
                            !.phase = "check"]
  /\ UNCHANGED <<github, mem, disk, pend, queue, job, cycle, faults>>

\* The batch: the next issues of the list, which goes round.
Size == IF BatchSize < Len(scan.list) THEN BatchSize ELSE Len(scan.list)
Batch == {scan.list[1 + ((scan.pos + k) % Len(scan.list))] : k \in 0 .. Size - 1}
PosBeyondEnd == scan.pos + Size
NextPos == (scan.pos + Size) % Len(scan.list)

\* checkReactionCountsBatch asks GitHub for the counts of a batch, with those of the
\* first comments of each issue; for an issue that is gone it gets null, and for a
\* pull request, which has the number of no issue.
Asked(i) ==
  {c \in up[i].comments : Cardinality({d \in up[i].comments : d < c}) < CommentsAsked}
AskCounts ==
  /\ Scanning("check")
  /\ scan' = [scan EXCEPT !.pos = NextPos, !.phase = "compare",
                          !.counts = [i \in {j \in Batch \ PR : ~ up[j].gone} |-> Counts(i, Asked(i))]]
  /\ UNCHANGED <<github, mem, disk, pend, queue, job, cycle, faults>>

\* The counts that the corpus does not have, and the issues that were synced more
\* than a day ago.
StaleReactions(gi, counts) ==
  LET have == Cardinality(gi.reactions[Body]) IN
  \/ counts[Body] # have
  \/ gi.asOf = "never" /\ counts[Body] + have > 0
  \/ gi.asOf = "old" /\ have > 0
  \/ \E c \in DOMAIN counts \intersect gi.comments : counts[c] # Cardinality(gi.reactions[c])

CompareCounts ==
  /\ Scanning("compare")
  /\ scan' = [scan EXCEPT !.phase = "sync", !.counts = <<>>]
  /\ queue' = [queue EXCEPT !["scan"] =
       {i \in DOMAIN scan.counts : StaleReactions(mem[i], scan.counts[i])}]
  /\ UNCHANGED <<github, mem, disk, pend, job, cycle, faults>>

\* The batch is done with.  At the head of the list the list is made anew.
EndBatch ==
  /\ Scanning("sync") /\ queue["scan"] = {}
  /\ scan' = IF scan.pos # 0 THEN [scan EXCEPT !.phase = "check"]
             ELSE [scan EXCEPT !.phase = "check", !.list = ScanList, !.on = ScanList # <<>>]
  /\ UNCHANGED <<github, mem, disk, pend, queue, job, cycle, faults>>

\* The counts cannot be got; the next batch is tried.
AskFails ==
  /\ Scanning("check")
  /\ RequestFailed
  /\ scan' = [scan EXCEPT !.pos = NextPos]
  /\ UNCHANGED <<github, mem, disk, pend, queue, job, cycle>>

-----------------------------------------------------------------------------
\* A day goes by.
Day ==
  /\ \E i \in Issue : mem[i].asOf = "recent"
  /\ LET Aged(issues) == [i \in Issue |-> [issues[i] EXCEPT !.asOf = IF @ = "recent" THEN "old" ELSE @]] IN
     mem' = Aged(mem) /\ disk' = Aged(disk)
  /\ UNCHANGED <<github, pend, queue, job, cycle, scan, faults>>

Crash ==
  /\ faults < MaxFaults /\ faults' = faults + 1
  /\ mem' = disk
  /\ pend' = [p \in Process |-> None]
  /\ queue' = [p \in Process |-> {}]
  /\ job' = [p \in Process |-> NoJob]
  /\ cycle' = "list" /\ scan' = NoScan
  /\ UNCHANGED <<github, disk>>

Edit(i, is) ==
  /\ edits < MaxEdits /\ edits' = edits + 1
  /\ up' = [up EXCEPT ![i] = is]
  /\ UNCHANGED <<mem, disk, pend, queue, job, cycle, scan, faults>>
There(i) == up[i].open /\ ~ up[i].gone

OpenIssue(i) == ~ up[i].open /\ Edit(i, [up[i] EXCEPT !.open = TRUE]) /\ UNCHANGED next
DeleteIssue(i) == There(i) /\ Edit(i, [up[i] EXCEPT !.gone = TRUE]) /\ UNCHANGED next
DeleteComment(i, c) ==
  /\ There(i) /\ c \in up[i].comments
  /\ Edit(i, [up[i] EXCEPT !.comments = @ \ {c}, !.reactions[c] = {}])
  /\ UNCHANGED next
React(i, w) ==
  /\ There(i) /\ next \in Reaction
  /\ w # Body => w \in up[i].comments
  /\ Edit(i, [up[i] EXCEPT !.reactions[w] = @ \union {next}])
  /\ next' = next + 1
Withdraw(i, w) ==
  /\ There(i)
  /\ \E r \in up[i].reactions[w] : Edit(i, [up[i] EXCEPT !.reactions[w] = @ \ {r}])
  /\ UNCHANGED next

-----------------------------------------------------------------------------
Work(p) ==
  \/ Log(p) \/ ListBody(p) \/ Lock(p) \/ AddReactions(p) \/ AnswersGone(p)
  \/ \E c \in Comment : ListComment(p, c)
Cycle ==
  \/ Work("cycle") \/ BeginReactions \/ EndCycle
  \/ \E i \in Issue : Learn(i) \/ FindGone(i) \/ Meet(i)
Scan == Work("scan") \/ StartScan \/ AskCounts \/ CompareCounts \/ EndBatch

GitHub ==
  \E i \in Issue :
    \/ OpenIssue(i) \/ DeleteIssue(i)
    \/ \E c \in Comment : DeleteComment(i, c)
    \/ \E w \in Place : React(i, w) \/ Withdraw(i, w)

Next ==
  \/ Cycle \/ Scan \/ AskFails \/ Day \/ Crash \/ GitHub
  \/ \E p \in Process : RequestFails(p)

Spec == Init /\ [][Next]_vars

\* The scan's goroutine and that of the cycle go on, and so does time.
FairSpec ==
  /\ Spec
  /\ WF_vars(Scan) /\ WF_vars(Work("cycle")) /\ WF_vars(Day)

-----------------------------------------------------------------------------
\* Every variable has its type.
TypeOK ==
  /\ up \in [Issue -> UpIssue]
  /\ mem \in [Issue -> Known] /\ disk \in [Issue -> Known]
  /\ queue \in [Process -> SUBSET Issue]
  /\ \A p \in Process :
       /\ job[p].num \in Issue \union {0} /\ job[p].todo \subseteq Comment
       /\ {job[p].add, job[p].remove} \subseteq Reactions
  /\ scan.list \in Seq(Issue) /\ scan.pos \in Nat
  /\ scan.on => scan.pos < Len(scan.list)
  /\ next \in Nat /\ edits \in 0 .. MaxEdits /\ faults \in 0 .. MaxFaults

\* What the counts cannot tell: as many of each that is asked for, and none to the
\* issue itself, for which its reactions would be listed again after a day.
Unnoticeable(i) ==
  /\ mem[i].reactions[Body] = {} /\ up[i].reactions[Body] = {}
  /\ ~ StaleByCount(mem[i], Counts(i, Asked(i)))

\* The corpus has a comment that GitHub has not: every sync of the issue fails.
Stuck(i) == ~ mem[i].comments \subseteq up[i].comments

\* syncReactionsOnIssue, run by the cycle and by the scan at once, may add a reaction
\* that was withdrawn or remove one that is there.  Once GitHub and the failures
\* rest, the scan nevertheless brings the corpus to what GitHub has, for every issue
\* of its list that is not a pull request and of which no comment that the corpus
\* has was deleted, but for changes that the counts do not show.
CatchesUp ==
  <>[](\A k \in DOMAIN scan.list :
         LET i == scan.list[k] IN
         \/ up[i].gone \/ i \in PR \/ Stuck(i) \/ Unnoticeable(i)
         \/ \A w \in {Body} \union mem[i].comments : mem[i].reactions[w] = up[i].reactions[w])
=============================================================================
