---------------------------- MODULE GitHubActions ----------------------------
(***************************************************************************)
(* How a leader gets the workflow runs of a repository, and their jobs.    *)
(* GitHub lists the runs created in a window of time, the newest first and *)
(* no more than Cap of them.  A poll goes from the newest run that the     *)
(* corpus has, or from ActionsSince, to now, in windows which it narrows   *)
(* by binary search until they hold fewer than Cap.  A backfill goes from  *)
(* ActionsSince, and looks into the gaps of more than an hour between the  *)
(* runs that the corpus has, the longest first, until they are all short   *)
(* or hold nothing new.                                                    *)
(*                                                                         *)
(* A run is logged if the corpus does not have it as updated when it was   *)
(* last updated, and then its jobs.  Requests are tried again for a while; *)
(* if one fails nonetheless the pass is given up.                          *)
(*                                                                         *)
(* An hour has fewer than Cap runs, no run is created at the very time of  *)
(* another's update, and a corpus is filled before MaxAge has gone by.     *)
(* Times are integers; a day, an hour and a minute are constants.  What is *)
(* set in a run or a job is its version.                                   *)
(***************************************************************************)
EXTENDS Integers, FiniteSets, FiniteSetsExt

CONSTANTS
  Run,          \* the IDs of runs
  Job,          \* the jobs that a run has, a page each
  Mode,         \* how the poller may have been set up: "poll", "since", "backfill"
  Cap,          \* how many runs a list may have; 1000 in the code
  Minute, Hour, Day,
  MaxAge,       \* maxActionsAge: from how long ago an empty corpus is filled
  Since,        \* ActionsSince
  InitCreated,  \* when the runs of the start were created
  InitNow,      \* and the time of that
  MaxTime,      \* bound
  MaxEdits,     \* bound: runs created and updated
  MaxFaults     \* bound: requests that fail, and restarts of the leader

UpRun == [created : Nat, updated : Nat, version : Nat]  \* created is 0 before it is
Known == [known : BOOLEAN, created : Nat, updated : Nat, version : Nat, jobs : [Job -> Nat]]
NoRun == [created |-> 0, updated |-> 0, version |-> 0]
NoJobs == [k \in Job |-> 0]
Blank == [known |-> FALSE, created |-> 0, updated |-> 0, version |-> 0, jobs |-> NoJobs]

ASSUME ActionsAssumption ==
  /\ IsFiniteSet(Run) /\ IsFiniteSet(Job)
  /\ Mode \subseteq {"poll", "since", "backfill"}
  /\ Cap \in Nat \ {0} /\ {Minute, Hour, Day} \subseteq Nat \ {0} /\ Minute <= Hour /\ Hour <= Day
  /\ {MaxAge, Since, InitNow, MaxTime, MaxEdits, MaxFaults} \subseteq Nat
  /\ \E R \in SUBSET Run : InitCreated \in [R -> 1 .. InitNow]
  /\ \A t \in 0 .. InitNow :
       Cardinality({r \in DOMAIN InitCreated : t <= InitCreated[r] /\ InitCreated[r] <= t + Hour}) < Cap
  /\ InitNow <= MaxTime /\ MaxTime <= MaxAge

VARIABLES
  now,
  up,       \* the runs on GitHub
  mem,      \* the leader's corpus
  disk,     \* the corpus that a replay of the log gives
  pend,     \* whether the last mutation is processed but not logged, and what it is
  mode,     \* how the poller is set up
  phase,    \* what it is at
  from,     \* since when the pass looks for runs
  stop,     \* and until when: the time at which it began
  window,   \* the window: start, end, whether it is narrowed, and the bounds of the search
  gaps,     \* the gaps that a backfill has not looked at in this round
  gap,      \* the one that it looks at: its end, and how many runs were new
  list,     \* the runs that were listed
  job,      \* the run whose jobs are listed, the jobs to come, and their version
  edits, faults

github == <<now, up, edits>>
corpus == <<mem, disk, pend>>
vars == <<now, up, mem, disk, pend, mode, phase, from, stop, window, gaps, gap, list, job,
          edits, faults>>

-----------------------------------------------------------------------------
None == [run |-> "none"]
RunMutation(r, is) == [run |-> r, is |-> is]
JobMutation(r, k, version) == [run |-> r, job |-> k, version |-> version]

Processed(runs, m) ==
  [runs EXCEPT ![m.run] =
     IF "job" \in DOMAIN m THEN [@ EXCEPT !.known = TRUE, !.jobs[m.job] = m.version]
     ELSE [known |-> TRUE, created |-> m.is.created, updated |-> m.is.updated,
           version |-> m.is.version, jobs |-> @.jobs]]

AddMutation(m) ==
  /\ mem' = Processed(mem, m)
  /\ pend' = m
  /\ UNCHANGED disk

\* The second half of addMutation.
Log ==
  /\ pend # None
  /\ disk' = Processed(disk, pend)
  /\ pend' = None
  /\ UNCHANGED <<github, mem, mode, phase, from, stop, window, gaps, gap, list, job, faults>>

At(ph) == phase = ph /\ pend = None

-----------------------------------------------------------------------------
KnownRuns(runs) == {r \in Run : runs[r].known}
Times(runs) == {runs[r].created : r \in KnownRuns(runs)}
AfterHighWater(runs) == Max(Times(runs) \union {0}) + 1
HighWater(runs) == Max(Times(runs) \union {0})

NoWindow == [start |-> 0, end |-> 0, narrowed |-> FALSE, lo |-> 0, hi |-> 0]
NoGap == [end |-> 0, new |-> 0]
NoJob == [run |-> "none", todo |-> {}, version |-> 0]
Nothing == [r \in {} |-> NoRun]

\* A poller that is to backfill, or to start at a time, may find any runs logged.
Init ==
  /\ now = InitNow
  /\ up = [r \in Run |->
             IF r \in DOMAIN InitCreated
             THEN [created |-> InitCreated[r], updated |-> InitCreated[r], version |-> 1]
             ELSE NoRun]
  /\ mode \in Mode
  /\ \E R \in IF mode = "poll" THEN {{}} ELSE SUBSET DOMAIN InitCreated :
       mem = [r \in Run |->
                IF r \in R THEN [known |-> TRUE, created |-> up[r].created, updated |-> up[r].updated,
                                 version |-> 1, jobs |-> [k \in Job |-> 1]]
                ELSE Blank]
  /\ disk = mem
  /\ pend = None
  /\ phase = "idle" /\ from = 0 /\ stop = 0 /\ window = NoWindow
  /\ gaps = {} /\ gap = NoGap /\ list = Nothing /\ job = NoJob
  /\ edits = 0 /\ faults = 0

Window(start, end) == [NoWindow EXCEPT !.start = start, !.end = end]

Looking(since, until) == IF since < until THEN "fetch" ELSE "done"

\* The cycle comes to syncWorkflowRuns.
BeginPoll ==
  /\ At("idle") /\ mode # "backfill"
  /\ LET since == IF mode = "since" THEN Since
                  ELSE IF Times(mem) \subseteq {0} THEN now - MaxAge ELSE HighWater(mem) IN
     /\ from' = since /\ stop' = now
     /\ window' = Window(since, now)
     /\ phase' = Looking(since, now)
  /\ UNCHANGED <<github, corpus, mode, gaps, gap, list, job, faults>>

\* The runs of a window; both ends count.
Created(start, end) ==
  {r \in Run : up[r].created > 0 /\ start <= up[r].created /\ up[r].created <= end}
\* A list has the newest.
NewestOf(S) ==
  {r \in S : Cardinality({q \in S : up[q].created > up[r].created}) < Cap}
Listed(S) ==
  {[r \in R |-> up[r]] : R \in {R \in SUBSET NewestOf(S) :
     /\ Cardinality(R) = IF Cardinality(S) < Cap THEN Cardinality(S) ELSE Cap
     /\ \A r \in R, q \in S \ R : up[q].created <= up[r].created}}

\* A poll that finds its window full searches for a shorter one first.
FullBeyond(S) == Cardinality(S) > Cap
Full(S) == Cardinality(S) >= Cap

Fetch ==
  /\ At("fetch")
  /\ \E l \in Listed(Created(window.start, window.end)) : LET hour == window.start + Hour IN
     IF mode # "backfill" /\ Full(DOMAIN l) /\ ~ window.narrowed
     THEN /\ window' = [window EXCEPT !.lo = window.start, !.hi = window.end,
                                      !.end = IF hour < window.end THEN hour ELSE window.end]
          /\ phase' = "bisect"
          /\ UNCHANGED list
     ELSE /\ list' = l
          /\ phase' = "runs"
          /\ UNCHANGED window
  /\ UNCHANGED <<github, corpus, mode, from, stop, gaps, gap, job, faults>>

\* bsearchWorkflowRunsEnd: the end of the window is the last one found to be good, an
\* hour if none is.
NarrowedLate(w, mid) ==
  IF Full(Created(w.start, mid)) THEN [w EXCEPT !.hi = mid, !.end = mid] ELSE [w EXCEPT !.lo = mid]
Narrowed(w, mid) ==
  IF Full(Created(w.start, mid)) THEN [w EXCEPT !.hi = mid] ELSE [w EXCEPT !.lo = mid, !.end = mid]

Bisect ==
  /\ At("bisect")
  /\ IF window.hi - window.lo > Minute
     THEN LET mid == window.lo + (window.hi - window.lo) \div 2 IN
          /\ window' = Narrowed(window, mid)
          /\ UNCHANGED phase
     ELSE /\ window' = [window EXCEPT !.narrowed = TRUE, !.lo = 0, !.hi = 0]
          /\ phase' = "fetch"
  /\ UNCHANGED <<github, corpus, mode, from, stop, gaps, gap, list, job, faults>>

\* The runs are logged oldest first.
Oldest(runs) == {r \in DOMAIN runs : \A q \in DOMAIN runs : runs[r].created <= runs[q].created}

SyncRun ==
  /\ At("runs")
  /\ \E r \in Oldest(list) :
       /\ list' = [q \in DOMAIN list \ {r} |-> list[q]]
       /\ IF mem[r].known /\ mem[r].updated = list[r].updated
          THEN UNCHANGED <<corpus, phase, gap, job>>
          ELSE /\ AddMutation(RunMutation(r, list[r]))
               /\ phase' = "jobs"
               /\ gap' = [gap EXCEPT !.new = @ + 1]
               /\ job' = [run |-> r, todo |-> Job, version |-> 0]
  /\ UNCHANGED <<github, mode, from, stop, window, gaps, faults>>

\* The next page of the jobs of a run, with the jobs as they are then.
SyncJob ==
  /\ At("jobs")
  /\ IF job.todo = {}
     THEN phase' = "runs" /\ job' = NoJob /\ UNCHANGED corpus
     ELSE \E k \in job.todo :
            /\ AddMutation(JobMutation(job.run, k, up[job.run].version))
            /\ job' = [job EXCEPT !.todo = @ \ {k}]
            /\ UNCHANGED phase
  /\ UNCHANGED <<github, mode, from, stop, window, gaps, gap, list, faults>>

\* All runs of the window are known: a poll goes on after it, a backfill with the next day.
NextWindow(w) ==
  IF mode = "backfill"
  THEN Window(w.end, IF w.end + Day < gap.end THEN w.end + Day ELSE gap.end)
  ELSE Window(w.end, stop)

EndWindow ==
  /\ At("runs") /\ list = Nothing
  /\ LET w == NextWindow(window) IN
     IF w.start < w.end THEN phase' = "fetch" /\ window' = w
     ELSE phase' = (IF mode = "backfill" THEN "gap" ELSE "done") /\ window' = NoWindow
  /\ UNCHANGED <<github, corpus, mode, from, stop, gaps, gap, list, job, faults>>

-----------------------------------------------------------------------------
\* Two times without one of a known run between them.
Neighbours(T) == {g \in T \X T : g[1] < g[2] /\ \A t \in T : t <= g[1] \/ g[2] <= t}
Long(g) == g[2] - g[1] > Hour
Gaps == {g \in Neighbours(Times(mem) \union {from', stop'}) : Long(g)}

\* A round of syncWorkflowRunsBackfillGaps begins with the gaps of the corpus.
BeginRound ==
  /\ phase' = IF Gaps = {} THEN "done" ELSE "gap"
  /\ gaps' = Gaps
  /\ gap' = NoGap
  /\ window' = NoWindow

BeginBackfill ==
  /\ At("idle") /\ mode = "backfill"
  /\ from' = Since /\ stop' = now
  /\ BeginRound
  /\ UNCHANGED <<github, corpus, mode, list, job, faults>>

\* The longest gap that is left; GitHub is asked first whether it has any run.
NextGap ==
  /\ At("gap") /\ gap.new = 0
  /\ IF gaps = {} THEN phase' = "done" /\ UNCHANGED <<window, gaps, gap>>
     ELSE \E g \in gaps :
       /\ \A h \in gaps : h[2] - h[1] <= g[2] - g[1]
       /\ gaps' = gaps \ {g}
       /\ IF Created(g[1], g[2]) = {} THEN UNCHANGED <<phase, window, gap>>
          ELSE /\ phase' = "fetch"
               /\ gap' = [end |-> g[2], new |-> 0]
               /\ window' = Window(g[1], IF g[1] + Day < g[2] THEN g[1] + Day ELSE g[2])
  /\ UNCHANGED <<github, corpus, mode, from, stop, list, job, faults>>

\* A gap that had something new has changed the gaps.
NextRound ==
  /\ At("gap") /\ gap.new > 0
  /\ UNCHANGED <<from, stop>>
  /\ BeginRound
  /\ UNCHANGED <<github, corpus, mode, list, job, faults>>

Rest ==
  /\ At("done")
  /\ phase' = "idle" /\ from' = 0 /\ stop' = 0
  /\ UNCHANGED <<github, corpus, mode, window, gaps, gap, list, job, faults>>

-----------------------------------------------------------------------------
GiveUp ==
  /\ phase' = "idle" /\ from' = 0 /\ stop' = 0 /\ window' = NoWindow
  /\ gaps' = {} /\ gap' = NoGap /\ list' = Nothing /\ job' = NoJob

\* retryGitHubAPI gives up on a request.
RequestFails ==
  /\ At("fetch") \/ At("bisect") \/ At("jobs") \/ At("gap")
  /\ faults < MaxFaults /\ faults' = faults + 1
  /\ GiveUp
  /\ UNCHANGED <<github, corpus, mode>>

Crash ==
  /\ faults < MaxFaults /\ faults' = faults + 1
  /\ mem' = disk /\ pend' = None
  /\ GiveUp
  /\ UNCHANGED <<github, disk, mode>>

-----------------------------------------------------------------------------
Tick ==
  /\ now < MaxTime /\ now' = now + 1
  /\ UNCHANGED <<up, mem, disk, pend, mode, phase, from, stop, window, gaps, gap, list, job,
                 edits, faults>>

\* The last time is for the poller.
Edit(r, is) ==
  /\ edits < MaxEdits /\ edits' = edits + 1 /\ now < MaxTime
  /\ up' = [up EXCEPT ![r] = is]
  /\ UNCHANGED <<now, mem, disk, pend, mode, phase, from, stop, window, gaps, gap, list, job,
                 faults>>

CreateRun(r) ==
  /\ up[r] = NoRun
  /\ Cardinality(Created(now - Hour, now)) < Cap - 1
  /\ Edit(r, [created |-> now, updated |-> now, version |-> 1])
\* The run ends, or is run again.
UpdateRun(r) ==
  /\ up[r].created > 0 /\ up[r].updated < now
  /\ Edit(r, [up[r] EXCEPT !.updated = now, !.version = @ + 1])

Poller ==
  \/ BeginPoll \/ BeginBackfill \/ Fetch \/ Bisect \/ SyncRun \/ SyncJob \/ EndWindow
  \/ NextGap \/ NextRound \/ Rest \/ Log

Next ==
  \/ Poller \/ RequestFails \/ Crash \/ Tick
  \/ \E r \in Run : CreateRun(r) \/ UpdateRun(r)

Spec == Init /\ [][Next]_vars

\* The cycles of the poller go on, and so does time.
FairSpec == Spec /\ []<><<Poller>>_vars /\ WF_vars(Tick)

-----------------------------------------------------------------------------
\* The corpus high-water mark, where a poll starts again after a restart or a request
\* that failed, leaves no run behind: the corpus, or one replayed from the log, has
\* every run older than the newest that it has.
NothingBehindHighWater ==
  mode = "poll" =>
    \A runs \in {mem, disk} : \A r \in Run :
      up[r].created > 0 /\ up[r].created < HighWater(runs) => runs[r].known

\* A poll that comes to its end has every run since it looked for them, however many
\* there are.  A backfill that comes to its end has missed only runs between two that
\* it has, or its bounds, no more than an hour apart, and runs of the very time from
\* which it looks: those at the two ends of a gap can be more than a list may have.
PassIsComplete ==
  phase = "done" =>
    \A r \in Run :
      /\ up[r].created > 0 /\ ~ mem[r].known
      /\ from <= up[r].created /\ up[r].created < stop
      => /\ mode = "backfill"
         /\ \/ up[r].created = from
            \/ \E g \in Neighbours(Times(mem) \union {from, stop}) :
                 ~ Long(g) /\ g[1] <= up[r].created /\ up[r].created <= g[2]

\* Passes come to an end, and once GitHub and the failures rest, a poller that does
\* not backfill has every run.
RunsArrive ==
  /\ []<>(phase = "done")
  /\ <>[](mode # "backfill" =>
            \A r \in Run : up[r].created >= (IF mode = "since" THEN Since ELSE 1) => mem[r].known)
=============================================================================
