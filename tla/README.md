# A TLA+ development of maintner

maintner mirrors the metadata of Git, GitHub and Gerrit into one append-only log
of *mutations*. A leader (`maintnerd`) polls the upstream services, processes
each change into an in-memory `Corpus`, appends it to a log, and serves the log
over HTTP as numbered segments. Followers (`godata`, `maintq`, ...) mirror the
segments into a cache directory and replay them into a corpus of their own.
Everything a user of maintner sees depends on the log being replicated exactly
and on the pollers missing nothing; these are the two halves of this project.

Paths below are relative to `src/`. Contents: the [inventory](#inventory), the
[modules](#modules), [what the runs show](#runs), [bounds](#bounds),
[fairness](#fairness), [proofs](#proofs), [findings](#findings),
[what is not modelled](#not-modelled) and the [plan](#plan).

## Inventory

| Component | Code | State | Operations | What makes it correct |
|---|---|---|---|---|
| Network mutation source | `maintner/netsource.go` | `ns.last` (verified segments and their files), the cache directory | `GetMutations`: `getServerSegments`, `syncSeg`, `getNewSegments`, `fetchAndSendMutations` | replays one history of the leader, each record once; `ErrSplit` only for lost history; catches up |
| Corpus update loop | `maintner/maintner.go` | the corpus, `didInit`, `lastUpdateErr`... | `Initialize`, `RunUpdateLoop`, `Update`, `addMutation` | applies the stream in order; readers see whole batches |
| Disk log | `maintner/maintnerd/disklog`, `maintner/logger.go`, `maintner/reclog` | one file per day; `segs`, running hash and size | `scan`, `Log`, `poll`, index and file handlers | what is listed can be downloaded; what was listed stays; everything written is listed |
| GCS log | `maintner/maintnerd/gcslog` | bucket objects; `seg`, `curNum`, buffer, timer | `Log`, `flush`, timer, `initLoad`, handlers | the bucket holds a hole-free prefix; every record reaches it; a restart continues the log |
| Long poll | `waitSizeNot` of both logs | one mutex, one condition variable, contexts | wait, broadcast, expiry | no lost wake-up; growth is answered |
| Git polling | `maintner/git.go` | per-repository `todo`, `refs`; commits, placeholders | `syncGitCommits`, `processGitMutation` | all ancestors of a tracked ref are indexed once |
| Gerrit polling | `maintner/gerrit.go` | `need`, `commit`, `remote`, `ref`, `dirtyCL` | `syncOnce`, `processMutation`, `finishProcessing` | refs never point to unlogged commits; a CL's derived fields follow its last meta commit |
| GitHub issues | `maintner/github.go` | issues with labels, comments, events, reviews, details of pull requests; a time as of which each facet is synced; counters; labels and milestones | `syncIssues`, `syncLabels`, `syncMilestones`, `syncComments`, `syncEvents`, `syncReviews`, `syncPullRequests`, `processGithubIssueMutation` | what counts as synced is complete; counters are right; no change upstream is missed for good; replay rebuilds the same state |
| GitHub reactions | `maintner/github.go` | reactions of issues and comments, `staleReactionIssues`, the scan's list and position | `syncReactions`, `reactionScanLoop`, `syncReactionsOnIssue` | two goroutines on one issue leave no lasting error |
| GitHub projects and fields | `maintner/github.go` | projects, items, board events, type, fields, two times | `SyncProjectsForIssue`, `AddProject`, `process*` | concurrent callers keep the count and lose nothing; `LastModified` covers every change |
| GitHub workflow runs | `maintner/github.go` | runs and jobs | `syncWorkflowRuns`, `bsearchWorkflowRunsEnd`, `syncWorkflowRunsBackfillGaps` | no run behind the high-water mark, however many an answer leaves out |
| API | `maintner/maintnerd/maintapi` | `tryCache` | read-only queries | answers agree with the corpus |
| Wake-ups | `maintner/subscribe.go` | one unbuffered channel per topic | `fire`, `subscribeLoop` | a change is polled soon |
| `maintnerd` | `cmd/maintnerd` | flags | wiring | - |
| Others | `gerrit/`, `internal/`, `repos/`, `autocertcache/`, `godata`, `maintq`, `maintwatch`, generated stubs | none that outlives a call | - | - |

How they interact. One goroutine per tracked repository (`Corpus.sync`, an
errgroup; in loop mode every error is taken for temporary and tried again after
30 seconds) calls `addMutation`, which processes the mutation under `c.mu` and then logs it, outside of `c.mu`; a failure to log
ends the process. The log broadcasts to the handlers that wait for growth. A
follower's `GetMutations` runs in a goroutine that hands mutations to
`RunUpdateLoop` or `Update` through a channel of capacity 50 and an `End` event.
Leader and follower are coupled by HTTP alone: an index (`?waitsizenot=N` long
poll) and range requests for segments, each answered from the log as it is at
that moment.

What is hard here: the leader changes between any two requests of a follower;
both restart with part of their state; segments change from growing to frozen
while they are being mirrored; condition variables meet contexts; uploads
succeed unseen. For the pollers: upstream changes between the pages of one
listing and within one second of its clock; listings are cut off; a cycle that
fails leaves half of its work logged; goroutines that compare with the corpus
add their findings after another has changed it. The list with lines is in `PROJECT.json` under `hazards`.

## Modules

| Module | Models | Extends / instantiates |
|---|---|---|
| `MutationLog` | the abstract promise: a leader's log with lossy restarts, a follower that applies one history in order, exactly once | - |
| `SegmentLog` | the log a follower sees: records, cuts into segments, what is committed, restarts. The contract both logs have to meet | - |
| `NetSource` | the follower: `netMutSource` with its cache, channel and the update loop | extends `SegmentLog`, instantiates `MutationLog` |
| `LongPoll` | `waitSizeNot` and its helper goroutine | - |
| `DiskLog` | `DiskLog` in writer and in watcher mode over `DiskMutationLogger`'s files | - |
| `GCSLog` | `GCSLog` over a bucket | instantiates `SegmentLog` |
| `GitSync` | the git pollers of `git.go`: one goroutine per repository, the corpus they share, and the corpus the log gives | - |
| `GerritSync` | the poller of a Gerrit project in `gerrit.go`: refs, needed commits, batches, and what is computed of a change, in the leader and from the log | - |
| `GitHubSync` | the cycle of a GitHub repository's poller: the paged list of issues, labels and milestones, and the facets of an issue | - |
| `GitHubReactions` | reactions, as the cycle and the daily scan keep them at once | - |
| `GitHubProjects` | boards and fields of an issue, as any number of concurrent callers sync them | - |
| `GitHubActions` | workflow runs and their jobs: windows, bisection, backfill of gaps | - |
| `*Proofs` | theorems about the module of that name; `NetSourceProofs` also has those about `SegmentLog` | the module, `TLAPS` |
| `LogServersProofs` | theorems about the two logs and the long polls that both serve; the logs share the lemmas about sequences of segments | `GCSLog`, `DiskLog`, `LongPoll`, `TLAPS` |
| `MC*` | instances for TLC | the module |

### State and actions

*Sizes and sums.* A record is one unit of size (in `GCSLog`, `Weight[r]`
units), and a SHA-224 is the content it was computed from, so equal sums mean
equal contents. A list of segments is `[bytes, ends]`: the records in a row and
where each segment ends; `StartOf`, `SizeOf` and `Seg` recover one segment.

*SegmentLog.* `lives[e]` is everything the leader's e-th process logged,
including the `kept[e]` records it recovered. `Log` appends, and may freeze the
growing segment first (midnight, or a full buffer) or reach stable storage at
once. `Flush` commits. `Restart` keeps what was committed; the last frozen
segment may grow again (`gcslog.go:154`), or the growing one may be frozen.

*NetSource.* `pc` is the stage of a `GetMutations` call: `index` (long poll),
`answered`, `sync` (between two calls of `syncSeg`), `download` (inside one,
after the partial file was read), `send`, `failed` (an error event was
delivered) and `split`. `getServerSegments` is two actions, the leader free to
move between the end of `waitSizeNot` and the index being read. `syncSeg` is
one action per way out: final file present (`SyncCached`), growing file
complete and frozen by the leader (`SyncPromote`), growing file current
(`SyncKeep`), or stale (`SyncStale`, which reads it, then `SyncCommit`,
`SyncDrop` or `SyncFails` depending on what the range request brought and on
its sum). `getNewSegments`' prefix check is `SumCommon`, over sums of whole
segments and, for the first that differs, over the bytes of the bigger file
*as it is on disk at that moment*. `AcceptSegments` sets `ns.last` and trims,
`SendMutation` reads records from the files, `ApplyMutation` is the update
loop. `FollowerRestart` loses the memory and keeps the cache. `CallCut` is a
call that ends early, at any moment: its context has expired, which both ends of
the channel watch (`netsource.go:158` and `529`, `maintner.go:459` and `503`), a
request's retries are used up, or a file cannot be read. What was not delivered of
an accepted batch is then never sent, as `ns.last` is past it, and takes its place
in `applied` as `Skipped`; `RunAgain` is the next call.

*LongPoll.* One action per step between a lock, an unlock, a look at the
context and a wake-up. `cond.Wait` enters the list of sleepers and then
releases the mutex, as `sync.Cond` does; expiry and the broadcast on expiry are
steps of their own without the mutex.

*DiskLog.* `files[i]` is the content of the i-th day's file, `segs`, `cur` and
`open` are `dl.segs`, `dl.curHash` with `dl.curSize`, and `dl.curFile # ""`;
`segFile` and `curFile` say which file the handler opens for a segment.
`Log` is three actions (mutex and date; the inner logger's date and creation of the
file; write, sums and broadcast), `poll` two (directory listing; hashing). `Midnight`
may come between any two of them. `LogFails` and `PollFails` are the ways out on
errors, with what was changed before them. `slips` records what made the index
another one than the directory's until the next scan: `straddled` (the date changed
during a `Log`), `short` (a segment was frozen as an earlier poll had hashed it),
`halfway` (a poll failed after it froze a segment) and `unwritten` (a record was
counted and could not be written, and the process ends).

*GCSLog.* `objects` is the bucket. An upload is two steps: `Upload` writes the
object, `AfterUpload` is the process seeing it; between them the process may
try again, give up (`FlushFails`) or die, so an upload can succeed unseen.

*GitSync.* `mem` is the leader's corpus as far as git goes: `real` and `missing`
are the indexed commits and the placeholders of `c.gitCommit`, `owner` is
`GitCommit.Repo`, `count` is `gitCommitCount`, `todo`, `refs` and `tags` are
`repoGitState`. `stored` is the corpus that replaying the log gives: that of a
follower that has caught up, and the leader's after a crash. Both are changed by
one operator, `ProcessGitMutation`, `mem` when `addMutation` processes a
mutation and `stored` when it logs it; between the two the mutation is in
`pending[r]`. `pc[r]` is the step of `syncGitRepoOnce` (`poll` 1-3, `fetch` 4,
`classify` 5-6, `walk` and `index` 7, `refs` 8). `scratch[r]` is the directory
git fetches to; it survives a crash. Objects are members of `Commit` and `Tag`,
with any `Parents` and `Target`; `git fetch` brings `Ancestors`, the least
closed set. A commit in `Unparseable` takes `processGitCommit`'s error path,
after its parents were queued.

*GerritSync.* `mem` and `stored` are again the leader's corpus and the one the
log gives, `pending` the mutation between the two. A corpus has the fields of
`GerritProject` (`need`, `commit` as `indexed`, `ref`, `remote`, `cls`,
`dirtyCL`), the keys of `c.gitCommit` (`known`) and
`clsReferencingGithubIssue`. `Process` is `processMutation`, `Finish` is
`finishProcessing`, which `addMutation` calls after every mutation and a replay
calls once, at the end of the log. `pc` is the place in `syncOnce`: `poll`,
`missing` (inside `syncMissingCommits`), `fetch` (git fetch origin), `list`
(ls-remote and the deletions), `batch` (between two batches) and `walk`
(`syncCommits` of a batch, one `SyncCommit` a commit, in any order). `listed`
is what is left of `toFetch` and `changedRefs`. `Push` moves refs of the server
together, as an upload moves a patch set's and the meta ref, so that a hash that
was listed may be gone when it is fetched (`FetchFails`). Patch sets have
numbers, meta commits a status, a vote, a privacy flag or the patch set they
announce; a name has a `Position` in the listing, since the order of refs in a
mutation decides what a change is shown as.

*The GitHub modules.* In all four `up` is what GitHub has, `mem` the leader's
corpus, `disk` the corpus that replaying the log gives, and `pend` what
`addMutation` has processed and not yet logged: `AddMutation` is the half under
`c.mu`, `Log` the other. `Processed` is the processing of a mutation, used for
both corpora. `Crash` puts `disk` in the place of `mem`. They are apart because
their state is: the cycle only hands the scan of reactions a set of issue
numbers, workflow runs and boards share nothing with issues but the log.

*GitHubSync.* `phase` is where `githubRepoPoller.sync` is. `ListIssues` gets a page,
`SkipIssue`, `StartLists` and `ChangeIssue` are what the loop does with its next
issue, `EndOfPage` stops after a page without changes. `Diff` is
`newMutationFromIssue`, `Updated` with `Counted` is `processGithubIssueMutation`.
`missed`, a history variable, has the issues that a pass had yet to come to when it
failed. `StartLists` starts the two goroutines of `syncLabels` and `syncMilestones`,
whose pages (`GetNames`) come in any order; `cached` is the ETag cache, which
keeps first pages. A facet's `SyncComments`, `SyncEvents`, `SyncReviews` or
`SyncDetails` is one request with what follows from its answer; `task` holds the
page and what was got. `Gone` is a 404, 410 or 301. `Stale` is the list that
`issueNumbersWithStaleCommentSync` and its siblings make; times have GitHub's
resolution of a second, and `now` is the `Date` of an answer.

*GitHubReactions.* `Process` is the cycle and the scan. `ListBody`, `Lock`,
`ListComment`, `AddReactions` are `syncReactionsOnIssue`; `Reading` is its read
lock, which it keeps while it lists the reactions of comments, so that nobody
can add a mutation. `StartScan`, `AskCounts`, `CompareCounts`, `EndBatch` are
`reactionScanLoop`, which has counts of the issues that GraphQL knows as issues and of
their first `CommentsAsked` comments (100 in the code). `AnswersGone` is a list that
cannot be got because the issue or a comment is gone. What else a cycle does is
abstracted to what it hands over: `Learn`, `FindGone`, `Meet`.

*GitHubProjects.* `Ask` is the GraphQL query, whose answer `snap` is kept, and
`AskUndated` one whose `Date` cannot be read; `SyncItem`
is one item of it with `maybeEmitProjectMutation`, `Compare` the rest, `Add` the
mutation. `AddProject` is the backfill of a project by its number. `alone` has
the callers no other met, `when` the times of edits, `undated` an issue whose type or
fields came without a date; these are history variables. An edit sets a field to a
new value, to one that it or another had before, or clears it (`Given`).

*GitHubActions.* `mode` is how the poller was set up. `Fetch` lists a window,
`Bisect` is a step of `bsearchWorkflowRunsEnd`, `SyncRun` and `SyncJob` log,
`EndWindow` goes on. `BeginBackfill`, `NextGap`, `NextRound` are
`syncWorkflowRunsBackfillGaps`. `Listed` has all the answers the API may give to
a full window: the newest `Cap` runs, any of those of one time.

## Runs

| Run | Shows |
|---|---|
| `netsource` | The corpus' content is always the beginning of one life of the leader, each record in its place, with none missing unless a call was cut short (`AppliedIsServed`); a split is reported only for lost records the follower has (`SplitIsReal`); records do not wait for the next record (`CatchesUp`); the whole implements `MutationLog`, in which only a call cut short skips records (`ImplementsMutationLog`). |
| `longpoll` | Nobody sleeps through a growth (`SleepersAreUpToDate`), growth is answered and never with a 304 (`GrowthIsAnswered`), and there is no deadlock (checked). |
| `disklog` | Listed segments are on disk, after failed polls too, unless a `Log` straddled midnight or failed (`IndexIsOnDisk`); the served log and its frozen segments only grow, across restarts of an index that has not slipped too (`ServedOnlyGrows`); and all that was written is served, unless a poll froze a segment short or failed halfway since the last start (`EverythingIsServed`). |
| `gcslog` | The bucket is a hole-free beginning of what was served at every moment of a possible death (`BucketIsPrefix`), records reach it (`EverythingIsStored`), and followers may rely on the log (`ImplementsSegmentLog`). |
| `gitsync` | No corpus forgets a commit (`NothingForgotten`); no goroutine is given a hash that it has not fetched (`QueuedIsFetched`); a ref is logged after its tag object and its repository's own commits (`RefsFollowCommits`); replay gives the leader's corpus whatever the order of logging (`ReplayMatches`); the log's refs catch up with every remote, unless a commit that does not parse is in its queue, and without failures so do whole histories (`CatchesUp`). |
| `gerritsync` | In the leader and in a replay of the log as it is at any moment, no parent of an indexed commit is lost track of (`MissingIsNeeded`) and no ref is there before its history (`RefsFollowCommits`); the change shown is that of its whole meta history (`ChangesFollowMeta`), which names no patch set whose commit is not there (`UploadsAreIndexed`); a replay that looks at each change once gives what the leader has (`ReplayMatches`); the log catches up with the server (`CatchesUp`); nobody is stuck (deadlock is checked). |
| `githubsync` | An issue whose facet counts as synced has all of it, whatever was edited between listing, pages and the end of the second, and whatever a failed cycle had logged (`SyncedIsWhole`); counters of open and closed issues and pull requests are the numbers of such issues in the corpus, those that are gone included as what they were, in the leader and in a replay (`CountersMatch`); every issue gets into the corpus with its facets, but for one that a failed pass, or an edit within a second that was listed already, left below a page with nothing new (`CatchesUp`). |
| `githubreactions` | The two goroutines may leave a wrong reaction; the scan puts it right, unless the numbers that it asks for agree or the issue has lost a comment (`CatchesUp`); no process waits for ever (deadlock is checked). |
| `githubprojects` | `numProjectItems` stays right (`CountersMatch`); a call that met no other leaves what GitHub answered, whatever races and crashes left behind (`AloneIsComplete`); `LastModified` is no earlier than any change it has to cover, but for those that the code cannot tell from none or cannot date (`LastModifiedCovers`). |
| `githubactions` | No run older than the newest in the corpus is missing, in the leader and in a replay at any moment (`NothingBehindHighWater`); a pass that ends has all runs of its span, a backfill all but those in short gaps (`PassIsComplete`); passes end and runs arrive (`RunsArrive`). |
| `gitsync_owner`, `gcslog_oversize` | Each violates one statement of the repository: see [findings](#findings). |

`ImplementsSegmentLog` and `ImplementsMutationLog` compose: a follower of a
GCS log relies on `SegmentLog` only, and `NetSource` over `SegmentLog`
implements the abstract log. Both are proved as well, see [proofs](#proofs).

## Bounds

* `netsource`: 3 records of 2 values, 3 segments, one restart of the leader and
  one fault or restart of the follower, channel of 2. Three records in three
  segments give every relation of a segment to its predecessor (equal, grown,
  frozen after growing, gone, replaced by an equal or by another record after a
  restart); two values are enough to tell two histories apart and to repeat a
  record. `FirstIsA` fixes which value is logged first in the first life: a
  renaming of the two values maps every other behaviour to one of these. A
  declared symmetry would not be sound with the liveness property. Deadlock
  checking is off: the system stops when the bounds are used up.
* `longpoll`: 2 polls, sizes to 2; both can sleep at once, and one can be woken
  by the other's expiry.
* `disklog`: 4 records of 2 values, 3 days, 2 faults (restarts, polls and logs that
  fail); both modes. Each of the slips can happen, be met by further days, polls and
  logs, and be corrected by a restart, and a second fault can fall on what the first
  left. Deadlock checking is off, a day may be the last one.
* `gcslog`: sizes 1 and 2, target 3, slack 1, 4 records, 3 segments, 2 deaths.
  Buffers fill exactly and with room to spare, segments are both taken up
  again and not. No record exceeds the target here; `gcslog_oversize` has one.

* `gitsync`: two forks and five commits: a shared root; a commit of A that only
  a tag leads to, which is deleted and made again; two commits of B in a row,
  so that a private commit is a placeholder too; and a commit that does not parse,
  at which B's main is at first and from which it is moved by force to the others.
  One failing command and one crash, anywhere. Every commit can thus be met as a
  tip, as a parent, through one or both repositories, and before or after a restart;
  the commit that does not parse is left in the queue, or gone from it by a crash.
  Deadlock checking is off: when the remotes are quiet there is nothing to do.
  `gitsync_owner` needs neither failures nor crashes.

* `gerritsync`: one change with its ninth and tenth patch set and three meta
  commits; `main`; a branch that comes, goes, or is moved by force to a commit
  that does not parse; `refs/meta/config`, which is not tracked. Batches of 2
  (250 in the code), so that a first sync takes three of them and a batch may end
  between a patch set and its meta ref. One failing command and one crash,
  anywhere. Deadlock checking is on: the poller goes on listing for ever.

* `githubsync`: an issue with two pages of comments and of events, and a pull
  request that is opened during the run; pages of one issue (100 in the code), so
  that a cycle has several and stops early, and of two comments, events or
  reviews; two pages of labels. Two edits, one tick of the clock, one failure or
  crash: an edit before a page and one after, in the second of the reading or
  the next. `InitNow` is after all times of the start. GitHub's bound `now <
  MaxTime` on edits leaves the last second to the leader. Pages of one issue
  make the case of `PageIsLast`: the second issue is on a page of its own, below one
  that may look unchanged, and both ways to be hidden there occur.
* `githubreactions`: an issue at the start with two comments, of which the first is
  asked for (100 in the code), and one opened during the run; batches of one; one of
  two reactions exists at the start; two edits and one failure or crash. The race
  needs one issue, two processes and one edit; the second issue makes the scan's list
  longer than its batch, and has to be scanned when the first has lost a comment. No
  issue is a pull request (`PR`): the scan gets no counts for one, so that nothing is
  to be checked; the theorems are for any.
* `githubprojects`: two callers of one issue and one board with one field, two
  of the issue's own fields and pages of one, so that events, fields and changes
  fit and do not; two edits, one failure or crash. The run starts when the corpus
  knows the board and the item: a value can then be set and set back, or set and
  cleared, between two syncs, which two edits would not reach from an empty corpus.
  A first sync is left to the theorems, whose assumptions allow any start
  that edits of the first second can have made. The callers are symmetric, and so are
  the names of fields, which is sound as the run checks invariants only.
* `githubactions`: four runs at the start, in two pairs created together, and a
  fifth that may come; answers of at most three. A window can be full, narrowed
  to an hour (2) or searched to the minute (1), and a backfill's days (3) are
  several. All three modes; the poller that backfills, or starts at a time, may
  find any part of the runs logged. The first pair was created at the very time
  from which a backfill looks (`Since`), the second an hour and more later, so
  that the gap between them is looked into and its answer can be full.

In the GitHub modules the environment is assumed to behave in these ways, each
stated in the module: fewer than `PerPage` comments of an issue are of the same
second (else `syncComments` asks for the same page for ever); an hour has fewer
than `Cap` runs (the code falls back to an hour, `github.go:3143`); no run is
created at the very time of another's update; an empty corpus is filled within
`MaxAge`; an issue is in no more projects than an answer has; an ID of a reaction
is of one place, and IDs are never used again. In `GitHubProjects`
a step that reads the corpus and adds what differs is one.

## Fairness

* `NetSource`: weak fairness of the follower's own steps as one action. They
  run in goroutines that wait for nothing but the leader's answers; an answer
  comes or the call fails, and failing is `CallCut`, whose number is bounded
  and which is not fair. Nothing is assumed of the leader, so `CatchesUp` says
  what happens once it is quiet. A call of `RunUpdateLoop` after an error is
  the program's choice and is not assumed either.
* `LongPoll`: strong fairness of `Lock` and `Answer`, which need the mutex: Go's
  `sync.Mutex` gives it to a waiter after at most a millisecond (starvation
  mode). Weak fairness of the handler's other steps and of expiry, because every
  context has a timeout of 55 seconds. None of `Grow`.
* `DiskLog`: weak fairness of the process' own steps; none of the writer,
  the date or restarts.
* `GitSync`: weak fairness of each goroutine's own steps. They wait for git
  commands, which end, and for `c.mu`; after an error the goroutine sleeps 30
  seconds and goes on (`isTempErr` is always true). Nothing is assumed of the
  remotes; `CatchesUp` says what happens once no one pushes any more.
* `GerritSync`: weak fairness of the goroutine's own steps, for the same reasons
  (`maintner.go:641-656`); between two syncs it waits for a wake-up or 5 minutes.
  Commands that fail are bounded and not fair, the server is not either.
  `CatchesUp` has one way out, which the code has too: a commit that does not
  parse stays in `need`, and its mutation is logged again and again.
* `GitHubSync`, `GitHubActions`: the poller takes a step again and again
  (`[]<><<Poller>>_vars`), which is weak fairness where a step can always be
  taken: a cycle begins at the latest after 15 minutes, in loop mode an error is
  tried again after 30 seconds. Time goes on. Failures are bounded and not fair;
  edits are not either.
* `GitHubReactions`: weak fairness of the scan's goroutine, of the work the cycle has
  begun, and of days. What a cycle learns or meets is not assumed: the scan alone
  must bring the corpus to what GitHub has.
* `GitHubProjects` has no liveness: a call is its caller's choice.
* `GCSLog`: the timer fires and the process is started again (weak); an upload
  tried again and again succeeds and is seen to (strong), since `flush` arms
  the timer anew after each failure.

## Proofs

Checked by TLAPS for all values of the constants, from the named assumptions
`SegmentLogAssumption`, `NetSourceAssumption`, `LongPollAssumption` and
`GCSLogAssumption` (bounds are natural numbers, the channel has room for one
mutation, a record has a size) and those named below.

* `NetSourceProofs!WellCut`: `LeaderSpec => []LogOK`. The cuts ascend within the
  log and the committed point is between the last cut and the end. This is
  inductive by itself; it is what makes a segment of the index an interval.
* `NetSourceProofs!AppliedWasServed`: `Spec => []AppliedIsServed`, and
  `TypeCorrect`. `AppliedIsServed` says nothing of where the next record comes
  from, so it is strengthened to `Invariant`:
  `CutsOK` (indexes held by the follower are well cut), `PhaseOK` (what the
  locals are in each stage), `FilesOK` (a file under its final name holds what
  its name says, and the files named by a list hold what the list says as long
  as it is being synced or sent), `ServedOK` (the index and the verified
  segments were each, at some time, the whole of what some life served) and
  `StreamOK` (applied records, then the channel, then what is left to send, in
  a row, are the verified list, but for the places of records that a call cut short
  has skipped, of which there are none without a fault). The step that matters is `AcceptSegments`:
  lemma `CommonIsPrefix` shows that the comparison of sums of whole segments
  and of one beginning of one file is as strong as comparing all records, so
  that the old list is a beginning of the new one.
* `NetSourceProofs!SplitsAreReal` is the other half of that comparison: no leader
  that kept what a follower has makes it report `ErrSplit`. `SplitInv` says that the
  leader, if it lost nothing of the follower's list, has it cut in the same places
  except at its end (`Grew`), so that an index answered later `Follows` it. Lemma
  `IntactStays` shows that no way of growing, freezing or restarting breaks this: a
  restart takes up a stored segment again only if all that is committed ends there.
  Lemma `FollowedIsCommon` then computes the common size, segment by segment.
* `NetSourceProofs!ImplementsLog`: `Spec => ImplementsMutationLog`, the refinement
  that the run checks, step by step. The abstract log has the same lives, `applied`
  is what the corpus has processed, and `split` is `pc = "split"`; the index, the files,
  the channel and the cache are mapped to nothing. The steps that are not stutters
  are `Log` and `Restart` of the leader, `ApplyMutation`, `ReportSplit`,
  `CallCut` and `FollowerRestart`. The head of the channel is what the abstract follower applies:
  by `StreamOK` and `ServedOK` what is applied and what is in the channel begin one
  life. A split is allowed only after a restart that kept less than what is applied:
  the channel is empty by then, so that this is what `SplitInv` says of the
  verified list.
* `LogServersProofs!SleepersUpToDate`: `PollSpec => []SleepersAreUpToDate` for any
  number of polls. The property needs the type invariant's clause that the
  mutex is held exactly by the polls between `Lock` and `Unlock` or `Wait`:
  `Grow` takes the mutex, so no poll is about to sleep, and wakes those asleep.
* `GitSyncProofs!NothingIsForgotten`, `QueuedHashesAreFetched` and `GitTypes`, from
  `GitAssumption` (parents and targets are commits, `None` is no object), for any
  number of repositories, any graph, any moves of the remotes, failures and
  crashes. `QueuedIsFetched` is not inductive: the parents of a commit are in the
  directory only if the directory is whole (`ScratchIsWhole`, because fetch
  brings closed sets), a replayed mutation queues them only if the goroutine that
  logged it had the commit (`PendingIsFetched`), and the tips of step 6 are there
  because step 5 has looked at each (`ClassifiedIsFetched`). `KeepsTrack` is
  inductive for a single corpus, whatever commit is processed: the lemmas about
  `Enqueue`, `WithParents` and `Filled` show it once for `mem` and `stored`.
* `GitSyncProofs!LogIsReplayed` and `HistoriesAreBeforeRefs`, with `NoneAssumption`
  (`None` is no mutation). The first rests on `LogLags`: the leader's corpus is at
  any moment what the log gives and, for each repository, what its one pending
  mutation adds; lemma `ProcessAdds` says what that is, for any corpus. The second
  relates a ref to commits that its goroutine has indexed long before: what a ref
  leads to and no other remote has (`Private`) is in the leader's corpus when the
  refs of a cycle are logged (`Ready`), because an entry has its parents known
  (`NothingIsForgotten`), what is private is queued for no other repository
  (`QueuedIsFetched`, and `ScratchIsReach`: a directory holds only what its remote
  can have had), and the queue of this one is then empty; `LogLags` carries it to
  the log.
* `GerritSyncProofs!NothingIsMissing`, `HistoriesComeFirst` and `GerritTypes`, from
  `GerritAssumption`, for any refs, changes, graph of commits, batch size, moves
  of the server, failures and crashes. `HistoriesComeFirst` rests on the other:
  when the refs of a batch are logged nothing is needed, so by `MissingIsNeeded`
  the indexed commits are closed under parents, and as they have the hashes of
  the batch (`WalkHasBatch`) they have `Ancestors` of each, the least closed set.
  The invariant `PInv` adds what relates the leader to its log: the log lacks at
  most the commit of the pending mutation, and a pending mutation with refs
  brings no commit (`LogLags`); what is fetched is closed (`Closed(scratch)`), so
  the parents of a commit that is read can be read. Lemmas say once for any
  corpus what each operation changes, and are used for `mem` and for `stored`.
* `GerritSyncProofs!ChangesAreRight`, `RestartMatches` and `UploadsAreThere`, which
  also need what a Gerrit server does to a change that it does not delete: a meta
  history has no merges (`MetaAssumption`) and only grows, a patch set stays what it
  is and comes with the meta commit that announces it (`ServerAssumption`), and
  `ls-remote` lists it before the meta ref (`PositionAssumption`). The code never
  takes a status or a mark back, so that the leader, which looks at a change after
  each mutation, shows what the whole history says only because a history without
  merges has a newest commit that sets a status (`StatusIsFound`) and what it says
  the longer one says too (`GrownIsFinished`). `MetaGrows` carries the order of a
  ref's values from the server over the listing and the pending mutation to both
  corpora, `LogIsSame` says that the log lacks exactly the pending mutation, and
  `PlainIsFinished` that one look at the end of the log is enough; `CInv` is their
  conjunction. `UInv` follows the patch sets that a meta history announces the same
  way: they are on the server, listed or indexed, and in or before the batch of the
  meta ref (`BatchHasPatchSets`).
* `GitHubSyncProofs!CountersAreRight` and `TypesAreRight`, from `GitHubAssumption`,
  for any issues, page sizes, edits, failures and crashes. A mutation that says
  an issue is gone makes the issue known without counting it, so counters are
  right only if it is never processed of an unknown issue. In the leader that is
  because the issues of a facet are known (`TaskRight`); in the log because what
  the leader knows and the log does not is at most the issue of the poller's one
  mutation on its way, which is not such a mutation (`LogLags`), and one that is
  pending is of an issue that the log has (`GoneIsKnown`). `ProcessIssueKeeps`
  shows once, for any corpus, that a processed mutation moves the counters by
  what the buckets gain and lose. Lemma `FirstIsThere` (a finite ordered set has
  a first) gives the next issue of a page and of a facet.
* `GitHubSyncProofs!SyncedAreWhole`, from the same assumption, shows `SyncedIsWhole`
  without its conditions: whatever was read later than GitHub's own last update of
  the issue is whole, in the leader and in the log (`WholeIfSynced`). This needs what
  lets the code ask for less than everything: no comment that is missing is older
  than one that is there (`NewestMissing`), because pages come oldest first and an
  edit has the time of now, so that asking since the newest loses none
  (`OthersAreLater`); events and reviews are the first so many (`FirstOfFeed`), so
  that whole pages can be skipped (`PageAdds`). Between two pages `TaskFits` keeps
  this. The one write that could make a whole facet wrong again is that of an issue
  listed earlier, whose draft may have changed since: `PageFits` says that the details
  are stale then. `LogIsSame` (the log lacks exactly the poller's pending mutation)
  carries all of it over a crash. That few comments share a second is not needed.
* `GitHubProjectsProofs!AloneSeesAll`: `Spec => []AloneIsComplete`. As long as a caller
  is in `alone` no other has a call on its way, so that the corpus stays the one that
  it compares with: `Solo` says item by item that what was compared is in the mutation
  or already in the corpus, so that adding the mutation makes up the difference.
  `Tidy` says of every answer and corpus that fields are set of an item only; a mutation
  that removes an item would otherwise leave its values behind.
* `GitHubProjectsProofs!CountIsRight`, `LastModifiedIsLate` and `ProjectTypes`, from
  `ProjectsAssumption`, for any callers, issues, boards and fields. The count stays right
  because no mutation brings and removes one item (`Apart`), which holds as what
  it brings is in one answer and what it removes is not. `LastModifiedCovers`
  compares with GitHub as it is now; the invariant says instead that everything
  in an answer, a mutation or a corpus carries a time no earlier than the first edit
  that made it what it is (`Dated`, `MutDated`, `Covered`), which no order of adding
  and logging can break, and neither can a value that recurs. What came with an answer
  without a date is marked `undated` and left out; the time of an item's last edit is
  covered when that edit gave a new value, as no corpus can then have it from before.
* `GitHubReactionsProofs!ReactionsAreWhereMade`, `FoundIsStillTrue` and
  `ReactionTypes`, from `ReactionsAssumption` and `InitAssumption` (at the start a
  reaction is at one place, and their IDs are the first), for any issues, edits,
  failures and crashes. With two processes that sync one issue at a time a corpus may
  hold a withdrawn reaction or miss one until the next scan (`CatchesUp`, which is
  model-checked). What cannot happen is that a reaction shows at another issue or
  comment than it was made for, or is shown that never was (`ShownWhereMade`). It is
  inductive once all holders are looked at together: GitHub, both corpora, what a process
  has found, and the mutations on their way to the log (`Held`, `OneHome`); of all
  steps only `React` makes a holder, of an ID that nobody holds. `FoundStillDiffers` is
  what the read lock is for: as long as comments are listed no mutation of the other
  process comes in between, so that what was found is still to be done. It does not
  outlast the lock, and neither does it in the code. Lemma `RankIsTaken` shows that the
  list of the scan has an issue in every place, so that its position always is one
  of an issue.
* `GitHubActionsProofs!NothingIsBehind` and `PassesAreComplete`, from
  `ActionsAssumption` (fewer than `Cap` runs in any hour, at the start and, by the
  guard of `CreateRun`, later; a corpus is filled before `MaxAge` has gone by), for
  any runs, jobs, edits, failures and crashes. The high-water mark is a safe place
  to start again only if what is known never has a hole before it (`NoneBehind`),
  which a step of logging keeps only if the runs of a window are logged oldest
  first and all before the window are known (`Got`, `GotOrListed`). That holds if
  every list that is used is whole (`WholeList`): the window was not full, or it is
  an hour, or a count has found it good (`Short`). A count stays true because the
  end of such a window is before the time at which the pass began. Lemma
  `MaxIsThere` gives `Max` its value for finite sets of times. Of a backfill
  `PassesAreComplete` has to show that it may take a gap for empty when a round over
  it brought nothing new: a list that was cut off has its newest runs, and if all of
  those were known already none was inside the gap, as the known runs at a gap's two
  ends are its neighbours. This argument fails at the start `from` of the span, which
  is the end of a gap though no run of that time need be known: of several
  runs created at that moment, a cut-off list may show the known ones only. The
  property first said otherwise, and held within the bounds of the run it had; it
  now has that case as an exception, and the run has been enlarged to meet it.
* `LogServersProofs!BucketHoldsPrefix`: `RecordsFit` implies `Spec => []BucketIsPrefix`,
  for any records, sizes, failures and deaths. `RecordsFit` is that no record is
  bigger than an object may be; without it the property is false, which is what
  `gcslog_oversize` shows. The inductive invariant `GCSInv` says of the objects
  that those before the buffer are, newest first, what was frozen (`Kept`), that those
  of its own number are beginnings of the buffer (`Buffered`), and that of two
  objects of one number the newer extends the older (`Grown`), so that a load that
  deletes all but the newest loses nothing. A record that does not fit waits in
  `pending` until an upload of the whole buffer was seen, so the number moves on only
  over a stored segment; with a record that did not fit in an empty buffer it would not.
* `LogServersProofs!ImplementsSegments`: from the same hypothesis,
  `Spec => ImplementsSegmentLog`. An upload is `Flush`: it commits all that was
  logged, seen or not. `AfterUpload` with a record that waited is `Log` with a freeze
  before it. `InitLoad` is `Restart`, in one of its three forms: nothing of the
  buffer was stored and the last segment is taken up again or, having no room left,
  is not; or some of it was, and that becomes the last segment. With
  `NetSourceProofs!ImplementsLog` this gives the end-to-end claim: a follower of a
  GCS log replicates one history of it.
* `LogServersProofs!DiskServesItsIndex` and `DiskOnlyGrows`: `DiskSpec` implies
  `[]IndexIsOnDisk` and `ServedOnlyGrows`, in both modes, over restarts, dates that
  change at any moment, and polls and logs that fail. `DiskInv` says that each segment
  is the beginning of the file that is opened for it (`Shown`), also when one file is
  listed twice, as long as no `Log` has slipped; that an index which has not
  slipped at all has the i-th file as its i-th segment, hashed to its end when frozen
  (`Exact`), so that the next scan finds the same; and that a writer has all that it
  wrote, with the file that a call of `Log` may have created and not yet written as
  the exception (`Logged`). `Unopened` and `Looked` say where a poll, a scan or a `Log`
  is with what it found.
* Both logs put segments one after another with `FlattenSeq`, a function defined by
  recursion. The provers cannot instantiate the library's induction theorems, but
  they can use that a set of naturals has a least element (`LeastIsThere`): lemmas
  `FlattensExists`, `FlattenAppend`, `FlattenType` and `EndsAppend` take the least
  number of segments for which something fails.

Only model-checked: liveness (`CatchesUp` of each poller and of the follower,
`GrowthIsAnswered`, `EverythingIsServed`, `EverythingIsStored`, `RunsArrive`), for
which the provers have no rules; and the two runs that violate a statement of the
repository.

## Findings

* `gcslog_oversize`: a record above the target size logged into an empty buffer
  makes the next start fail (`gcslog.go:389`).
* `gitsync_owner`: a commit that was a placeholder has no `Repo` once it is
  indexed (`git.go:613`), and `ForeachGitCommitForRepo` passes over it.

More were met, are in the models, and have no run of their own:

* `Corpus.Update` or `RunUpdateLoop` with a context that expires in the middle of a
  batch, or a file of the batch that cannot be read, loses the rest of the batch:
  `ns.last` is advanced before anything is delivered (`netsource.go:418`), and the
  next call goes on after it, though Update is said to update the corpus "from its
  current state to the latest state" (`maintner.go:385`) and to return when the
  context expires. In the model `CallCut` leaves the lost records as `Skipped`.
* In watcher mode a record written to a day's file after the last poll that saw
  no newer file is not served (`disklog.go:258`): the poll that finds the new
  file freezes the old one as it was hashed before. A restart then freezes it anew with
  another sum, and a follower of the index of before finds its past missing. This is
  the slip `short`, the exception of `EverythingIsServed` and, at a restart, of
  `ServedOnlyGrows`.
* A poll that cannot read a new file leaves the old one listed twice, frozen and
  growing (`disklog.go:269-292`); the next polls count it as two files, so that the new
  file is not served until a restart, and the old one is frozen a second time in its
  place when another day's appears (`halfway`).
* A writer's `Log` at midnight may count a record into a segment whose file does not
  get it (`disklog.go:180`, `logger.go:48`): followers cannot download what is listed
  until the process is restarted (`straddled`, the exception of `IndexIsOnDisk`). So it
  is, for the moment before the process ends, with a record that could not be written
  (`unwritten`, `disklog.go:207`).
* The wake-up on expiry can be lost (`gcslog.go:304`, `disklog.go:450`): it is
  broadcast once, without the mutex, and a waiter between its look at the context
  and its sleep misses it; the poll then outlives its 55 seconds until the log
  grows. The properties of `LongPoll` hold in spite of it.
* A commit shared by two repositories may stay a placeholder for ever, though
  refs that lead to it are logged (`git.go:214`, `git.go:806`); `CatchesUp` of
  `GitSync` allows for it. `gitCommitCount` may count a shared commit twice,
  though `git.go:438` says "only fires once per real commit".
* Of the patch sets met in one sync the last in the listing is shown, and refs are
  listed by name: 9 after 10 (`gerrit.go:813`). `cl.Meta` is not "the same value"
  as the last of `cl.Metas` (`gerrit.go:291-295`).
* A commit that cannot be processed stays in a repository's queue for as long as the
  process runs, also when the remote was moved away from it: `syncGitRepoOnce` logs it
  again and again (`git.go:857-869`), and comes to no ref any more. `Clear` in
  `GitSync` is the premise of `CatchesUp` that excludes this.
* A cycle that fails after the first page of issues leaves older changes behind a
  page that looks unchanged from then on (`github.go:3721`). Without a failure,
  an issue can be left behind in the same way when it, or a whole page above it, was
  listed and then edited again within one second: the listing shows the page
  as known, or the issue where the pass has already been (`seen`, 3674). `Hidden` in
  `GitHubSync` is these two cases, and no other.
* A deleted issue stays in the number of open (or closed) issues
  (`github.go:1970-2163`: a `NotExist` mutation returns before the counters),
  though `OpenIssues` says "the number of open issues" (`github.go:173`) and the
  fields of such an issue are to be ignored (358). `CountersMatch` counts it too.
* A comment that was deleted on GitHub stays in the corpus, and listing its reactions
  is answered by 404: the reactions of its issue are never synced again, and a cycle
  that meets the issue ends there, before `syncActions` (`github.go:4246-4249`, 2681).
  `Stuck` in `GitHubReactions` is the exception of `CatchesUp`.
* The scan asks for the counts of the first 100 comments of an issue only
  (`github.go:4075`), and by `issue(number:)` (4072), which has no pull request:
  changes on later comments, and on pull requests, are left to the cycle, which
  meets them when the issue or a comment is listed again. `CatchesUp` is for the
  issues and counts that are asked for.
* A value of a board's field that was changed and changed back, or set and cleared,
  between two syncs looks unchanged (`github.go:5112`), and the item's newer updated
  time is dropped, though `LastModified` is to cover "item field-value/Status changes"
  (814); the type or fields of an issue from an answer without a readable `Date` move
  no time (5278). Both are exceptions of `LastModifiedCovers`.
* A workflow run is logged before its jobs; if they cannot be got, the run counts
  as up to date and they are never asked for again (`github.go:3085`), though
  the comment at 3039 says that it is safe to abort and restart at any point.
* The scan of reactions makes its list anew only when a batch ends at position
  0, which some starts never come to (`github.go:4005`), and does not start for
  a repository without issues.
* Two callers may log an item before its project; in a replay the item's
  `Project` is nil (`github.go:2285`), and `ForeachFieldValue` (763)
  dereferences it.
* `SyncLoop` does not return when its context expires (`maintner.go:660`), though
  its comment says it does.

## Not modelled

Formatting, flags, TLS, secrets and authentication; torn records; more than one
GCS replica; an offline start of a follower from its cache; two followers
sharing a cache directory; a fetcher that outlives its expired caller and sets
`ns.last` while the next call runs (`RunAgain` waits for it); client programs;
`syncGitCommits`, the older loop over a local clone; tags of tags and of trees; the contents of commits. Of
Gerrit: several projects over one map of commits, `git init`, objects that are
not commits, meta histories with merges (`MetaAssumption`; a comment of the code
says there are none), the branch, messages, hashtags and votes parsed from meta
commits, and a follower's readers between two mutations, when a change may be
dirty, and changes that the server deletes (`ServerAssumption`). Of GitHub:
teams, users' names, references between issues and CLs, limits on requests,
steps and earlier attempts of workflow runs, `numWorkflowJobs`, a run's
conclusion that is kept when it is run again, the wording of requests, and
readers of the corpus. The API server only reads, but for the cache of
`GoFindTryWork`. Generated code, encoders and wiring have no protocol of their
own.

## Plan

Done, in this order: the log and its replication (`MutationLog`, `SegmentLog`,
`NetSource`), the logs that serve it (`LongPoll`, `DiskLog`, `GCSLog`), the
pollers of git and Gerrit, and the four parts of the poller of GitHub, with the
proofs above. Left:

1. A proof that a `DiskLog` implements `SegmentLog`, for which item 2 is needed.
2. `SegmentLog` with batches of records, so that `DiskLog`'s watcher mode can be
   shown to implement it too; an offline start in `NetSource`.
3. The cache of `GoFindTryWork`; readers of a follower's corpus between batches.
