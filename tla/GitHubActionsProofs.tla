------------------------- MODULE GitHubActionsProofs -------------------------
(***************************************************************************)
(* Proofs about GitHubActions, for any runs, jobs, limit on an answer,     *)
(* edits, failures and crashes: a poller leaves no run behind the newest   *)
(* that it has logged, and a pass that ends, a poll or a backfill, has all *)
(* runs of its span that it looks for.                                     *)
(*                                                                         *)
(* Windows are gone over from the oldest, and what is before a window is   *)
(* known.  A list that the API has cut off has only the newest, so that    *)
(* all rests on a list that is used being whole: it has fewer runs than    *)
(* the limit, or the window was narrowed, to an hour, of which there are   *)
(* fewer, or to an end found good by a count.  Such an end is before the   *)
(* time at which the pass began, so that no run can be added before it.    *)
(*                                                                         *)
(* A backfill does not narrow its windows, and its lists are cut off.  But *)
(* while a round has brought nothing new the corpus is as when the gaps    *)
(* were found, with no run inside one; a list that is cut off would have   *)
(* such a run, which is new, because the runs of the end of the gap are    *)
(* fewer than the limit.  So a gap without anything new was empty.         *)
(***************************************************************************)
EXTENDS GitHubActions, FiniteSetTheorems, WellFoundedInduction, TLAPS

RunMutations == [run : Run, is : UpRun]
JobMutations == [run : Run, job : Job, version : Nat]

HoursFit == \A t \in Int : Cardinality(Created(t, t + Hour)) < Cap
World ==
  /\ now \in Nat /\ now <= MaxTime
  /\ up \in [Run -> UpRun] /\ \A r \in Run : up[r].created <= now
  /\ HoursFit

RunsRight(runs) ==
  /\ runs \in [Run -> Known]
  /\ \A r \in Run : runs[r].known => runs[r].created = up[r].created /\ up[r].created > 0

\* All runs before a time are known, and all before any that is known.
AllBefore(runs, t) ==
  \A r \in Run : up[r].created > 0 /\ up[r].created < t => runs[r].known
NoneBehind(runs) ==
  \A r \in Run : runs[r].known => AllBefore(runs, up[r].created)

\* A mutation can be applied to any runs that have its run already if it is of a job.
MutRight(m) ==
  /\ m \in RunMutations \union JobMutations
  /\ m \in RunMutations => m.is.created = up[m.run].created /\ up[m.run].created > 0
Pending == pend # None => MutRight(pend) /\ (pend \in JobMutations => disk[pend.run].known)
LogLags ==
  \A r \in Run :
    mem[r].known <=> disk[r].known \/ (pend # None /\ pend.run = r)
Corpora ==
  /\ RunsRight(mem) /\ RunsRight(disk) /\ Pending /\ LogLags
  /\ mode = "poll" => NoneBehind(mem) /\ NoneBehind(disk)

\* What is listed is on GitHub, and jobs are of a run that is known.
ListRight ==
  \A r \in DOMAIN list : /\ r \in Run /\ list[r] \in UpRun
                         /\ list[r].created = up[r].created /\ up[r].created > 0
JobRight ==
  /\ job = [run |-> job.run, todo |-> job.todo, version |-> job.version]
  /\ job.run \in Run /\ mem[job.run].known /\ job.todo \subseteq Job
Work ==
  /\ phase \in {"runs", "jobs"} => ListRight
  /\ phase = "jobs" => JobRight

\* The runs that the pass has got.
Got(t) ==
  \A r \in Run : up[r].created > 0 /\ from <= up[r].created /\ up[r].created < t => mem[r].known
GotOrListed ==
  /\ \A r \in Run : up[r].created > 0 /\ from <= up[r].created /\ up[r].created < window.end
                    => mem[r].known \/ r \in DOMAIN list
  /\ \A r \in DOMAIN list : list[r].created <= window.end

Short ==
  \/ window.end <= window.start + Hour
  \/ window.end < stop /\ Cardinality(Created(window.start, window.end)) < Cap
WindowRight ==
  /\ window = [start |-> window.start, end |-> window.end, narrowed |-> window.narrowed,
               lo |-> window.lo, hi |-> window.hi]
  /\ window.start \in Int /\ window.end \in Int
  /\ from <= window.start /\ window.start < window.end /\ window.end <= stop
SearchRight ==
  /\ Short /\ window.lo \in Int /\ window.hi \in Int
  /\ window.start <= window.lo /\ window.hi <= stop

SpanRight ==
  /\ from \in Int /\ stop \in Nat /\ stop <= now
  /\ mode = "poll" => from <= now /\ AllBefore(mem, from)
Pass ==
  /\ phase \in {"idle", "fetch", "bisect", "runs", "jobs", "done"}
  /\ phase # "idle" => SpanRight
  /\ phase \in {"fetch", "bisect", "runs", "jobs"} => WindowRight
  /\ phase \in {"fetch", "bisect"} => Got(window.start)
  /\ phase = "bisect" => SearchRight
  /\ phase = "fetch" /\ window.narrowed => Short
  /\ phase \in {"runs", "jobs"} => GotOrListed
  /\ phase = "done" => Got(stop)

IInv == World /\ Corpora /\ Work /\ (mode # "backfill" => Pass)

-----------------------------------------------------------------------------
LEMMA MutationsAreSome ==
  ASSUME NEW m, MutRight(m)
  PROVE  /\ m # None /\ m.run \in Run
         /\ m \in RunMutations => m \notin JobMutations /\ "job" \notin DOMAIN m
         /\ m \in JobMutations => "job" \in DOMAIN m
  BY DEF MutRight, None, RunMutations, JobMutations

\* A processed mutation makes its run known, as it is on GitHub.
LEMMA ProcessedRight ==
  ASSUME NEW runs, RunsRight(runs), NEW m, MutRight(m),
         m \in JobMutations => runs[m.run].known
  PROVE  /\ RunsRight(Processed(runs, m))
         /\ \A r \in Run : Processed(runs, m)[r].known <=> r = m.run \/ runs[r].known
  <1> DEFINE q == m.run
             old == runs[q]
             new == IF "job" \in DOMAIN m THEN [old EXCEPT !.known = TRUE, !.jobs[m.job] = m.version]
                    ELSE [known |-> TRUE, created |-> m.is.created, updated |-> m.is.updated,
                          version |-> m.is.version, jobs |-> old.jobs]
  <1>1. q \in Run /\ runs \in [Run -> Known] /\ old \in Known
    BY MutationsAreSome DEF RunsRight
  <1>2. new \in Known /\ new.known /\ new.created = up[q].created /\ up[q].created > 0
    <2>1. CASE m \in RunMutations
      <3>1. new = [known |-> TRUE, created |-> m.is.created, updated |-> m.is.updated,
                   version |-> m.is.version, jobs |-> old.jobs]
        BY <2>1, MutationsAreSome
      <3>2. m.is \in UpRun /\ m.is.created = up[q].created /\ up[q].created > 0
        BY <2>1 DEF MutRight, RunMutations
      <3> HIDE DEF new, old
      <3> QED BY <1>1, <3>1, <3>2 DEF Known, UpRun
    <2>2. CASE m \in JobMutations
      <3> DEFINE c == [old EXCEPT !.known = TRUE]
      <3>1. new = [c EXCEPT !.jobs[m.job] = m.version]
        BY <2>2, MutationsAreSome
      <3>2. m.job \in Job /\ m.version \in Nat
        BY <2>2 DEF JobMutations
      <3>3. old.known /\ old.created = up[q].created /\ up[q].created > 0
        BY <1>1, <2>2 DEF RunsRight
      <3> HIDE DEF new, old
      <3>4. c \in Known /\ c.known /\ c.created = old.created
        BY <1>1 DEF Known
      <3> HIDE DEF c
      <3>5. new \in Known /\ new.known = c.known /\ new.created = c.created
        BY <3>1, <3>2, <3>4 DEF Known
      <3> QED BY <3>3, <3>4, <3>5
    <2> QED BY <2>1, <2>2 DEF MutRight
  <1>3. Processed(runs, m) = [runs EXCEPT ![q] = new]
    BY DEF Processed
  <1> HIDE DEF new, old, q
  <1>4. /\ Processed(runs, m) \in [Run -> Known]
        /\ \A r \in Run : Processed(runs, m)[r] = IF r = q THEN new ELSE runs[r]
    BY <1>1, <1>2, <1>3
  <1> QED BY <1>1, <1>2, <1>4 DEF RunsRight, q

\* One more run is known, and all before it.
LEMMA NoneBehindKeeps ==
  ASSUME NEW runs, NoneBehind(runs), NEW q \in Run, AllBefore(runs, up[q].created), NEW d,
         \A r \in Run : d[r].known <=> r = q \/ runs[r].known
  PROVE  NoneBehind(d)
  BY DEF NoneBehind, AllBefore

\* The poller adds a mutation.
LEMMA PollerAdds ==
  ASSUME Corpora, pend = None, NEW m, MutRight(m), AddMutation(m),
         UNCHANGED <<up, mode>>,
         m \in JobMutations => mem[m.run].known,
         mode = "poll" /\ m \in RunMutations => AllBefore(mem, up[m.run].created)
  PROVE  Corpora' /\ \A r \in Run : mem'[r].known <=> r = m.run \/ mem[r].known
  <1>1. m.run \in Run /\ m # None
    BY MutationsAreSome
  <1>2. mem' = Processed(mem, m) /\ pend' = m /\ disk' = disk /\ up' = up /\ mode' = mode
    BY DEF AddMutation
  <1>3. RunsRight(mem') /\ \A r \in Run : mem'[r].known <=> r = m.run \/ mem[r].known
    BY <1>2, ProcessedRight DEF Corpora
  <1>4. \A r \in Run : mem[r].known <=> disk[r].known
    BY DEF Corpora, LogLags
  <1>5. RunsRight(mem)' /\ RunsRight(disk)'
    BY <1>2, <1>3 DEF RunsRight, Corpora
  <1>6. Pending'
    BY <1>1, <1>2, <1>4 DEF Pending, MutRight
  <1>7. LogLags'
    BY <1>1, <1>2, <1>3, <1>4 DEF LogLags
  <1>8. ASSUME mode = "poll" PROVE NoneBehind(mem') /\ NoneBehind(disk)
    <2>1. NoneBehind(mem) /\ NoneBehind(disk)
      BY <1>8 DEF Corpora
    <2>2. AllBefore(mem, up[m.run].created)
      BY <1>1, <1>8, <2>1 DEF MutRight, NoneBehind
    <2> QED BY <1>1, <1>3, <2>1, <2>2, NoneBehindKeeps
  <1>9. mode' = "poll" => NoneBehind(mem)' /\ NoneBehind(disk)'
    BY <1>2, <1>8 DEF NoneBehind, AllBefore
  <1> QED BY <1>3, <1>5, <1>6, <1>7, <1>9 DEF Corpora

LEMMA CorporaStay ==
  ASSUME Corpora, UNCHANGED <<up, mem, disk, pend, mode>>
  PROVE  Corpora'
  BY DEF Corpora, RunsRight, Pending, MutRight, LogLags, NoneBehind, AllBefore

LEMMA LogKeepsCorpora ==
  ASSUME Corpora, Log
  PROVE  Corpora'
  <1>1. pend # None /\ MutRight(pend) /\ disk' = Processed(disk, pend) /\ pend' = None
        /\ UNCHANGED <<up, mem, mode>>
    BY DEF Log, Corpora, Pending, github
  <1>2. pend.run \in Run
    BY <1>1, MutationsAreSome
  <1>3. RunsRight(disk') /\ \A r \in Run : disk'[r].known <=> r = pend.run \/ disk[r].known
    BY <1>1, ProcessedRight DEF Corpora, Pending
  <1>4. \A r \in Run : mem[r].known <=> disk'[r].known
    BY <1>1, <1>3 DEF Corpora, LogLags
  <1>5. RunsRight(mem)' /\ RunsRight(disk)'
    BY <1>1, <1>3 DEF RunsRight, Corpora
  <1>6. Pending' /\ LogLags'
    BY <1>1, <1>4 DEF Pending, LogLags
  <1>7. mode = "poll" => NoneBehind(mem) /\ NoneBehind(disk')
    BY <1>4 DEF Corpora, NoneBehind, AllBefore
  <1>8. mode' = "poll" => NoneBehind(mem)' /\ NoneBehind(disk)'
    BY <1>1, <1>7 DEF NoneBehind, AllBefore
  <1> QED BY <1>5, <1>6, <1>8 DEF Corpora

\* What the pass has got stays when nothing is forgotten and GitHub is as it was.
LEMMA GotStays ==
  ASSUME UNCHANGED <<up, mode, from>>, \A r \in Run : mem[r].known => mem'[r].known, NEW t
  PROVE  /\ Got(t) => Got(t)'
         /\ AllBefore(mem, from) => AllBefore(mem, from)'
  BY DEF Got, AllBefore

LEMMA WorldStays == World /\ UNCHANGED <<now, up>> => World'
  BY DEF World, HoursFit, Created

\* A list that is not full is whole.
LEMMA RunsAreFew ==
  ASSUME NEW S \in SUBSET Run
  PROVE  IsFiniteSet(S) /\ Cardinality(S) \in Nat
  BY FS_Subset, FS_CardinalityType, ActionsAssumption

LEMMA WholeList ==
  ASSUME NEW S \in SUBSET Run, NEW l \in Listed(S),
         Cardinality(S) < Cap \/ ~ Full(DOMAIN l)
  PROVE  DOMAIN l = S /\ \A r \in S : l[r] = up[r]
  <1>1. PICK R \in SUBSET NewestOf(S) :
          /\ l = [r \in R |-> up[r]]
          /\ Cardinality(R) = IF Cardinality(S) < Cap THEN Cardinality(S) ELSE Cap
    BY DEF Listed
  <1>2. R \in SUBSET S /\ DOMAIN l = R
    BY <1>1 DEF NewestOf
  <1>3. Cap \in Nat /\ IsFiniteSet(S) /\ Cardinality(S) \in Nat /\ Cardinality(R) \in Nat
    BY <1>2, RunsAreFew, ActionsAssumption
  <1>4. Cardinality(R) = Cardinality(S)
    BY <1>1, <1>2, <1>3 DEF Full
  <1>5. R = S
    BY <1>2, <1>3, <1>4, FS_Subset
  <1> QED BY <1>1, <1>5

LEMMA ListedAreThere ==
  ASSUME NEW S \in SUBSET Run, NEW l \in Listed(S)
  PROVE  DOMAIN l \subseteq S /\ \A r \in DOMAIN l : l[r] = up[r]
  BY DEF Listed, NewestOf

-----------------------------------------------------------------------------
\* A finite set of times has a latest one: the times after a time are more than
\* those after a later one.
LEMMA MaxIsThere ==
  ASSUME NEW S \in SUBSET Nat, IsFiniteSet(S), S # {}
  PROVE  Max(S) \in S /\ \A s \in S : s <= Max(S)
  <1> DEFINE Later(t) == {s \in S : s > t}
             T == {Later(t) : t \in S}
  <1>1. T \subseteq FiniteSubsetsOf(S) /\ T # {}
    <2>1. T \subseteq SUBSET S /\ T # {}
      OBVIOUS
    <2> HIDE DEF T
    <2> QED BY <2>1, FS_FiniteSubsetsOfFinite
  <1>2. PICK X \in T : \A Y \in T : ~ (<<Y, X>> \in StrictSubsetOrdering(S))
    <2> HIDE DEF T
    <2> QED BY <1>1, WFMin, FS_StrictSubsetOrderingWellFounded
  <1>3. PICK t \in S : X = Later(t)
    BY <1>2
  <1>4. \A s \in S : t >= s
    <2> SUFFICES ASSUME NEW s \in S, s > t PROVE FALSE
      OBVIOUS
    <2>0. S \subseteq Nat /\ s \in Nat /\ t \in Nat
      OBVIOUS
    <2>1. Later(s) \subseteq Later(t)
      <3>1. ASSUME NEW x \in S, x > s PROVE x > t
        BY <3>1, <2>0
      <3> QED BY <3>1
    <2>2. s \in Later(t) /\ s \notin Later(s)
      BY <2>0
    <2>3. <<Later(s), Later(t)>> \in StrictSubsetOrdering(S)
      BY <2>1, <2>2 DEF StrictSubsetOrdering
    <2> QED BY <1>2, <1>3, <2>3
  <1>5. Max(S) \in S /\ \A s \in S : Max(S) >= s
    <2> HIDE DEF Later, T
    <2> QED BY <1>4 DEF Max
  <1> QED BY <1>5

\* The high-water mark is the time of the newest run that is known, or 0.
LEMMA HighWaterIs ==
  ASSUME NEW runs, RunsRight(runs), up \in [Run -> UpRun]
  PROVE  /\ HighWater(runs) \in Nat
         /\ HighWater(runs) = 0 \/ \E r \in Run : runs[r].known /\ up[r].created = HighWater(runs)
         /\ \A r \in Run : runs[r].known => runs[r].created <= HighWater(runs)
  <1> DEFINE K == KnownRuns(runs)
             f == [r \in K |-> runs[r].created]
             T == Times(runs) \union {0}
  <1>1. \A r \in K : r \in Run /\ runs[r].known /\ runs[r].created = up[r].created /\ runs[r].created \in Nat
    BY DEF KnownRuns, RunsRight, UpRun
  <1>2. f \in Surjection(K, Times(runs))
    BY DEF Times, Surjection
  <1>3. IsFiniteSet(K)
    BY RunsAreFew DEF KnownRuns
  <1>4. IsFiniteSet(Times(runs))
    <2> HIDE DEF f, K
    <2> QED BY <1>2, <1>3, FS_Surjection
  <1>5. IsFiniteSet(T) /\ T # {}
    BY <1>4, FS_Singleton, FS_Union
  <1>6. T \in SUBSET Nat
    BY <1>1 DEF Times
  <1>7. HighWater(runs) \in T /\ \A t \in T : t <= HighWater(runs)
    <2> HIDE DEF T
    <2>1. Max(T) \in T /\ \A t \in T : t <= Max(T)
      BY <1>5, <1>6, MaxIsThere
    <2> QED BY <2>1 DEF HighWater, T
  <1>8. HighWater(runs) = 0 \/ \E r \in K : runs[r].created = HighWater(runs)
    BY <1>7 DEF Times
  <1>9. \A r \in Run : runs[r].known => runs[r].created \in T
    BY DEF Times, KnownRuns
  <1> QED BY <1>1, <1>6, <1>7, <1>8, <1>9

LEMMA HighWaterHasAllBefore ==
  ASSUME NEW runs, RunsRight(runs), up \in [Run -> UpRun], NoneBehind(runs)
  PROVE  AllBefore(runs, HighWater(runs))
  <1>1. CASE HighWater(runs) = 0
    <2>1. \A r \in Run : up[r].created \in Nat
      BY DEF UpRun
    <2> QED BY <1>1, <2>1 DEF AllBefore
  <1>2. CASE \E r \in Run : runs[r].known /\ up[r].created = HighWater(runs)
    BY <1>2 DEF NoneBehind
  <1> QED BY <1>1, <1>2, HighWaterIs

-----------------------------------------------------------------------------
LEMMA WindowIs ==
  ASSUME NEW a, NEW b
  PROVE  LET w == Window(a, b) IN
         /\ w.start = a /\ w.end = b /\ ~ w.narrowed
         /\ w = [start |-> w.start, end |-> w.end, narrowed |-> w.narrowed, lo |-> w.lo, hi |-> w.hi]
  <1>1. ASSUME NEW n, NEW w, w = [start |-> 0, end |-> 0, narrowed |-> n, lo |-> 0, hi |-> 0]
        PROVE  [w EXCEPT !.start = a, !.end = b]
                 = [start |-> a, end |-> b, narrowed |-> n, lo |-> 0, hi |-> 0]
    <2> DEFINE c == [w EXCEPT !.start = a]
    <2>1. c = [start |-> a, end |-> 0, narrowed |-> n, lo |-> 0, hi |-> 0]
      BY <1>1
    <2> HIDE DEF c
    <2>2. [c EXCEPT !.end = b] = [start |-> a, end |-> b, narrowed |-> n, lo |-> 0, hi |-> 0]
      BY <2>1
    <2> QED BY <2>2 DEF c
  <1>2. Window(a, b) = [start |-> a, end |-> b, narrowed |-> FALSE, lo |-> 0, hi |-> 0]
    BY <1>1 DEF Window, NoWindow
  <1> HIDE DEF Window
  <1> QED BY <1>2

LEMMA BeginPollKeeps ==
  ASSUME IInv, BeginPoll
  PROVE  IInv'
  <1> DEFINE since == IF mode = "since" THEN Since
                      ELSE IF Times(mem) \subseteq {0} THEN now - MaxAge ELSE HighWater(mem)
  <1>1. /\ from' = since /\ stop' = now /\ window' = Window(since, now)
        /\ phase' = Looking(since, now) /\ mode # "backfill"
        /\ UNCHANGED <<now, up, mem, disk, pend, mode>>
    BY DEF BeginPoll, github, corpus
  <1>2. World' /\ Corpora'
    BY <1>1, WorldStays, CorporaStay DEF IInv
  <1>3. now \in Nat /\ now - MaxAge \in Int /\ now - MaxAge <= 0
    BY ActionsAssumption DEF IInv, World
  <1>4. \A r \in Run : up[r].created \in Nat
    BY DEF IInv, World, UpRun
  <1>5. since \in Int /\ (mode = "poll" => since <= now /\ AllBefore(mem, since))
    <2>1. CASE mode = "since"
      BY <2>1, ActionsAssumption
    <2>2. CASE mode # "since" /\ Times(mem) \subseteq {0}
      <3>1. \A r \in Run : ~ (up[r].created > 0 /\ up[r].created < since)
        BY <1>3, <1>4, <2>2
      <3> QED BY <1>3, <2>2, <3>1 DEF AllBefore
    <2>3. CASE mode # "since" /\ ~ (Times(mem) \subseteq {0})
      <3>1. since = HighWater(mem)
        BY <2>3
      <3>2. RunsRight(mem) /\ up \in [Run -> UpRun] /\ (mode = "poll" => NoneBehind(mem))
        BY DEF IInv, Corpora, World
      <3>3. /\ HighWater(mem) \in Nat
            /\ HighWater(mem) = 0 \/ \E r \in Run : up[r].created = HighWater(mem)
            /\ mode = "poll" => AllBefore(mem, HighWater(mem))
        BY <3>2, HighWaterIs, HighWaterHasAllBefore
      <3>4. HighWater(mem) <= now
        BY <1>3, <3>3 DEF IInv, World
      <3> QED BY <3>1, <3>3, <3>4
    <2> QED BY <2>1, <2>2, <2>3
  <1> HIDE DEF since
  <1>6. SpanRight'
    BY <1>1, <1>3, <1>5 DEF SpanRight, AllBefore
  <1>7. CASE since < now
    <2>1. phase' = "fetch"
      BY <1>1, <1>7 DEF Looking
    <2>2. /\ window'.start = since /\ window'.end = now /\ ~ window'.narrowed
          /\ window' = [start |-> window'.start, end |-> window'.end, narrowed |-> window'.narrowed,
                        lo |-> window'.lo, hi |-> window'.hi]
      BY <1>1, WindowIs
    <2>3. WindowRight'
      BY <1>1, <1>3, <1>5, <1>7, <2>2 DEF WindowRight
    <2>4. Got(window.start)'
      BY <1>1, <1>4, <1>5, <2>2 DEF Got
    <2> QED BY <1>2, <1>6, <2>1, <2>2, <2>3, <2>4 DEF IInv, Work, Pass
  <1>8. CASE ~ (since < now)
    <2>1. phase' = "done"
      BY <1>1, <1>8 DEF Looking
    <2>2. Got(stop)'
      BY <1>1, <1>3, <1>4, <1>5, <1>8 DEF Got
    <2> QED BY <1>2, <1>6, <2>1, <2>2 DEF IInv, Work, Pass
  <1> QED BY <1>7, <1>8

LEMMA FetchKeeps ==
  ASSUME IInv, Fetch
  PROVE  IInv'
  <1> DEFINE S == Created(window.start, window.end)
             hour == window.start + Hour
  <1>1. phase = "fetch" /\ UNCHANGED <<now, up, mem, disk, pend, mode, from, stop, job>>
    BY DEF Fetch, At, github, corpus
  <1>2. World' /\ Corpora'
    BY <1>1, WorldStays, CorporaStay DEF IInv
  <1>3. S \in SUBSET Run
    BY DEF Created
  <1>4. PICK l \in Listed(S) :
          IF mode # "backfill" /\ Full(DOMAIN l) /\ ~ window.narrowed
          THEN /\ window' = [window EXCEPT !.lo = window.start, !.hi = window.end,
                                           !.end = IF hour < window.end THEN hour ELSE window.end]
               /\ phase' = "bisect"
          ELSE list' = l /\ phase' = "runs" /\ UNCHANGED window
    BY DEF Fetch
  <1>5. \A r \in S : r \in Run /\ up[r] \in UpRun /\ up[r].created > 0
                     /\ window.start <= up[r].created /\ up[r].created <= window.end
    BY DEF Created, IInv, World
  <1>6. CASE mode # "backfill" /\ Full(DOMAIN l) /\ ~ window.narrowed
    <2> DEFINE end == IF hour < window.end THEN hour ELSE window.end
               c1 == [window EXCEPT !.lo = window.start]
               c2 == [c1 EXCEPT !.hi = window.end]
    <2>1. phase' = "bisect" /\ window' = [c2 EXCEPT !.end = end]
      BY <1>4, <1>6
    <2>2. SpanRight /\ WindowRight /\ Got(window.start)
      BY <1>1, <1>6 DEF IInv, Pass
    <2>3. Hour \in Nat /\ Hour > 0
      BY ActionsAssumption
    <2>4. /\ end \in Int /\ window.start < end /\ end <= window.end
          /\ end <= window.start + Hour
      BY <2>2, <2>3 DEF WindowRight
    <2> HIDE DEF c1, c2, end
    <2>5. window' = [start |-> window.start, end |-> end, narrowed |-> window.narrowed,
                     lo |-> window.start, hi |-> window.end]
      <3>1. c1 = [start |-> window.start, end |-> window.end, narrowed |-> window.narrowed,
                  lo |-> window.start, hi |-> window.hi]
        BY <2>2 DEF WindowRight, c1
      <3>2. c2 = [start |-> window.start, end |-> window.end, narrowed |-> window.narrowed,
                  lo |-> window.start, hi |-> window.end]
        BY <3>1 DEF c2
      <3> QED BY <2>1, <3>2
    <2>6. /\ window'.start = window.start /\ window'.end = end
          /\ window'.lo = window.start /\ window'.hi = window.end
          /\ window' = [start |-> window'.start, end |-> window'.end, narrowed |-> window'.narrowed,
                        lo |-> window'.lo, hi |-> window'.hi]
      BY <2>5
    <2>7. WindowRight'
      BY <1>1, <2>2, <2>4, <2>6 DEF WindowRight, SpanRight
    <2>8. SearchRight'
      BY <1>1, <2>2, <2>4, <2>6 DEF WindowRight, SearchRight, Short
    <2>9. SpanRight' /\ Got(window.start)'
      BY <1>1, <2>2, <2>6 DEF SpanRight, AllBefore, Got
    <2> QED BY <1>2, <2>1, <2>7, <2>8, <2>9 DEF IInv, Work, Pass
  <1>7. CASE ~ (mode # "backfill" /\ Full(DOMAIN l) /\ ~ window.narrowed)
    <2>1. list' = l /\ phase' = "runs" /\ window' = window
      BY <1>4, <1>7
    <2>2. DOMAIN l \subseteq S /\ \A r \in DOMAIN l : l[r] = up[r]
      BY <1>3, ListedAreThere
    <2> HIDE DEF S
    <2>3. ListRight'
      BY <1>1, <1>5, <2>1, <2>2 DEF ListRight
    <2>4. ASSUME mode # "backfill" PROVE Pass'
      <3>1. SpanRight /\ WindowRight /\ Got(window.start) /\ (window.narrowed => Short)
        BY <1>1, <2>4 DEF IInv, Pass
      <3>2. Cardinality(S) < Cap \/ ~ Full(DOMAIN l)
        <4>1. CASE ~ window.narrowed
          BY <1>7, <2>4, <4>1
        <4>2. CASE window.narrowed
          <5>1. CASE window.end <= hour
            <6>1. Cardinality(Created(window.start, hour)) < Cap
              BY <3>1 DEF WindowRight, IInv, World, HoursFit
            <6>2. S \subseteq Created(window.start, hour)
              <7>1. ASSUME NEW r \in S PROVE r \in Run /\ up[r].created > 0
                           /\ window.start <= up[r].created /\ up[r].created <= hour
                <8>1. up[r].created <= window.end /\ up[r].created \in Int
                  BY <1>5, <7>1 DEF S, UpRun
                <8>2. window.end \in Int /\ hour \in Int
                  BY <3>1, ActionsAssumption DEF WindowRight
                <8> QED BY <1>5, <5>1, <7>1, <8>1, <8>2 DEF S
              <7> QED BY <7>1 DEF Created
            <6>3. Created(window.start, hour) \in SUBSET Run
              BY DEF Created
            <6>4. /\ Cardinality(S) <= Cardinality(Created(window.start, hour))
                  /\ Cardinality(S) \in Nat /\ Cardinality(Created(window.start, hour)) \in Nat
              BY <1>3, <6>2, <6>3, RunsAreFew, FS_Subset
            <6> QED BY <6>1, <6>4, ActionsAssumption
          <5>2. CASE Cardinality(S) < Cap
            BY <5>2
          <5> QED BY <3>1, <4>2, <5>1, <5>2 DEF Short, S
        <4> QED BY <4>1, <4>2
      <3>3. DOMAIN l = S
        BY <1>3, <3>2, WholeList
      <3>4. \A r \in Run : up[r].created \in Nat
        BY DEF IInv, World, UpRun
      <3>5. ASSUME NEW r \in Run, up[r].created > 0, from <= up[r].created, up[r].created < window.end
            PROVE  mem[r].known \/ r \in S
        <4>1. CASE up[r].created < window.start
          BY <3>1, <3>5, <4>1 DEF Got
        <4>2. CASE window.start <= up[r].created
          BY <3>4, <3>5, <4>2, <3>1 DEF S, Created, WindowRight
        <4> QED BY <3>1, <3>4, <4>1, <4>2 DEF WindowRight
      <3>6. GotOrListed'
        BY <1>1, <1>5, <2>1, <2>2, <3>3, <3>5 DEF GotOrListed
      <3>7. SpanRight' /\ WindowRight'
        BY <1>1, <2>1, <3>1 DEF SpanRight, AllBefore, WindowRight
      <3> QED BY <2>1, <3>6, <3>7 DEF Pass
    <2> QED BY <1>1, <1>2, <2>1, <2>3, <2>4 DEF IInv, Work
  <1> QED BY <1>6, <1>7

\* The bounds of the search and the end of the window change, or neither.
LEMMA SearchIs ==
  ASSUME NEW w, NEW n, NEW e, NEW lo, NEW hi, NEW s, NEW x, NEW b,
         w = [start |-> s, end |-> e, narrowed |-> n, lo |-> lo, hi |-> hi]
  PROVE  /\ [w EXCEPT !.hi = x] = [start |-> s, end |-> e, narrowed |-> n, lo |-> lo, hi |-> x]
         /\ [w EXCEPT !.lo = x, !.end = x]
              = [start |-> s, end |-> x, narrowed |-> n, lo |-> x, hi |-> hi]
         /\ [w EXCEPT !.narrowed = b, !.lo = x, !.hi = x]
              = [start |-> s, end |-> e, narrowed |-> b, lo |-> x, hi |-> x]
  <1>1. [w EXCEPT !.hi = x] = [start |-> s, end |-> e, narrowed |-> n, lo |-> lo, hi |-> x]
    OBVIOUS
  <1>2. [w EXCEPT !.lo = x, !.end = x]
          = [start |-> s, end |-> x, narrowed |-> n, lo |-> x, hi |-> hi]
    <2> DEFINE c == [w EXCEPT !.lo = x]
    <2>1. c = [start |-> s, end |-> e, narrowed |-> n, lo |-> x, hi |-> hi]
      OBVIOUS
    <2> HIDE DEF c
    <2>2. [c EXCEPT !.end = x] = [start |-> s, end |-> x, narrowed |-> n, lo |-> x, hi |-> hi]
      BY <2>1
    <2> QED BY <2>2 DEF c
  <1>3. [w EXCEPT !.narrowed = b, !.lo = x, !.hi = x]
          = [start |-> s, end |-> e, narrowed |-> b, lo |-> x, hi |-> x]
    <2> DEFINE c1 == [w EXCEPT !.narrowed = b]
               c2 == [c1 EXCEPT !.lo = x]
    <2>1. c1 = [start |-> s, end |-> e, narrowed |-> b, lo |-> lo, hi |-> hi]
      OBVIOUS
    <2> HIDE DEF c1
    <2>2. c2 = [start |-> s, end |-> e, narrowed |-> b, lo |-> x, hi |-> hi]
      BY <2>1
    <2> HIDE DEF c2
    <2>3. [c2 EXCEPT !.hi = x] = [start |-> s, end |-> e, narrowed |-> b, lo |-> x, hi |-> x]
      BY <2>2
    <2> QED BY <2>3 DEF c1, c2
  <1> QED BY <1>1, <1>2, <1>3

LEMMA BisectKeeps ==
  ASSUME IInv, Bisect
  PROVE  IInv'
  <1> DEFINE mid == window.lo + (window.hi - window.lo) \div 2
             S == Created(window.start, mid)
  <1>1. phase = "bisect" /\ UNCHANGED <<now, up, mem, disk, pend, mode, from, stop, list, job>>
    BY DEF Bisect, At, github, corpus
  <1>2. World' /\ Corpora'
    BY <1>1, WorldStays, CorporaStay DEF IInv
  <1>3. phase' \in {"bisect", "fetch"}
    BY <1>1 DEF Bisect, Narrowed
  <1>4. Work'
    BY <1>3 DEF Work
  <1>5. ASSUME mode # "backfill" PROVE Pass'
    <2>1. SpanRight /\ WindowRight /\ Got(window.start) /\ SearchRight
      BY <1>1, <1>5 DEF IInv, Pass
    <2>2. /\ window = [start |-> window.start, end |-> window.end, narrowed |-> window.narrowed,
                       lo |-> window.lo, hi |-> window.hi]
          /\ {window.start, window.end, window.lo, window.hi, stop, from} \subseteq Int
      BY <2>1 DEF WindowRight, SearchRight, SpanRight
    <2>3. SpanRight'
      BY <1>1, <2>1 DEF SpanRight, AllBefore
    <2>4. Got(window.start) /\ window'.start = window.start => Got(window.start)'
      BY <1>1 DEF Got
    <2>5. CASE window.hi - window.lo > Minute
      <3>1. mid \in Int /\ window.lo < mid /\ mid < window.hi
        <4>1. Minute \in Nat
          BY ActionsAssumption
        <4>2. window.hi - window.lo > 1
          <5>1. Minute > 0
            BY ActionsAssumption
          <5> QED BY <2>2, <2>5, <4>1, <5>1
        <4> QED BY <2>2, <4>2
      <3>2. phase' = "bisect"
        BY <1>1, <2>5 DEF Bisect, Narrowed
      <3>3. CASE Full(S)
        <4>1. window' = [window EXCEPT !.hi = mid]
          BY <2>5, <3>3 DEF Bisect, Narrowed
        <4> HIDE DEF mid
        <4>2. window' = [start |-> window.start, end |-> window.end, narrowed |-> window.narrowed,
                         lo |-> window.lo, hi |-> mid]
          BY <2>2, <4>1, SearchIs
        <4>3. /\ window'.start = window.start /\ window'.end = window.end
              /\ window'.lo = window.lo /\ window'.hi = mid
              /\ window' = [start |-> window'.start, end |-> window'.end,
                            narrowed |-> window'.narrowed, lo |-> window'.lo, hi |-> window'.hi]
          BY <4>2
        <4>4. WindowRight'
          BY <1>1, <2>1, <4>3 DEF WindowRight
        <4>5. Short'
          BY <1>1, <2>1, <4>3 DEF SearchRight, Short, Created
        <4>6. SearchRight'
          BY <1>1, <2>1, <2>2, <3>1, <4>3, <4>5 DEF SearchRight
        <4> QED BY <2>1, <2>3, <2>4, <3>2, <4>3, <4>4, <4>6 DEF Pass
      <3>4. CASE ~ Full(S)
        <4>1. window' = [window EXCEPT !.lo = mid, !.end = mid]
          BY <2>5, <3>4 DEF Bisect, Narrowed
        <4>2. Cardinality(S) < Cap
          <5>1. S \in SUBSET Run
            BY DEF Created
          <5> HIDE DEF S
          <5>2. Cardinality(S) \in Nat /\ Cap \in Nat
            BY <5>1, RunsAreFew, ActionsAssumption
          <5> QED BY <3>4, <5>2 DEF Full
        <4> HIDE DEF mid
        <4>3. window' = [start |-> window.start, end |-> mid, narrowed |-> window.narrowed,
                         lo |-> mid, hi |-> window.hi]
          BY <2>2, <4>1, SearchIs
        <4>4. /\ window'.start = window.start /\ window'.end = mid
              /\ window'.lo = mid /\ window'.hi = window.hi
              /\ window' = [start |-> window'.start, end |-> window'.end,
                            narrowed |-> window'.narrowed, lo |-> window'.lo, hi |-> window'.hi]
          BY <4>3
        <4>5. window.start < mid /\ mid < stop
          BY <2>1, <2>2, <3>1 DEF SearchRight
        <4>6. WindowRight'
          BY <1>1, <2>1, <2>2, <3>1, <4>4, <4>5 DEF WindowRight
        <4>7. Created(window.start, window.end)' = S
          BY <1>1, <4>4 DEF Created, S
        <4>8. Short'
          BY <1>1, <4>2, <4>4, <4>5, <4>7 DEF Short
        <4>9. SearchRight'
          BY <1>1, <2>1, <2>2, <3>1, <4>4, <4>5, <4>8 DEF SearchRight
        <4> QED BY <2>1, <2>3, <2>4, <3>2, <4>4, <4>6, <4>9 DEF Pass
      <3> QED BY <3>3, <3>4
    <2>6. CASE ~ (window.hi - window.lo > Minute)
      <3>1. phase' = "fetch" /\ window' = [window EXCEPT !.narrowed = TRUE, !.lo = 0, !.hi = 0]
        BY <1>1, <2>6 DEF Bisect, Narrowed
      <3>2. window' = [start |-> window.start, end |-> window.end, narrowed |-> TRUE,
                       lo |-> 0, hi |-> 0]
        BY <2>2, <3>1, SearchIs
      <3>3. /\ window'.start = window.start /\ window'.end = window.end
            /\ window' = [start |-> window'.start, end |-> window'.end,
                          narrowed |-> window'.narrowed, lo |-> window'.lo, hi |-> window'.hi]
        BY <3>2
      <3>4. WindowRight'
        BY <1>1, <2>1, <3>3 DEF WindowRight
      <3>5. Short'
        BY <1>1, <2>1, <3>3 DEF SearchRight, Short, Created
      <3> QED BY <2>1, <2>3, <2>4, <3>1, <3>3, <3>4, <3>5 DEF Pass
    <2> QED BY <2>5, <2>6
  <1> QED BY <1>1, <1>2, <1>4, <1>5 DEF IInv

-----------------------------------------------------------------------------
\* The runs are logged oldest first, so that all before a run are known when it is.
LEMMA SyncRunKeeps ==
  ASSUME IInv, SyncRun
  PROVE  IInv'
  <1>1. /\ phase = "runs" /\ pend = None
        /\ UNCHANGED <<now, up, mode, from, stop, window>>
    BY DEF SyncRun, At, github
  <1>2. PICK r \in Oldest(list) :
          /\ list' = [q \in DOMAIN list \ {r} |-> list[q]]
          /\ IF mem[r].known /\ mem[r].updated = list[r].updated
             THEN UNCHANGED <<mem, disk, pend, phase, job>>
             ELSE /\ AddMutation(RunMutation(r, list[r]))
                  /\ phase' = "jobs"
                  /\ job' = [run |-> r, todo |-> Job, version |-> 0]
    BY DEF SyncRun, corpus
  <1>3. ListRight
    BY <1>1 DEF IInv, Work
  <1>4. /\ r \in DOMAIN list /\ r \in Run /\ list[r] \in UpRun
        /\ list[r].created = up[r].created /\ up[r].created > 0
    BY <1>2, <1>3 DEF Oldest, ListRight
  <1>5. DOMAIN list' = DOMAIN list \ {r} /\ \A q \in DOMAIN list' : list'[q] = list[q]
    BY <1>2
  <1>6. ListRight'
    BY <1>1, <1>3, <1>5 DEF ListRight
  <1>7. World'
    BY <1>1, WorldStays DEF IInv
  <1>8. \A q \in Run : up[q].created \in Nat
    BY DEF IInv, World, UpRun
  <1>9. ASSUME mode # "backfill", mem'[r].known, \A q \in Run : mem[q].known => mem'[q].known,
               phase' \in {"runs", "jobs"}
        PROVE  Pass'
    <2>1. SpanRight /\ WindowRight /\ GotOrListed
      BY <1>1, <1>9 DEF IInv, Pass
    <2>2. SpanRight' /\ WindowRight'
      BY <1>1, <1>9, <2>1, GotStays DEF SpanRight, WindowRight
    <2>3. GotOrListed'
      BY <1>1, <1>5, <1>9, <2>1 DEF GotOrListed
    <2> QED BY <1>9, <2>2, <2>3 DEF Pass
  <1>10. CASE mem[r].known /\ mem[r].updated = list[r].updated
    <2>1. UNCHANGED <<mem, disk, pend, phase, job>>
      BY <1>2, <1>10
    <2>2. Corpora'
      BY <1>1, <2>1, CorporaStay DEF IInv
    <2>3. Work'
      BY <1>1, <1>6, <2>1 DEF Work
    <2>4. mode' # "backfill" => Pass'
      BY <1>1, <1>9, <1>10, <2>1
    <2> QED BY <1>7, <2>2, <2>3, <2>4 DEF IInv
  <1>11. CASE ~ (mem[r].known /\ mem[r].updated = list[r].updated)
    <2> DEFINE m == RunMutation(r, list[r])
    <2>1. AddMutation(m) /\ phase' = "jobs" /\ job' = [run |-> r, todo |-> Job, version |-> 0]
      BY <1>2, <1>11
    <2>2. m = [run |-> r, is |-> list[r]] /\ m.run = r /\ m.is = list[r]
      BY DEF RunMutation
    <2>3. m \in RunMutations /\ MutRight(m)
      BY <1>4, <2>2 DEF RunMutations, MutRight
    <2>4. m \notin JobMutations
      BY <2>3, MutationsAreSome
    <2>5. ASSUME mode = "poll" PROVE AllBefore(mem, up[r].created)
      <3>1. SpanRight /\ WindowRight /\ GotOrListed /\ AllBefore(mem, from)
        BY <1>1, <2>5 DEF IInv, Pass, SpanRight
      <3>2. ASSUME NEW q \in Run, up[q].created > 0, up[q].created < up[r].created, ~ mem[q].known
            PROVE  FALSE
        <4>1. ~ (up[q].created < from)
          BY <3>1, <3>2 DEF AllBefore
        <4>2. from <= up[q].created
          BY <1>8, <3>1, <3>2, <4>1 DEF SpanRight
        <4>3. up[r].created <= window.end
          BY <1>4, <3>1 DEF GotOrListed
        <4>4. up[q].created < window.end
          BY <1>8, <1>4, <3>1, <3>2, <4>3 DEF WindowRight
        <4>5. q \in DOMAIN list
          BY <3>1, <3>2, <4>2, <4>4 DEF GotOrListed
        <4>6. list[r].created <= list[q].created /\ list[q].created = up[q].created
          BY <1>2, <1>3, <4>5 DEF Oldest, ListRight
        <4> QED BY <1>4, <1>8, <3>2, <4>6
      <3> QED BY <3>2 DEF AllBefore
    <2> HIDE DEF m
    <2>6. Corpora' /\ \A q \in Run : mem'[q].known <=> q = r \/ mem[q].known
      BY <1>1, <2>1, <2>2, <2>3, <2>4, <2>5, PollerAdds DEF IInv
    <2>7. JobRight'
      <3>1. job'.run = r /\ job'.todo = Job /\ job'.version = 0
        BY <2>1
      <3> QED BY <1>4, <2>1, <2>6, <3>1 DEF JobRight
    <2>8. Work'
      BY <1>6, <2>7 DEF Work
    <2>9. mode' # "backfill" => Pass'
      BY <1>1, <1>4, <1>9, <2>1, <2>6
    <2> QED BY <1>7, <2>6, <2>8, <2>9 DEF IInv
  <1> QED BY <1>10, <1>11

LEMMA SyncJobKeeps ==
  ASSUME IInv, SyncJob
  PROVE  IInv'
  <1>1. /\ phase = "jobs" /\ pend = None
        /\ UNCHANGED <<now, up, mode, from, stop, window, list>>
    BY DEF SyncJob, At, github
  <1>2. ListRight /\ JobRight
    BY <1>1 DEF IInv, Work
  <1>3. World'
    BY <1>1, WorldStays DEF IInv
  <1>4. ListRight'
    BY <1>1, <1>2 DEF ListRight
  <1>5. ASSUME mode # "backfill", \A q \in Run : mem[q].known => mem'[q].known,
               phase' \in {"runs", "jobs"}
        PROVE  Pass'
    <2>1. SpanRight /\ WindowRight /\ GotOrListed
      BY <1>1, <1>5 DEF IInv, Pass
    <2>2. SpanRight' /\ WindowRight'
      BY <1>1, <1>5, <2>1, GotStays DEF SpanRight, WindowRight
    <2>3. GotOrListed'
      BY <1>1, <1>5, <2>1 DEF GotOrListed
    <2> QED BY <1>5, <2>2, <2>3 DEF Pass
  <1>6. CASE job.todo = {}
    <2>1. phase' = "runs" /\ UNCHANGED <<mem, disk, pend>>
      BY <1>6 DEF SyncJob, corpus
    <2>2. Corpora' /\ Work'
      BY <1>1, <1>4, <2>1, CorporaStay DEF IInv, Work
    <2> QED BY <1>1, <1>3, <1>5, <2>1, <2>2 DEF IInv
  <1>7. CASE job.todo # {}
    <2>1. PICK k \in job.todo :
            /\ AddMutation(JobMutation(job.run, k, up[job.run].version))
            /\ job' = [job EXCEPT !.todo = @ \ {k}]
            /\ phase' = phase
      BY <1>7 DEF SyncJob
    <2> DEFINE m == JobMutation(job.run, k, up[job.run].version)
    <2>2. m = [run |-> job.run, job |-> k, version |-> up[job.run].version] /\ m.run = job.run
      BY DEF JobMutation
    <2>3. m \in JobMutations /\ MutRight(m) /\ m \notin RunMutations
      <3>1. job.run \in Run /\ k \in Job /\ up[job.run].version \in Nat
        BY <1>2 DEF JobRight, IInv, World, UpRun
      <3>2. m \in JobMutations
        BY <2>2, <3>1 DEF JobMutations
      <3>3. m \notin RunMutations
        BY <2>2 DEF RunMutations
      <3> QED BY <3>2, <3>3 DEF MutRight
    <2> HIDE DEF m
    <2>4. Corpora' /\ \A q \in Run : mem'[q].known <=> q = job.run \/ mem[q].known
      BY <1>1, <1>2, <2>1, <2>2, <2>3, PollerAdds DEF IInv, JobRight, m
    <2>5. job' = [run |-> job.run, todo |-> job.todo \ {k}, version |-> job.version]
      BY <1>2, <2>1 DEF JobRight
    <2>6. JobRight'
      <3>1. job'.run = job.run /\ job'.todo = job.todo \ {k} /\ job'.version = job.version
        BY <2>5
      <3> QED BY <1>2, <2>4, <2>5, <3>1 DEF JobRight
    <2> QED BY <1>1, <1>3, <1>4, <1>5, <2>1, <2>4, <2>6 DEF IInv, Work
  <1> QED BY <1>6, <1>7

\* With nothing left to log, all before the end of the window is known.
LEMMA EndWindowKeeps ==
  ASSUME IInv, EndWindow
  PROVE  IInv'
  <1>1. /\ phase = "runs" /\ list = Nothing
        /\ UNCHANGED <<now, up, mem, disk, pend, mode, from, stop, list, job>>
    BY DEF EndWindow, At, github, corpus
  <1>2. World' /\ Corpora'
    BY <1>1, WorldStays, CorporaStay DEF IInv
  <1>3. DOMAIN list = {}
    BY <1>1 DEF Nothing
  <1>4. IF NextWindow(window).start < NextWindow(window).end
        THEN phase' = "fetch" /\ window' = NextWindow(window)
        ELSE phase' = IF mode = "backfill" THEN "gap" ELSE "done"
    BY DEF EndWindow
  <1>5. Work'
    BY <1>4 DEF Work
  <1>6. ASSUME mode # "backfill" PROVE Pass'
    <2>1. SpanRight /\ WindowRight /\ GotOrListed
      BY <1>1, <1>6 DEF IInv, Pass
    <2>2. Got(window.end)
      BY <1>3, <2>1 DEF GotOrListed, Got
    <2>3. SpanRight'
      BY <1>1, <2>1 DEF SpanRight, AllBefore
    <2> DEFINE w == Window(window.end, stop)
    <2>4. NextWindow(window) = w
      BY <1>6 DEF NextWindow
    <2>5. /\ w.start = window.end /\ w.end = stop /\ ~ w.narrowed
          /\ w = [start |-> w.start, end |-> w.end, narrowed |-> w.narrowed, lo |-> w.lo, hi |-> w.hi]
      BY WindowIs
    <2> HIDE DEF w
    <2>6. CASE window.end < stop
      <3>1. phase' = "fetch" /\ window' = w
        BY <1>4, <2>4, <2>5, <2>6
      <3>2. WindowRight'
        BY <1>1, <2>1, <2>5, <2>6, <3>1 DEF WindowRight, SpanRight
      <3>3. Got(window.start)'
        BY <1>1, <2>2, <2>5, <3>1 DEF Got
      <3> QED BY <2>3, <2>5, <3>1, <3>2, <3>3 DEF Pass
    <2>7. CASE ~ (window.end < stop)
      <3>1. phase' = "done"
        BY <1>4, <1>6, <2>4, <2>5, <2>7
      <3>2. stop = window.end
        BY <2>1, <2>7 DEF WindowRight, SpanRight
      <3>3. Got(stop)'
        BY <1>1, <2>2, <3>2 DEF Got
      <3> QED BY <2>3, <3>1, <3>3 DEF Pass
    <2> QED BY <2>6, <2>7
  <1> QED BY <1>1, <1>2, <1>5, <1>6 DEF IInv

-----------------------------------------------------------------------------
\* A backfill is not about the pass: it may leave runs out.
LEMMA BackfillKeeps ==
  ASSUME IInv, BeginBackfill \/ NextGap \/ NextRound
  PROVE  IInv'
  <1>1. UNCHANGED <<now, up, mem, disk, pend, mode>>
    BY DEF BeginBackfill, NextGap, NextRound, github, corpus
  <1>2. World' /\ Corpora'
    BY <1>1, WorldStays, CorporaStay DEF IInv
  <1>3. Work'
    BY DEF BeginBackfill, NextGap, NextRound, BeginRound, At, Work
  <1>4. mode = "backfill"
    <2>1. CASE BeginBackfill
      BY <2>1 DEF BeginBackfill
    <2>2. CASE NextGap \/ NextRound
      BY <2>2 DEF NextGap, NextRound, At, IInv, Pass
    <2> QED BY <2>1, <2>2
  <1> QED BY <1>1, <1>2, <1>3, <1>4 DEF IInv

\* A pass that has ended or is given up leaves the corpora as they are.
LEMMA IdleKeeps ==
  ASSUME World', Corpora', phase' = "idle"
  PROVE  IInv'
  BY DEF IInv, Work, Pass

LEMMA RestKeeps ==
  ASSUME IInv, Rest \/ RequestFails
  PROVE  IInv'
  <1>1. phase' = "idle" /\ UNCHANGED <<now, up, mem, disk, pend, mode>>
    BY DEF Rest, RequestFails, GiveUp, github, corpus
  <1> QED BY <1>1, WorldStays, CorporaStay, IdleKeeps DEF IInv

\* What is lost is the mutation that was not logged.
LEMMA CrashKeeps ==
  ASSUME IInv, Crash
  PROVE  IInv'
  <1>1. phase' = "idle" /\ mem' = disk /\ pend' = None /\ UNCHANGED <<now, up, disk, mode>>
    BY DEF Crash, GiveUp, github
  <1>2. Corpora'
    BY <1>1 DEF IInv, Corpora, RunsRight, Pending, LogLags, NoneBehind, AllBefore
  <1> QED BY <1>1, <1>2, WorldStays, IdleKeeps DEF IInv

\* The rest of the state is as it was, but for the time and the log.
LEMMA PassStays ==
  ASSUME UNCHANGED <<up, mem, mode, phase, from, stop, window, list, job>>,
         now \in Nat, now' \in Nat, now <= now'
  PROVE  (Work => Work') /\ (Pass => Pass')
  <1>1. Work => Work'
    BY DEF Work, ListRight, JobRight
  <1>2. SpanRight => SpanRight'
    BY DEF SpanRight, AllBefore
  <1>3. WindowRight => WindowRight'
    BY DEF WindowRight
  <1>4. (Short => Short') /\ (SearchRight => SearchRight')
    BY DEF SearchRight, Short, Created
  <1>5. /\ Got(window.start) => Got(window.start)'
        /\ Got(stop) => Got(stop)'
        /\ GotOrListed => GotOrListed'
    BY DEF Got, GotOrListed
  <1> QED BY <1>1, <1>2, <1>3, <1>4, <1>5 DEF Pass

LEMMA LogKeeps ==
  ASSUME IInv, Log
  PROVE  IInv'
  <1>1. UNCHANGED <<now, up, mem, mode, phase, from, stop, window, list, job>>
    BY DEF Log, github
  <1>2. World' /\ Corpora'
    BY <1>1, WorldStays, LogKeepsCorpora DEF IInv
  <1>3. now \in Nat
    BY DEF IInv, World
  <1> QED BY <1>1, <1>2, <1>3, PassStays DEF IInv

LEMMA TickKeeps ==
  ASSUME IInv, Tick
  PROVE  IInv'
  <1>1. /\ now' = now + 1 /\ now < MaxTime
        /\ UNCHANGED <<up, mem, disk, pend, mode, phase, from, stop, window, list, job>>
    BY DEF Tick
  <1>2. now \in Nat /\ MaxTime \in Nat
    BY ActionsAssumption DEF IInv, World
  <1>3. World'
    <2>1. \A r \in Run : up'[r].created <= now'
      BY <1>1, <1>2 DEF IInv, World, UpRun
    <2>2. HoursFit'
      BY <1>1 DEF IInv, World, HoursFit, Created
    <2> QED BY <1>1, <1>2, <2>1, <2>2 DEF IInv, World
  <1>4. Corpora'
    BY <1>1, CorporaStay DEF IInv
  <1> QED BY <1>1, <1>2, <1>3, <1>4, PassStays DEF IInv

-----------------------------------------------------------------------------
\* A run keeps its time of creation; a new one's is now, and so it is not in any
\* window that a poll has counted, nor before any time that it has come to.
LEMMA EditKeeps ==
  ASSUME IInv, NEW r \in Run, NEW is \in UpRun, Edit(r, is),
         is.created = up[r].created \/ (up[r].created = 0 /\ is.created = now),
         HoursFit'
  PROVE  IInv'
  <1>1. /\ up' = [up EXCEPT ![r] = is]
        /\ UNCHANGED <<now, mem, disk, pend, mode, phase, from, stop, window, list, job>>
    BY DEF Edit
  <1>2. up \in [Run -> UpRun] /\ now \in Nat /\ (\A q \in Run : up[q].created <= now)
    BY DEF IInv, World
  <1>3. \A q \in Run : up[q].created \in Nat
    BY <1>2 DEF UpRun
  <1>4. up' \in [Run -> UpRun] /\ \A q \in Run : up'[q].created \in Nat /\ up'[q].created <= now
    BY <1>1, <1>2, <1>3 DEF UpRun
  <1>5. \A q \in Run : \/ up'[q].created = up[q].created
                       \/ up[q].created = 0 /\ up'[q].created = now
    BY <1>1, <1>2
  <1>6. World'
    BY <1>1, <1>4 DEF IInv, World
  <1>7. \A q \in Run : up[q].created > 0 => up'[q].created = up[q].created
    BY <1>5
  <1>8. \A q \in Run : up'[q].created < now => up'[q].created = up[q].created
    BY <1>2, <1>5
  <1>9. ASSUME NEW runs, NEW t \in Int, t <= now, AllBefore(runs, t)
        PROVE  \A q \in Run : up'[q].created > 0 /\ up'[q].created < t => runs[q].known
    BY <1>2, <1>4, <1>8, <1>9 DEF AllBefore
  <1>10. RunsRight(mem)' /\ RunsRight(disk)'
    BY <1>1, <1>7 DEF IInv, Corpora, RunsRight
  <1>11. Pending' /\ LogLags'
    <2>1. \A m : MutRight(m) => MutRight(m)'
      BY <1>7 DEF MutRight, RunMutations
    <2> QED BY <1>1, <2>1 DEF IInv, Corpora, Pending, LogLags
  <1>12. ASSUME NEW runs, RunsRight(runs), NoneBehind(runs)
         PROVE  \A q \in Run : runs[q].known =>
                  \A p \in Run : up'[p].created > 0 /\ up'[p].created < up'[q].created
                                 => runs[p].known
    <2> TAKE q \in Run
    <2> HAVE runs[q].known
    <2>1. up'[q].created = up[q].created /\ up[q].created <= now /\ up[q].created \in Int
      BY <1>2, <1>3, <1>7, <1>12 DEF RunsRight
    <2>2. AllBefore(runs, up[q].created)
      BY <1>12 DEF NoneBehind
    <2> QED BY <1>9, <2>1, <2>2
  <1>13. mode' = "poll" => NoneBehind(mem)' /\ NoneBehind(disk)'
    BY <1>1, <1>12 DEF IInv, Corpora, NoneBehind, AllBefore
  <1>14. Corpora'
    BY <1>10, <1>11, <1>13 DEF Corpora
  <1>15. Work'
    <2>1. ListRight => ListRight'
      BY <1>1, <1>7 DEF ListRight
    <2>2. JobRight => JobRight'
      BY <1>1 DEF JobRight
    <2> QED BY <1>1, <2>1, <2>2 DEF IInv, Work
  <1>16. ASSUME mode # "backfill" PROVE Pass'
    <2>1. Pass
      BY <1>16 DEF IInv
    <2>2. SpanRight => SpanRight'
      BY <1>1, <1>9 DEF SpanRight, AllBefore
    <2>3. WindowRight => WindowRight'
      BY <1>1 DEF WindowRight
    <2>4. ASSUME NEW t \in Int, t <= now, Got(t)
          PROVE  \A q \in Run : up'[q].created > 0 /\ from <= up'[q].created /\ up'[q].created < t
                                => mem[q].known
      BY <1>2, <1>4, <1>8, <2>4 DEF Got
    <2>5. SpanRight /\ WindowRight /\ Got(window.start) => Got(window.start)'
      <3> HAVE SpanRight /\ WindowRight /\ Got(window.start)
      <3>1. window.start \in Int /\ window.start <= now
        BY <1>2 DEF SpanRight, WindowRight
      <3> QED BY <1>1, <2>4, <3>1 DEF Got
    <2>6. SpanRight /\ Got(stop) => Got(stop)'
      BY <1>1, <1>2, <2>4 DEF SpanRight, Got
    <2>7. SpanRight /\ WindowRight /\ GotOrListed => GotOrListed'
      BY <1>1, <1>2, <1>4, <1>8 DEF SpanRight, WindowRight, GotOrListed
    <2>8. SpanRight /\ WindowRight /\ Short => Short'
      <3> HAVE SpanRight /\ WindowRight /\ Short
      <3>1. CASE window.end <= window.start + Hour
        BY <1>1, <3>1 DEF Short
      <3>2. CASE window.end < stop /\ Cardinality(Created(window.start, window.end)) < Cap
        <4>1. window.end \in Int /\ window.end < now
          BY <1>2, <3>2 DEF SpanRight, WindowRight
        <4>2. ASSUME NEW q \in Run
              PROVE  (up'[q].created > 0 /\ up'[q].created <= window.end)
                       <=> (up[q].created > 0 /\ up[q].created <= window.end)
          BY <1>2, <1>3, <1>5, <4>1
        <4>3. Created(window.start, window.end)' = Created(window.start, window.end)
          BY <1>1, <1>3, <1>5, <4>1, <4>2 DEF Created
        <4> QED BY <1>1, <3>2, <4>3 DEF Short
      <3> QED BY <3>1, <3>2 DEF Short
    <2>9. SpanRight /\ WindowRight /\ SearchRight => SearchRight'
      BY <1>1, <2>8 DEF SearchRight
    <2> QED BY <1>1, <2>1, <2>2, <2>3, <2>5, <2>6, <2>7, <2>8, <2>9 DEF Pass
  <1> QED BY <1>1, <1>6, <1>14, <1>15, <1>16 DEF IInv

\* An hour that has the time of a new run is within the last hour, or begins with it,
\* and there is room for one more.
LEMMA CreateKeeps ==
  ASSUME IInv, NEW r \in Run, CreateRun(r)
  PROVE  IInv'
  <1> DEFINE is == [created |-> now, updated |-> now, version |-> 1]
  <1>1. up[r] = NoRun /\ Cardinality(Created(now - Hour, now)) < Cap - 1 /\ Edit(r, is)
    BY DEF CreateRun
  <1>2. up \in [Run -> UpRun] /\ now \in Nat /\ HoursFit /\ \A q \in Run : up[q].created <= now
    BY DEF IInv, World
  <1>3. is \in UpRun /\ is.created = now /\ up[r].created = 0
    BY <1>1, <1>2 DEF UpRun, NoRun
  <1> HIDE DEF is
  <1>4. up' = [up EXCEPT ![r] = is] /\ now' = now
    BY <1>1 DEF Edit
  <1>5. \A q \in Run : q # r => up'[q] = up[q]
    BY <1>2, <1>4
  <1>6. up'[r].created = now
    BY <1>2, <1>3, <1>4
  <1>7. \A q \in Run : up[q].created \in Nat
    BY <1>2 DEF UpRun
  <1>8. Hour \in Nat /\ Cap \in Nat
    BY ActionsAssumption
  <1>9. ASSUME NEW t \in Int PROVE Cardinality(Created(t, t + Hour)') < Cap
    <2> DEFINE New == Created(t, t + Hour)'
               Old == Created(t, t + Hour)
               Last == Created(now - Hour, now)
    <2>1. New \in SUBSET Run /\ Old \in SUBSET Run /\ Last \in SUBSET Run
      BY DEF Created
    <2>2. /\ IsFiniteSet(New) /\ Cardinality(New) \in Nat
          /\ IsFiniteSet(Old) /\ Cardinality(Old) \in Nat
          /\ IsFiniteSet(Last) /\ Cardinality(Last) \in Nat
      BY <2>1, RunsAreFew
    <2>3. \A q \in New : q # r => q \in Old
      BY <1>5 DEF Created
    <2>4. CASE r \notin New
      <3>1. New \subseteq Old
        BY <2>3, <2>4
      <3>2. Cardinality(Old) < Cap
        BY <1>2 DEF HoursFit
      <3> HIDE DEF New, Old
      <3>3. Cardinality(New) <= Cardinality(Old)
        BY <2>2, <3>1, FS_Subset
      <3> QED BY <1>8, <2>2, <3>2, <3>3 DEF New
    <2>5. CASE r \in New
      <3>1. t <= now /\ now <= t + Hour
        BY <1>4, <1>6, <2>5 DEF Created
      <3>2. \A q \in Old : q \in Last
        BY <1>2, <1>7, <1>8, <3>1 DEF Created
      <3>3. New \subseteq Last \union {r}
        BY <2>3, <3>2
      <3> HIDE DEF New, Old
      <3>4. /\ IsFiniteSet(Last \union {r}) /\ Cardinality(Last \union {r}) \in Nat
            /\ Cardinality(Last \union {r}) <= Cardinality(Last) + 1
        <4> HIDE DEF Last
        <4>1. /\ IsFiniteSet(Last \union {r})
              /\ \/ Cardinality(Last \union {r}) = Cardinality(Last)
                 \/ Cardinality(Last \union {r}) = Cardinality(Last) + 1
          BY <2>2, FS_AddElement
        <4> QED BY <2>2, <4>1
      <3> HIDE DEF Last
      <3>5. Cardinality(New) <= Cardinality(Last \union {r})
        BY <3>3, <3>4, FS_Subset
      <3>6. Cardinality(Last) < Cap - 1
        BY <1>1 DEF Last
      <3> QED BY <1>8, <2>2, <3>4, <3>5, <3>6 DEF New
    <2> QED BY <2>4, <2>5
  <1>10. HoursFit'
    BY <1>9 DEF HoursFit, Created
  <1> QED BY <1>1, <1>3, <1>10, EditKeeps

LEMMA UpdateKeeps ==
  ASSUME IInv, NEW r \in Run, UpdateRun(r)
  PROVE  IInv'
  <1> DEFINE c == [up[r] EXCEPT !.updated = now]
             is == [c EXCEPT !.version = up[r].version + 1]
  <1>1. Edit(r, is)
    BY DEF UpdateRun
  <1>2. up \in [Run -> UpRun] /\ now \in Nat /\ HoursFit
    BY DEF IInv, World
  <1>3. up[r] \in UpRun
    BY <1>2
  <1>4. c \in UpRun /\ c.created = up[r].created /\ c.version = up[r].version
    BY <1>2, <1>3 DEF UpRun
  <1>5. is \in UpRun /\ is.created = up[r].created
    <2> HIDE DEF c
    <2>1. up[r].version + 1 \in Nat
      BY <1>3 DEF UpRun
    <2> QED BY <1>4, <2>1 DEF UpRun
  <1> HIDE DEF is
  <1>6. up' = [up EXCEPT ![r] = is] /\ now' = now
    BY <1>1 DEF Edit
  <1>7. up' \in [Run -> UpRun] /\ \A q \in Run : up'[q].created = up[q].created
    BY <1>2, <1>5, <1>6
  <1>8. HoursFit'
    <2>1. \A t \in Int : Created(t, t + Hour)' = Created(t, t + Hour)
      BY <1>7 DEF Created
    <2> QED BY <1>2, <2>1 DEF HoursFit
  <1> QED BY <1>1, <1>5, <1>8, EditKeeps

LEMMA StutterKeeps ==
  ASSUME IInv, UNCHANGED vars
  PROVE  IInv'
  <1>1. UNCHANGED <<now, up, mem, disk, pend, mode, phase, from, stop, window, list, job>>
    BY DEF vars
  <1>2. World' /\ Corpora' /\ now \in Nat
    BY <1>1, WorldStays, CorporaStay DEF IInv, World
  <1> QED BY <1>1, <1>2, PassStays DEF IInv

-----------------------------------------------------------------------------
LEMMA InitWorld ==
  ASSUME Init
  PROVE  World
  <1> DEFINE D == DOMAIN InitCreated
             Of(t) == {r \in D : t <= InitCreated[r] /\ InitCreated[r] <= t + Hour}
  <1>1. PICK R \in SUBSET Run : InitCreated \in [R -> 1 .. InitNow]
    BY ActionsAssumption
  <1>2. InitNow \in Nat /\ InitNow <= MaxTime /\ Hour \in Nat /\ Hour > 0 /\ Cap \in Nat /\ Cap > 0
    BY ActionsAssumption
  <1>3. D \in SUBSET Run /\ \A r \in D : InitCreated[r] \in 1 .. InitNow
    BY <1>1
  <1>4. now = InitNow
    BY DEF Init
  <1>5. \A r \in Run : up[r] = IF r \in D THEN [created |-> InitCreated[r], updated |-> InitCreated[r],
                                                version |-> 1]
                               ELSE NoRun
    BY DEF Init
  <1> HIDE DEF D
  <1>6. /\ \A r \in D : up[r] \in UpRun /\ up[r].created = InitCreated[r]
        /\ \A r \in Run : r \notin D => up[r] \in UpRun /\ up[r].created = 0
    <2>1. ASSUME NEW c \in Nat PROVE [created |-> c, updated |-> c, version |-> 1] \in UpRun
      BY DEF UpRun
    <2>2. NoRun \in UpRun /\ NoRun.created = 0
      BY DEF UpRun, NoRun
    <2>3. ASSUME NEW r \in D PROVE up[r] \in UpRun /\ up[r].created = InitCreated[r]
      <3>1. up[r] = [created |-> InitCreated[r], updated |-> InitCreated[r], version |-> 1]
        BY <1>3, <1>5, <2>3
      <3>2. InitCreated[r] \in Nat
        BY <1>2, <1>3, <2>3
      <3> QED BY <2>1, <3>1, <3>2
    <2> QED BY <1>5, <2>2, <2>3
  <1>7. up \in [Run -> UpRun]
    <2>1. up = [r \in Run |-> up[r]]
      BY DEF Init
    <2> QED BY <1>6, <2>1
  <1>8. \A r \in Run : up[r].created <= now
    BY <1>2, <1>3, <1>4, <1>6
  <1>9. ASSUME NEW t \in 0 .. InitNow PROVE Cardinality(Of(t)) < Cap
    BY ActionsAssumption DEF D
  <1>10. ASSUME NEW t \in Int PROVE Cardinality(Created(t, t + Hour)) < Cap
    <2>1. PICK s \in 0 .. InitNow : Created(t, t + Hour) \subseteq Of(s)
      <3>1. \A r \in Created(t, t + Hour) :
              /\ r \in D /\ InitCreated[r] > 0 /\ InitCreated[r] \in Nat /\ InitCreated[r] <= InitNow
              /\ t <= InitCreated[r] /\ InitCreated[r] <= t + Hour
        BY <1>2, <1>3, <1>6 DEF Created
      <3>2. CASE t < 0
        <4>1. Created(t, t + Hour) \subseteq Of(0)
          BY <1>2, <3>1, <3>2
        <4> QED BY <1>2, <4>1
      <3>3. CASE 0 <= t /\ t <= InitNow
        <4>1. Created(t, t + Hour) \subseteq Of(t)
          BY <3>1
        <4> QED BY <1>2, <3>3, <4>1
      <3>4. CASE InitNow < t
        <4>1. Created(t, t + Hour) = {}
          BY <1>2, <3>1, <3>4
        <4> QED BY <1>2, <4>1
      <3> QED BY <1>2, <3>2, <3>3, <3>4
    <2>2. Of(s) \in SUBSET Run /\ Cardinality(Of(s)) < Cap
      BY <1>3, <1>9
    <2>3. Created(t, t + Hour) \in SUBSET Run
      BY DEF Created
    <2> HIDE DEF Of
    <2>4. /\ IsFiniteSet(Of(s)) /\ Cardinality(Of(s)) \in Nat
          /\ Cardinality(Created(t, t + Hour)) \in Nat
      BY <2>2, <2>3, RunsAreFew
    <2>5. Cardinality(Created(t, t + Hour)) <= Cardinality(Of(s))
      BY <2>1, <2>4, FS_Subset
    <2> QED BY <1>2, <2>2, <2>4, <2>5
  <1> QED BY <1>2, <1>4, <1>7, <1>8, <1>10 DEF World, HoursFit

LEMMA InitCorpora ==
  ASSUME Init
  PROVE  Corpora
  <1> DEFINE D == DOMAIN InitCreated
             known(r) == [known |-> TRUE, created |-> up[r].created, updated |-> up[r].updated,
                          version |-> 1, jobs |-> [k \in Job |-> 1]]
  <1>1. PICK R \in (IF mode = "poll" THEN {{}} ELSE SUBSET D) :
          mem = [r \in Run |-> IF r \in R THEN known(r) ELSE Blank]
    BY DEF Init
  <1>2. /\ R \subseteq D /\ (mode = "poll" => R = {})
        /\ disk = mem /\ pend = None
    BY DEF Init
  <1>3. \A r \in Run : r \in D => up[r].created > 0
    <2>1. \A r \in D : InitCreated[r] \in Int /\ InitCreated[r] > 0
      BY ActionsAssumption
    <2> QED BY <2>1 DEF Init
  <1>4. up \in [Run -> UpRun]
    BY InitWorld DEF World
  <1> HIDE DEF D
  <1>5. ASSUME NEW r \in Run
        PROVE  /\ known(r) \in Known /\ known(r).known /\ known(r).created = up[r].created
               /\ Blank \in Known /\ ~ Blank.known
    <2>1. /\ up[r].created \in Nat /\ up[r].updated \in Nat
      BY <1>4 DEF UpRun
    <2>2. ASSUME NEW c \in Nat, NEW u \in Nat, NEW v \in Nat, NEW j \in [Job -> Nat], NEW b \in BOOLEAN
          PROVE  [known |-> b, created |-> c, updated |-> u, version |-> v, jobs |-> j] \in Known
      BY DEF Known
    <2>3. [k \in Job |-> 1] \in [Job -> Nat] /\ NoJobs \in [Job -> Nat]
      BY DEF NoJobs
    <2>4. known(r) \in Known
      BY <2>1, <2>2, <2>3
    <2>5. Blank \in Known
      BY <2>2, <2>3 DEF Blank
    <2> QED BY <2>4, <2>5 DEF Blank
  <1>6. mem \in [Run -> Known] /\ \A r \in Run : mem[r].known => r \in R /\ mem[r].created = up[r].created
    <2>1. \A r \in Run : mem[r] = IF r \in R THEN known(r) ELSE Blank
      BY <1>1
    <2>2. mem = [r \in Run |-> mem[r]]
      BY <1>1
    <2> HIDE DEF known
    <2> QED BY <1>5, <2>1, <2>2
  <1>7. RunsRight(mem) /\ RunsRight(disk)
    BY <1>2, <1>3, <1>6 DEF RunsRight
  <1>8. Pending /\ LogLags
    BY <1>2 DEF Pending, LogLags
  <1>9. mode = "poll" => NoneBehind(mem) /\ NoneBehind(disk)
    BY <1>2, <1>6 DEF NoneBehind
  <1> QED BY <1>7, <1>8, <1>9 DEF Corpora

LEMMA IInvInit == Init => IInv
  <1> SUFFICES ASSUME Init PROVE IInv
    OBVIOUS
  <1>1. phase = "idle"
    BY DEF Init
  <1> QED BY <1>1, InitWorld, InitCorpora DEF IInv, Work, Pass

LEMMA IInvNext == IInv /\ [Next]_vars => IInv'
  <1> SUFFICES ASSUME IInv, [Next]_vars PROVE IInv'
    OBVIOUS
  <1>1. CASE BeginPoll
    BY <1>1, BeginPollKeeps
  <1>2. CASE Fetch
    BY <1>2, FetchKeeps
  <1>3. CASE Bisect
    BY <1>3, BisectKeeps
  <1>4. CASE SyncRun
    BY <1>4, SyncRunKeeps
  <1>5. CASE SyncJob
    BY <1>5, SyncJobKeeps
  <1>6. CASE EndWindow
    BY <1>6, EndWindowKeeps
  <1>7. CASE BeginBackfill \/ NextGap \/ NextRound
    BY <1>7, BackfillKeeps
  <1>8. CASE Rest \/ RequestFails
    BY <1>8, RestKeeps
  <1>9. CASE Log
    BY <1>9, LogKeeps
  <1>10. CASE Crash
    BY <1>10, CrashKeeps
  <1>11. CASE Tick
    BY <1>11, TickKeeps
  <1>12. CASE \E r \in Run : CreateRun(r) \/ UpdateRun(r)
    BY <1>12, CreateKeeps, UpdateKeeps
  <1>13. CASE UNCHANGED vars
    BY <1>13, StutterKeeps
  <1> QED BY <1>1, <1>2, <1>3, <1>4, <1>5, <1>6, <1>7, <1>8, <1>9, <1>10, <1>11, <1>12, <1>13
          DEF Next, Poller

\* What is known when, and what the windows that a poll goes over hold: the invariant
\* that the two below follow from.
THEOREM RunsAreRight == Spec => []IInv
  BY IInvInit, IInvNext, PTL DEF Spec

\* The time of the newest run that a poller has logged is where the next poll begins:
\* no run is older and not known, in the corpus or in one replayed from the log, when
\* requests failed, mutations were lost to a crash or runs came while the poll was on.
THEOREM NothingIsBehind == Spec => []NothingBehindHighWater
  <1>1. IInv => NothingBehindHighWater
    <2> SUFFICES ASSUME IInv, mode = "poll", NEW runs \in {mem, disk}, NEW r \in Run,
                        up[r].created > 0, up[r].created < HighWater(runs)
                 PROVE  runs[r].known
      BY DEF NothingBehindHighWater
    <2>1. RunsRight(runs) /\ NoneBehind(runs) /\ up \in [Run -> UpRun]
      BY DEF IInv, Corpora, World
    <2>2. AllBefore(runs, HighWater(runs))
      BY <2>1, HighWaterHasAllBefore
    <2> QED BY <2>2 DEF AllBefore
  <1> QED BY <1>1, RunsAreRight, PTL

-----------------------------------------------------------------------------
\* The times between which a backfill looks for gaps, and the long ones.
Marks == Times(mem) \union {from, stop}
LongGaps == {g \in Neighbours(Marks) : Long(g)}

\* All runs after a, and no later than b, are known, but for those of the pass's own time.
Had(a, b) ==
  \A r \in Run : up[r].created > 0 /\ a < up[r].created /\ up[r].created <= b
                 /\ up[r].created < stop => mem[r].known
Looked(g) == Had(g[1], g[2])
HadOrListed(a, b) ==
  \A r \in Run : up[r].created > 0 /\ a < up[r].created /\ up[r].created <= b
                 /\ up[r].created < stop => mem[r].known \/ r \in DOMAIN list

\* The gap that a backfill is in, and how far.
Within(g) ==
  /\ window.start \in Nat /\ window.end \in Nat
  /\ g[2] = gap.end /\ g[1] <= window.start /\ window.start < window.end /\ window.end <= g[2]
  /\ \A h \in LongGaps \ gaps : h = g \/ Looked(h)
  /\ phase = "fetch" => Had(g[1], window.start)
  /\ phase = "runs" => \/ \E q \in DOMAIN list : ~ mem[q].known
                       \/ HadOrListed(g[1], window.end)

\* While a round has brought nothing new, the gaps are those it began with.
Round ==
  /\ gaps \subseteq LongGaps
  /\ phase = "gap" => \A g \in LongGaps \ gaps : Looked(g)
  /\ phase \in {"fetch", "runs"} => \E g \in LongGaps : Within(g)

Backfill ==
  /\ phase \in {"idle", "gap", "fetch", "runs", "jobs", "done"}
  /\ gap = [end |-> gap.end, new |-> gap.new] /\ gap.new \in Nat
  /\ phase # "idle" => from \in Nat /\ stop \in Nat /\ stop <= now
  /\ phase = "jobs" => gap.new > 0
  /\ phase \in {"gap", "fetch", "runs"} /\ gap.new = 0 => Round
  /\ phase = "done" => \A g \in LongGaps : Looked(g)

BInv == mode = "backfill" => Backfill

\* And an earliest one.
LEMMA MinIsThere ==
  ASSUME NEW S \in SUBSET Nat, IsFiniteSet(S), S # {}
  PROVE  \E m \in S : \A s \in S : m <= s
  <1> DEFINE Earlier(t) == {s \in S : s < t}
             T == {Earlier(t) : t \in S}
  <1>1. T \subseteq FiniteSubsetsOf(S) /\ T # {}
    <2>1. T \subseteq SUBSET S /\ T # {}
      OBVIOUS
    <2> HIDE DEF T
    <2> QED BY <2>1, FS_FiniteSubsetsOfFinite
  <1>2. PICK X \in T : \A Y \in T : ~ (<<Y, X>> \in StrictSubsetOrdering(S))
    <2> HIDE DEF T
    <2> QED BY <1>1, WFMin, FS_StrictSubsetOrderingWellFounded
  <1>3. PICK t \in S : X = Earlier(t)
    BY <1>2
  <1>4. \A s \in S : t <= s
    <2> SUFFICES ASSUME NEW s \in S, s < t PROVE FALSE
      OBVIOUS
    <2>0. S \subseteq Nat /\ s \in Nat /\ t \in Nat
      OBVIOUS
    <2>1. Earlier(s) \subseteq Earlier(t)
      <3>1. ASSUME NEW x \in S, x < s PROVE x < t
        BY <3>1, <2>0
      <3> QED BY <3>1
    <2>2. s \in Earlier(t) /\ s \notin Earlier(s)
      BY <2>0
    <2>3. <<Earlier(s), Earlier(t)>> \in StrictSubsetOrdering(S)
      BY <2>1, <2>2 DEF StrictSubsetOrdering
    <2> QED BY <1>2, <1>3, <2>3
  <1> QED BY <1>4

\* A time between the first and the last of some has a neighbour on either side.
LEMMA BetweenNeighbours ==
  ASSUME NEW T \in SUBSET Nat, IsFiniteSet(T), NEW a \in T, NEW b \in T, NEW c \in Nat,
         a < c, c <= b
  PROVE  \E g \in Neighbours(T) : g[1] < c /\ c <= g[2]
  <1> DEFINE L == {t \in T : t < c}
             R == {t \in T : c <= t}
  <1>1. L \in SUBSET Nat /\ R \in SUBSET Nat /\ IsFiniteSet(L) /\ IsFiniteSet(R)
        /\ L # {} /\ R # {}
    <2>1. L \in SUBSET T /\ R \in SUBSET T
      OBVIOUS
    <2> HIDE DEF L, R
    <2>2. IsFiniteSet(L) /\ IsFiniteSet(R)
      BY <2>1, FS_Subset
    <2> QED BY <2>1, <2>2 DEF L, R
  <1> HIDE DEF L, R
  <1>2. Max(L) \in L /\ \A t \in L : t <= Max(L)
    BY <1>1, MaxIsThere
  <1>3. PICK m \in R : \A t \in R : m <= t
    BY <1>1, MinIsThere
  <1> DEFINE x == Max(L)
  <1>4. x \in T /\ x < c /\ m \in T /\ c <= m
    BY <1>2, <1>3 DEF L, R
  <1>5. \A t \in T : t <= x \/ m <= t
    BY <1>2, <1>3 DEF L, R
  <1> HIDE DEF x
  <1>6. <<x, m>> \in Neighbours(T)
    BY <1>4, <1>5 DEF Neighbours
  <1> QED BY <1>4, <1>6

LEMMA MarksAre ==
  ASSUME IInv, from \in Nat, stop \in Nat
  PROVE  /\ Marks \in SUBSET Nat /\ IsFiniteSet(Marks) /\ from \in Marks /\ stop \in Marks
         /\ \A r \in Run : mem[r].known => up[r].created \in Marks
  <1> DEFINE K == KnownRuns(mem)
             f == [r \in K |-> mem[r].created]
  <1>1. RunsRight(mem) /\ up \in [Run -> UpRun]
    BY DEF IInv, Corpora, World
  <1>2. \A r \in K : r \in Run /\ mem[r].known /\ mem[r].created = up[r].created
                     /\ mem[r].created \in Nat
    BY <1>1 DEF KnownRuns, RunsRight, UpRun
  <1>3. f \in Surjection(K, Times(mem))
    BY DEF Times, Surjection
  <1>4. IsFiniteSet(K)
    BY RunsAreFew DEF KnownRuns
  <1>5. IsFiniteSet(Times(mem))
    <2> HIDE DEF f, K
    <2> QED BY <1>3, <1>4, FS_Surjection
  <1>6. IsFiniteSet(Marks)
    <2>1. IsFiniteSet({from}) /\ IsFiniteSet({stop})
      BY FS_Singleton
    <2>2. IsFiniteSet({from} \union {stop})
      BY <2>1, FS_Union
    <2>3. IsFiniteSet(Times(mem) \union ({from} \union {stop}))
      BY <1>5, <2>2, FS_Union
    <2>4. Marks = Times(mem) \union ({from} \union {stop})
      BY DEF Marks
    <2> QED BY <2>3, <2>4
  <1>7. Marks \in SUBSET Nat
    BY <1>2 DEF Marks, Times
  <1>8. \A r \in Run : mem[r].known => up[r].created \in Marks
    BY <1>2 DEF Marks, Times, KnownRuns
  <1> QED BY <1>6, <1>7, <1>8 DEF Marks

\* A gap is between marks, with none inside.
LEMMA GapIs ==
  ASSUME IInv, from \in Nat, stop \in Nat, NEW g \in LongGaps
  PROVE  /\ g = <<g[1], g[2]>> /\ g[1] \in Nat /\ g[2] \in Nat /\ g[1] < g[2]
         /\ \A r \in Run : mem[r].known => up[r].created <= g[1] \/ g[2] <= up[r].created
  BY MarksAre DEF LongGaps, Neighbours

\* A list that was cut off has the newest, as many as it may have.
LEMMA CutList ==
  ASSUME NEW S \in SUBSET Run, NEW l \in Listed(S), Cardinality(S) >= Cap
  PROVE  /\ Cardinality(DOMAIN l) = Cap
         /\ \A q \in DOMAIN l, r \in S \ DOMAIN l : up[r].created <= up[q].created
  <1>1. PICK R \in SUBSET NewestOf(S) :
          /\ l = [r \in R |-> up[r]]
          /\ Cardinality(R) = IF Cardinality(S) < Cap THEN Cardinality(S) ELSE Cap
          /\ \A r \in R, q \in S \ R : up[q].created <= up[r].created
    BY DEF Listed
  <1>2. Cap \in Nat /\ Cardinality(S) \in Nat
    BY RunsAreFew, ActionsAssumption
  <1>3. ~ (Cardinality(S) < Cap) /\ DOMAIN l = R
    BY <1>1, <1>2
  <1> QED BY <1>1, <1>3

\* The marks are those of the corpus, and of the pass.
LEMMA MarksStay ==
  ASSUME UNCHANGED <<mem, from, stop>>
  PROVE  Marks' = Marks /\ LongGaps' = LongGaps
  BY DEF Marks, LongGaps

\* What was looked for stays so: no run comes to GitHub from before the pass.
LEMMA HadStays ==
  ASSUME UNCHANGED <<mem, stop>>,
         \A r \in Run : up'[r].created = up[r].created \/ ~ (up'[r].created < stop)
  PROVE  \A a, b : Had(a, b) => Had(a, b)'
  BY DEF Had

LEMMA HadOrListedStays ==
  ASSUME UNCHANGED <<mem, stop, list>>,
         \A r \in Run : up'[r].created = up[r].created \/ ~ (up'[r].created < stop)
  PROVE  \A a, b : HadOrListed(a, b) => HadOrListed(a, b)'
  BY DEF HadOrListed

\* Steps that leave the backfill alone.
LEMMA BackfillStays ==
  ASSUME Backfill, UNCHANGED <<mem, phase, from, stop, window, gaps, gap, list>>,
         phase # "idle" =>
           /\ stop <= now'
           /\ \A r \in Run : up'[r].created = up[r].created \/ ~ (up'[r].created < stop)
  PROVE  Backfill'
  <1>1. CASE phase = "idle"
    BY <1>1 DEF Backfill
  <1>2. CASE phase # "idle"
    <2>1. \A a, b : (Had(a, b) => Had(a, b)') /\ (HadOrListed(a, b) => HadOrListed(a, b)')
      BY <1>2, HadStays, HadOrListedStays
    <2>2. LongGaps' = LongGaps
      BY MarksStay
    <2>3. \A g : Looked(g) => Looked(g)'
      BY <2>1 DEF Looked
    <2>4. \A g : Within(g) => Within(g)'
      BY <2>1, <2>2, <2>3 DEF Within
    <2>5. Round => Round'
      BY <2>2, <2>3, <2>4 DEF Round
    <2> QED BY <1>2, <2>2, <2>3, <2>5 DEF Backfill
  <1> QED BY <1>1, <1>2

\* A round begins with all gaps to look into.
LEMMA RoundBegins ==
  ASSUME BeginRound, mem' = mem, from' \in Nat, stop' \in Nat, stop' <= now'
  PROVE  Backfill'
  <1>1. Gaps = LongGaps'
    BY DEF Gaps, LongGaps, Marks
  <1>2. gaps' = LongGaps' /\ gap' = [end |-> 0, new |-> 0]
        /\ phase' = IF LongGaps' = {} THEN "done" ELSE "gap"
    BY <1>1 DEF BeginRound, NoGap
  <1>3. Round'
    BY <1>2 DEF Round
  <1> QED BY <1>2, <1>3 DEF Backfill

LEMMA BackfillGivesUp == GiveUp => Backfill'
  BY DEF GiveUp, Backfill, NoGap

LEMMA NextGapBackfills ==
  ASSUME IInv, Backfill, NextGap
  PROVE  Backfill'
  <1>1. /\ phase = "gap" /\ gap.new = 0 /\ from \in Nat /\ stop \in Nat /\ stop <= now
        /\ gaps \subseteq LongGaps /\ \A g \in LongGaps \ gaps : Looked(g)
        /\ gap = [end |-> gap.end, new |-> 0]
    BY DEF NextGap, At, Backfill, Round
  <1>2. UNCHANGED <<mem, up, now, from, stop, list>>
    BY DEF NextGap, github, corpus
  <1>3. LongGaps' = LongGaps /\ \A g : Looked(g) => Looked(g)'
    BY <1>2, MarksStay, HadStays DEF Looked
  <1>4. CASE gaps = {}
    <2>1. phase' = "done" /\ UNCHANGED <<gaps, gap>>
      BY <1>4 DEF NextGap
    <2> QED BY <2>1, <1>1, <1>2, <1>3, <1>4 DEF Backfill
  <1>5. ASSUME NEW g \in gaps, gaps' = gaps \ {g}, Created(g[1], g[2]) = {},
               UNCHANGED <<phase, gap>>
        PROVE  Backfill'
    <2>1. Looked(g)
      <3>1. g[1] \in Nat /\ g[2] \in Nat /\ up \in [Run -> UpRun]
        BY <1>1, <1>5, GapIs DEF IInv, World
      <3>2. \A r \in Run : up[r].created \in Nat
        BY <3>1 DEF UpRun
      <3> QED BY <1>5, <3>1, <3>2 DEF Looked, Had, Created
    <2>2. Round'
      BY <1>1, <1>3, <1>5, <2>1 DEF Round
    <2> QED BY <1>1, <1>2, <1>5, <2>2 DEF Backfill
  <1>6. ASSUME NEW g \in gaps, gaps' = gaps \ {g}, phase' = "fetch",
               gap' = [end |-> g[2], new |-> 0],
               window' = Window(g[1], IF g[1] + Day < g[2] THEN g[1] + Day ELSE g[2])
        PROVE  Backfill'
    <2> DEFINE e == IF g[1] + Day < g[2] THEN g[1] + Day ELSE g[2]
    <2>1. g[1] \in Nat /\ g[2] \in Nat /\ g[1] < g[2] /\ Day \in Nat \ {0}
      BY <1>1, <1>6, GapIs, ActionsAssumption
    <2>2. g[1] < e /\ e <= g[2] /\ e \in Nat
      BY <2>1
    <2> HIDE DEF e
    <2>3. window'.start = g[1] /\ window'.end = e
      BY <1>6, WindowIs DEF e
    <2>4. Had(g[1], window.start)'
      BY <2>1, <2>3, <1>2 DEF Had, IInv, World, UpRun
    <2>5. Within(g)'
      <3>1. \A h \in LongGaps' \ gaps' : h = g \/ Looked(h)'
        BY <1>1, <1>3, <1>6
      <3> QED BY <1>6, <2>1, <2>2, <2>3, <2>4, <3>1 DEF Within
    <2>6. Round'
      BY <1>1, <1>3, <1>6, <2>5 DEF Round
    <2> QED BY <1>1, <1>2, <1>6, <2>6 DEF Backfill
  <1> QED BY <1>4, <1>5, <1>6 DEF NextGap

\* A list that is cut off has a run inside the gap, which is new, if it has not all: the
\* runs at the end of the gap are fewer than a list may have.
LEMMA FetchBackfills ==
  ASSUME IInv, mode = "backfill", Backfill, Fetch
  PROVE  Backfill'
  <1> DEFINE S == Created(window.start, window.end)
  <1>1. PICK l \in Listed(S) : list' = l /\ phase' = "runs" /\ window' = window
    BY DEF Fetch
  <1>2. /\ phase = "fetch" /\ UNCHANGED <<now, up, mem, from, stop, gaps, gap>>
        /\ from \in Nat /\ stop \in Nat /\ stop <= now
    BY DEF Fetch, At, github, corpus, Backfill
  <1>3. LongGaps' = LongGaps /\ \A g : Looked(g) => Looked(g)'
    BY <1>2, MarksStay, HadStays DEF Looked
  <1>4. ASSUME gap.new = 0 PROVE Round'
    <2>1. gaps \subseteq LongGaps /\ \E g \in LongGaps : Within(g)
      BY <1>2, <1>4 DEF Backfill, Round
    <2>2. PICK g \in LongGaps : Within(g)
      BY <2>1
    <2>3. /\ g[1] \in Nat /\ g[2] \in Nat
          /\ \A r \in Run : mem[r].known => up[r].created <= g[1] \/ g[2] <= up[r].created
      BY <1>2, GapIs
    <2>4. \A r \in Run : up[r].created \in Nat
      BY DEF IInv, World, UpRun
    <2>5. S \in SUBSET Run /\ DOMAIN l \subseteq S
      BY ListedAreThere DEF Created
    <2>6. ASSUME \A q \in DOMAIN l : mem[q].known,
                 NEW r \in Run, up[r].created > 0, g[1] < up[r].created,
                 up[r].created <= window.end, up[r].created < stop, r \notin DOMAIN l
          PROVE  mem[r].known
      <3>1. CASE up[r].created <= window.start
        BY <1>2, <2>2, <2>6, <3>1 DEF Within, Had
      <3>2. CASE ~ (up[r].created <= window.start)
        <4>2. r \in S
          <5>1. window.start <= up[r].created
            BY <3>2, <2>2, <2>4 DEF Within
          <5> QED BY <5>1, <2>6 DEF Created
        <4>3. Cardinality(S) >= Cap
          <5>1. ~ (Cardinality(S) < Cap)
            BY <2>5, <2>6, <4>2, WholeList
          <5> QED BY <5>1, <2>5, RunsAreFew, ActionsAssumption
        <4>4. /\ Cardinality(DOMAIN l) = Cap
              /\ \A q \in DOMAIN l : up[r].created <= up[q].created
          BY <2>5, <2>6, <4>2, <4>3, CutList
        <4>5. ASSUME NEW q \in DOMAIN l PROVE up[q].created = g[2] /\ q \in Run
          <5>1. q \in Run /\ mem[q].known /\ up[q].created <= window.end
            BY <2>5, <2>6 DEF Created
          <5>2. g[1] < up[q].created
            BY <2>3, <2>4, <2>6, <4>4, <5>1
          <5>3. g[2] <= up[q].created
            BY <2>3, <2>4, <5>1, <5>2
          <5> QED BY <2>2, <2>3, <2>4, <5>1, <5>3 DEF Within
        <4>6. DOMAIN l \subseteq Created(g[2], g[2] + Hour)
          <5>1. Hour \in Nat
            BY ActionsAssumption
          <5> QED BY <2>3, <2>4, <2>6, <4>4, <4>5, <5>1 DEF Created
        <4>7. Cardinality(Created(g[2], g[2] + Hour)) < Cap
          BY <2>3 DEF IInv, World, HoursFit
        <4>8. Created(g[2], g[2] + Hour) \in SUBSET Run
          BY DEF Created
        <4>9. Cardinality(DOMAIN l) <= Cardinality(Created(g[2], g[2] + Hour))
          BY <4>6, <4>8, RunsAreFew, FS_Subset
        <4> QED BY <4>4, <4>7, <4>8, <4>9, RunsAreFew, ActionsAssumption
      <3> QED BY <3>1, <3>2
    <2>7. (\E q \in DOMAIN list' : ~ mem'[q].known) \/ HadOrListed(g[1], window.end)'
      <3>1. (\E q \in DOMAIN l : ~ mem[q].known)
            \/ \A r \in Run : up[r].created > 0 /\ g[1] < up[r].created
                              /\ up[r].created <= window.end /\ up[r].created < stop
                              => mem[r].known \/ r \in DOMAIN l
        BY <2>6
      <3> QED BY <3>1, <1>1, <1>2 DEF HadOrListed
    <2>8. Within(g)'
      <3>1. \A h \in LongGaps' \ gaps' : h = g \/ Looked(h)'
        BY <2>2, <1>2, <1>3 DEF Within
      <3>2. /\ window.start \in Nat /\ window.end \in Nat /\ g[2] = gap.end
            /\ g[1] <= window.start /\ window.start < window.end /\ window.end <= g[2]
        BY <2>2 DEF Within
      <3> QED BY <3>1, <3>2, <2>7, <1>1, <1>2 DEF Within
    <2> QED BY <2>1, <2>8, <1>1, <1>2, <1>3 DEF Round
  <1> QED BY <1>1, <1>2, <1>4 DEF Backfill

LEMMA SyncRunBackfills ==
  ASSUME IInv, mode = "backfill", Backfill, SyncRun
  PROVE  Backfill'
  <1>1. PICK r \in Oldest(list) :
          /\ list' = [q \in DOMAIN list \ {r} |-> list[q]]
          /\ IF mem[r].known /\ mem[r].updated = list[r].updated
             THEN UNCHANGED <<corpus, phase, gap, job>>
             ELSE phase' = "jobs" /\ gap' = [gap EXCEPT !.new = @ + 1]
    BY DEF SyncRun
  <1>2. /\ phase = "runs" /\ UNCHANGED <<now, up, from, stop, window, gaps>>
        /\ from \in Nat /\ stop \in Nat /\ stop <= now
        /\ gap = [end |-> gap.end, new |-> gap.new] /\ gap.new \in Nat
    BY DEF SyncRun, At, github, Backfill
  <1>3. r \in Run
    BY <1>2 DEF IInv, Work, ListRight, Oldest
  <1>4. CASE mem[r].known /\ mem[r].updated = list[r].updated
    <2>1. UNCHANGED <<mem, phase, gap>> /\ DOMAIN list' = DOMAIN list \ {r}
      BY <1>1, <1>4 DEF corpus
    <2>2. LongGaps' = LongGaps /\ \A g : Looked(g) => Looked(g)'
      BY <1>2, <2>1, MarksStay, HadStays DEF Looked
    <2>3. ASSUME gap.new = 0 PROVE Round'
      <3>1. PICK g \in LongGaps : Within(g)
        BY <1>2, <2>3 DEF Backfill, Round
      <3>2. gaps \subseteq LongGaps
        BY <1>2, <2>3 DEF Backfill, Round
      <3>3. (\E q \in DOMAIN list' : ~ mem'[q].known) \/ HadOrListed(g[1], window.end)'
        <4>1. CASE \E q \in DOMAIN list : ~ mem[q].known
          BY <4>1, <2>1, <1>4
        <4>2. CASE HadOrListed(g[1], window.end)
          BY <4>2, <2>1, <1>2, <1>4 DEF HadOrListed
        <4> QED BY <4>1, <4>2, <3>1, <1>2 DEF Within
      <3>4. Within(g)'
        <4>1. \A h \in LongGaps' \ gaps' : h = g \/ Looked(h)'
          BY <3>1, <1>2, <2>2 DEF Within
        <4>2. /\ window.start \in Nat /\ window.end \in Nat /\ g[2] = gap.end
              /\ g[1] <= window.start /\ window.start < window.end /\ window.end <= g[2]
          BY <3>1 DEF Within
        <4> QED BY <4>1, <4>2, <3>3, <2>1, <1>2 DEF Within
      <3> QED BY <3>2, <3>4, <2>1, <2>2, <1>2 DEF Round
    <2> QED BY <2>1, <2>3, <1>2 DEF Backfill
  <1>5. CASE ~ (mem[r].known /\ mem[r].updated = list[r].updated)
    <2>1. phase' = "jobs" /\ gap' = [gap EXCEPT !.new = @ + 1]
      BY <1>1, <1>5
    <2>2. gap' = [end |-> gap.end, new |-> gap.new + 1]
      BY <2>1, <1>2
    <2> QED BY <2>1, <2>2, <1>2 DEF Backfill
  <1> QED BY <1>4, <1>5

LEMMA SyncJobBackfills ==
  ASSUME Backfill, SyncJob
  PROVE  Backfill'
  <1>1. phase = "jobs" /\ phase' \in {"runs", "jobs"}
        /\ UNCHANGED <<now, from, stop, window, gaps, gap>>
    BY DEF SyncJob, At, github
  <1>2. gap.new > 0 /\ gap.new \in Nat
    BY <1>1 DEF Backfill
  <1> QED BY <1>1, <1>2 DEF Backfill

LEMMA EndWindowBackfills ==
  ASSUME IInv, mode = "backfill", Backfill, EndWindow
  PROVE  Backfill'
  <1> DEFINE e == IF window.end + Day < gap.end THEN window.end + Day ELSE gap.end
             w == Window(window.end, e)
  <1>1. /\ phase = "runs" /\ list = Nothing
        /\ UNCHANGED <<now, up, mem, from, stop, gaps, gap, list>>
        /\ from \in Nat /\ stop \in Nat /\ stop <= now
        /\ gap = [end |-> gap.end, new |-> gap.new] /\ gap.new \in Nat
    BY DEF EndWindow, At, github, corpus, Backfill
  <1>2. IF w.start < w.end THEN phase' = "fetch" /\ window' = w ELSE phase' = "gap"
    BY DEF EndWindow, NextWindow
  <1>3. w.start = window.end /\ w.end = e
    BY WindowIs
  <1> HIDE DEF w
  <1>4. LongGaps' = LongGaps /\ \A g : Looked(g) => Looked(g)'
    BY <1>1, MarksStay, HadStays DEF Looked
  <1>5. ASSUME gap.new = 0 PROVE Round'
    <2>1. PICK g \in LongGaps : Within(g)
      BY <1>1, <1>5 DEF Backfill, Round
    <2>2. gaps \subseteq LongGaps
      BY <1>1, <1>5 DEF Backfill, Round
    <2>3. /\ g[1] \in Nat /\ g[2] \in Nat /\ g[2] = gap.end /\ g[1] <= window.start
          /\ window.start < window.end /\ window.end <= g[2]
          /\ \A h \in LongGaps \ gaps : h = g \/ Looked(h)
      BY <1>1, <2>1, GapIs DEF Within
    <2>4. Had(g[1], window.end)
      <3>1. DOMAIN list = {}
        BY <1>1 DEF Nothing
      <3>2. HadOrListed(g[1], window.end)
        BY <1>1, <2>1, <3>1 DEF Within
      <3> QED BY <3>1, <3>2 DEF HadOrListed, Had
    <2>5. e \in Nat /\ window.end \in Nat
      BY <2>1, <2>3, ActionsAssumption DEF Within
    <2>6. CASE w.start < w.end
      <3>1. phase' = "fetch" /\ window' = w
        BY <1>2, <2>6
      <3>2. window.end < e
        BY <1>3, <2>6
      <3>3. e <= g[2] /\ g[1] <= window.end
        <4>1. Day \in Nat \ {0} /\ window.start \in Nat
          BY <2>1, ActionsAssumption DEF Within
        <4> QED BY <3>2, <2>3, <2>5, <4>1
      <3>4. Had(g[1], window.start)'
        BY <2>4, <3>1, <1>1, <1>3 DEF Had
      <3>5. Within(g)'
        BY <3>1, <3>2, <3>3, <3>4, <2>3, <2>5, <1>1, <1>3, <1>4 DEF Within
      <3> QED BY <2>2, <3>1, <3>5, <1>1, <1>4 DEF Round
    <2>7. CASE ~ (w.start < w.end)
      <3>1. phase' = "gap"
        BY <1>2, <2>7
      <3>2. window.end = g[2]
        BY <2>3, <2>5, <2>7, <1>3, ActionsAssumption
      <3>3. Looked(g)
        BY <2>4, <3>2 DEF Looked
      <3>4. \A h \in LongGaps' \ gaps' : Looked(h)'
        BY <2>3, <3>3, <1>1, <1>4
      <3> QED BY <2>2, <3>1, <3>4, <1>1, <1>4 DEF Round
    <2> QED BY <2>6, <2>7
  <1>6. phase' \in {"fetch", "gap"}
    BY <1>2
  <1> QED BY <1>1, <1>5, <1>6 DEF Backfill

LEMMA BackfillNext ==
  ASSUME IInv, mode = "backfill", Backfill, [Next]_vars
  PROVE  Backfill'
  <1>1. CASE Log
    <2>1. UNCHANGED <<now, up, mem, phase, from, stop, window, gaps, gap, list>>
      BY <1>1 DEF Log, github
    <2> QED BY <2>1, BackfillStays DEF Backfill
  <1>2. CASE Tick
    <2>1. UNCHANGED <<up, mem, phase, from, stop, window, gaps, gap, list>> /\ now' = now + 1
      BY <1>2 DEF Tick
    <2>2. phase # "idle" => stop <= now'
      BY <2>1 DEF Backfill, IInv, World
    <2> QED BY <2>1, <2>2, BackfillStays
  <1>3. ASSUME NEW r \in Run, CreateRun(r) \/ UpdateRun(r) PROVE Backfill'
    <2>1. UNCHANGED <<now, mem, phase, from, stop, window, gaps, gap, list>>
      BY <1>3 DEF CreateRun, UpdateRun, Edit
    <2>2. up \in [Run -> UpRun] /\ now \in Nat
      BY DEF IInv, World
    <2>3. CASE CreateRun(r)
      <3>1. up' = [up EXCEPT ![r] = [created |-> now, updated |-> now, version |-> 1]]
        BY <2>3 DEF CreateRun, Edit
      <3>2. \A q \in Run : up'[q].created = up[q].created \/ up'[q].created = now
        BY <2>2, <3>1
      <3>3. phase # "idle" => stop \in Nat /\ stop <= now
        BY DEF Backfill
      <3> QED BY <2>1, <2>2, <3>2, <3>3, BackfillStays
    <2>4. CASE UpdateRun(r)
      <3> DEFINE is == [up[r] EXCEPT !.updated = now, !.version = @ + 1]
      <3>1. up' = [up EXCEPT ![r] = is]
        BY <2>4 DEF UpdateRun, Edit
      <3>2. is.created = up[r].created
        BY <2>2 DEF UpRun
      <3> HIDE DEF is
      <3>3. \A q \in Run : up'[q].created = up[q].created
        BY <2>2, <3>1, <3>2
      <3> QED BY <2>1, <3>3, BackfillStays DEF Backfill
    <2> QED BY <1>3, <2>3, <2>4
  <1>4. CASE BeginBackfill
    <2>1. BeginRound /\ mem' = mem /\ from' = Since /\ stop' = now /\ now' = now
      BY <1>4 DEF BeginBackfill, github, corpus
    <2>2. now \in Nat /\ Since \in Nat
      BY ActionsAssumption DEF IInv, World
    <2> QED BY <2>1, <2>2, RoundBegins
  <1>5. CASE NextRound
    <2>1. phase = "gap" /\ BeginRound /\ UNCHANGED <<mem, from, stop, now>>
      BY <1>5 DEF NextRound, At, github, corpus
    <2>2. from \in Nat /\ stop \in Nat /\ stop <= now
      BY <2>1 DEF Backfill
    <2> QED BY <2>1, <2>2, RoundBegins
  <1>6. CASE Rest
    <2>1. phase' = "idle" /\ gap' = gap
      BY <1>6 DEF Rest
    <2> QED BY <2>1 DEF Backfill
  <1>7. CASE RequestFails \/ Crash
    BY <1>7, BackfillGivesUp DEF RequestFails, Crash
  <1>8. CASE BeginPoll \/ Bisect
    BY <1>8 DEF BeginPoll, Bisect, At, Backfill
  <1>9. CASE UNCHANGED vars
    <2>1. UNCHANGED <<now, up, mem, phase, from, stop, window, gaps, gap, list>>
      BY <1>9 DEF vars
    <2> QED BY <2>1, BackfillStays DEF Backfill
  <1> QED BY <1>1, <1>2, <1>3, <1>4, <1>5, <1>6, <1>7, <1>8, <1>9, FetchBackfills,
             SyncRunBackfills, SyncJobBackfills, EndWindowBackfills, NextGapBackfills
          DEF Next, Poller

LEMMA BInvHolds == Spec => []BInv
  <1>1. Init => BInv
    BY DEF Init, BInv, Backfill, NoGap
  <1>2. [Next]_vars => mode' = mode
    BY DEF Next, vars, Poller, BeginPoll, BeginBackfill, Fetch, Bisect, SyncRun, SyncJob,
           EndWindow, NextGap, NextRound, Rest, Log, RequestFails, Crash, Tick, CreateRun,
           UpdateRun, Edit
  <1>3. IInv /\ BInv /\ [Next]_vars => BInv'
    BY <1>2, BackfillNext DEF BInv
  <1> QED BY <1>1, <1>3, RunsAreRight, PTL DEF Spec

\* A pass that has come to its end has all runs of its span, but for those that a backfill
\* does not look for: between two known ones no more than an hour apart, or of its very
\* beginning.  A gap that brought nothing new was empty, whatever the limit on an answer:
\* a list that was cut off would have had a run inside the gap, which is new.
THEOREM PassesAreComplete == Spec => []PassIsComplete
  <1>1. ASSUME IInv, mode = "backfill", Backfill, phase = "done",
               NEW r \in Run, up[r].created > 0, ~ mem[r].known,
               from <= up[r].created, up[r].created < stop, up[r].created # from
        PROVE  \E g \in Neighbours(Marks) :
                 ~ Long(g) /\ g[1] <= up[r].created /\ up[r].created <= g[2]
    <2>1. from \in Nat /\ stop \in Nat /\ up[r].created \in Nat
      BY <1>1 DEF Backfill, IInv, World, UpRun
    <2>2. Marks \in SUBSET Nat /\ IsFiniteSet(Marks) /\ from \in Marks /\ stop \in Marks
      BY <1>1, <2>1, MarksAre
    <2>3. PICK g \in Neighbours(Marks) : g[1] < up[r].created /\ up[r].created <= g[2]
      BY <1>1, <2>1, <2>2, BetweenNeighbours
    <2>4. ~ Long(g)
      <3> SUFFICES ASSUME Long(g) PROVE FALSE
        OBVIOUS
      <3>1. g \in LongGaps
        BY <2>3 DEF LongGaps
      <3>2. Looked(g)
        BY <1>1, <3>1 DEF Backfill
      <3> QED BY <1>1, <2>3, <3>2 DEF Looked, Had
    <2>5. g[1] \in Nat
      BY <2>2 DEF Neighbours
    <2> QED BY <2>1, <2>3, <2>4, <2>5
  <1>2. IInv /\ BInv => PassIsComplete
    <2> SUFFICES ASSUME IInv, BInv, phase = "done", NEW r \in Run, up[r].created > 0,
                        ~ mem[r].known, from <= up[r].created, up[r].created < stop
                 PROVE  /\ mode = "backfill"
                        /\ \/ up[r].created = from
                           \/ \E g \in Neighbours(Times(mem) \union {from, stop}) :
                                ~ Long(g) /\ g[1] <= up[r].created /\ up[r].created <= g[2]
      BY DEF PassIsComplete
    <2>1. mode = "backfill"
      BY DEF IInv, Pass, Got
    <2> QED BY <2>1, <1>1 DEF BInv, Marks
  <1> QED BY <1>2, RunsAreRight, BInvHolds, PTL
=============================================================================
