------------------------------ MODULE LongPoll ------------------------------
(***************************************************************************)
(* waitSizeNot, the same in DiskLog and in GCSLog: the handler of a long   *)
(* poll sleeps on the log's condition variable until the total size is not *)
(* the one the client knows, or the request's context expires.  A second   *)
(* goroutine per poll broadcasts when the context expires.                 *)
(*                                                                         *)
(* sync.Cond: Wait enters the list of sleepers and then releases the       *)
(* mutex, Broadcast wakes those in the list and nobody else, a woken one   *)
(* takes the mutex again before Wait returns.                              *)
(***************************************************************************)
EXTENDS Naturals

CONSTANTS
  LongPolls,  \* handlers of long polls, each serves one request after another
  MaxSize     \* bound: total size of the log

ASSUME LongPollAssumption == MaxSize \in Nat

VARIABLES
  size,     \* sumSizeLocked()
  holders,  \* who holds the mutex: nobody, or one poll
  pc,       \* where each poll's handler is
  known,    \* the waitsizenot parameter of its request
  expired,  \* the polls whose context is done
  watching, \* the polls whose waitSizeNotAwaitContext goroutine still runs
  answer    \* the size of the index last answered to the poll

pollVars == <<size, holders, pc, known, expired, watching, answer>>

Waiting == {"lock", "check", "wait", "asleep", "woken"}
Places == Waiting \union {"idle", "changed", "unchanged"}

PollInit ==
  /\ size = 0
  /\ holders = {}
  /\ pc = [w \in LongPolls |-> "idle"]
  /\ known = [w \in LongPolls |-> 0]
  /\ expired = {} /\ watching = {}
  /\ answer = [w \in LongPolls |-> 0]

\* cond.Broadcast wakes the sleepers of this moment.
Woken(at) == [w \in LongPolls |-> IF at[w] = "asleep" THEN "woken" ELSE at[w]]

\* Mutant: cond.Signal instead of cond.Broadcast.
GrowSignalling ==
  /\ size < MaxSize /\ holders = {}
  /\ size' = size + 1
  /\ \/ pc' = pc /\ \A w \in LongPolls : pc[w] # "asleep"
     \/ \E w \in LongPolls : pc[w] = "asleep" /\ pc' = [pc EXCEPT ![w] = "woken"]
  /\ UNCHANGED <<holders, known, expired, watching, answer>>

\* The log grows: Log, or DiskLog.poll for what another process has written, adds to
\* the total and broadcasts, under the mutex.
Grow ==
  /\ size < MaxSize /\ holders = {}
  /\ size' = size + 1
  /\ pc' = Woken(pc)
  /\ UNCHANGED <<holders, known, expired, watching, answer>>

\* serveJSONLogsIndex: a request that knows a total of v; the second goroutine starts.
\* (That of the request before has ended; if it had not, it could only wake a
\* sleeper once more, who then looks again.)
Request(w) ==
  /\ pc[w] = "idle" /\ w \notin watching
  /\ \E v \in 0..MaxSize : known' = [known EXCEPT ![w] = v]
  /\ pc' = [pc EXCEPT ![w] = "lock"]
  /\ expired' = expired \ {w}
  /\ watching' = watching \union {w}
  /\ UNCHANGED <<size, holders, answer>>

\* Mutant: the mutex is not taken.
LockNothing(w) ==
  /\ pc[w] \in {"lock", "woken"}
  /\ holders' = holders \union {w}
  /\ pc' = [pc EXCEPT ![w] = "check"]
  /\ UNCHANGED <<size, known, expired, watching, answer>>

\* mu.Lock, at the start or when cond.Wait returns.
Lock(w) ==
  /\ pc[w] \in {"lock", "woken"} /\ holders = {}
  /\ holders' = {w}
  /\ pc' = [pc EXCEPT ![w] = "check"]
  /\ UNCHANGED <<size, known, expired, watching, answer>>

\* The total is another one: true, whether or not the context has expired too.
ReturnChanged(w) ==
  /\ pc[w] = "check" /\ size # known[w]
  /\ holders' = {}
  /\ pc' = [pc EXCEPT ![w] = "changed"]
  /\ UNCHANGED <<size, known, expired, watching, answer>>

\* Mutant: the context is looked at first.
ReturnUnchangedFirst(w) ==
  /\ pc[w] = "check" /\ w \in expired
  /\ holders' = {}
  /\ pc' = [pc EXCEPT ![w] = "unchanged"]
  /\ UNCHANGED <<size, known, expired, watching, answer>>

\* The context is done: false, and a 304.
ReturnUnchanged(w) ==
  /\ pc[w] = "check" /\ size = known[w] /\ w \in expired
  /\ holders' = {}
  /\ pc' = [pc EXCEPT ![w] = "unchanged"]
  /\ UNCHANGED <<size, known, expired, watching, answer>>

\* Neither: the select's default case has been chosen, cond.Wait is next.
ChooseWait(w) ==
  /\ pc[w] = "check" /\ size = known[w] /\ w \notin expired
  /\ pc' = [pc EXCEPT ![w] = "wait"]
  /\ UNCHANGED <<size, holders, known, expired, watching, answer>>

\* cond.Wait: into the list, and the mutex is released.
Sleep(w) ==
  /\ pc[w] = "wait"
  /\ pc' = [pc EXCEPT ![w] = "asleep"]
  /\ holders' = {}
  /\ UNCHANGED <<size, known, expired, watching, answer>>

\* The 55 seconds are over, or the client has gone.
Expire(w) ==
  /\ w \in watching /\ w \notin expired
  /\ expired' = expired \union {w}
  /\ UNCHANGED <<size, holders, pc, known, watching, answer>>

\* waitSizeNotAwaitContext: the context is done; broadcast, without the mutex.
WakeOnExpiry(w) ==
  /\ w \in watching /\ w \in expired
  /\ pc' = Woken(pc)
  /\ watching' = watching \ {w}
  /\ UNCHANGED <<size, holders, known, expired, answer>>

\* waitSizeNotAwaitContext: waitSizeNot has returned.
WatchReturned(w) ==
  /\ w \in watching /\ pc[w] \in {"changed", "unchanged", "idle"}
  /\ watching' = watching \ {w}
  /\ UNCHANGED <<size, holders, pc, known, expired, answer>>

\* The handler answers a 304, or the index, read under the mutex taken once more.
Answer(w) ==
  /\ \/ /\ pc[w] = "changed" /\ holders = {}
        /\ answer' = [answer EXCEPT ![w] = size]
     \/ pc[w] = "unchanged" /\ UNCHANGED answer
  /\ pc' = [pc EXCEPT ![w] = "idle"]
  /\ UNCHANGED <<size, holders, known, expired, watching>>

Handler(w) == Lock(w) \/ ReturnChanged(w) \/ ReturnUnchanged(w) \/ ChooseWait(w) \/ Sleep(w)

PollNext ==
  \/ Grow
  \/ \E w \in LongPolls :
       \/ Request(w) \/ Handler(w) \/ Answer(w)
       \/ Expire(w) \/ WakeOnExpiry(w) \/ WatchReturned(w)

PollSpec == PollInit /\ [][PollNext]_pollVars

\* Goroutines go on, whoever waits for a sync.Mutex gets it in the end (its
\* starvation mode), and a context with a timeout expires.  Nothing is ever logged
\* for sure.
Fairness ==
  \A w \in LongPolls :
    /\ SF_pollVars(Lock(w)) /\ SF_pollVars(Answer(w)) /\ WF_pollVars(Handler(w))
    /\ WF_pollVars(Expire(w)) /\ WF_pollVars(WakeOnExpiry(w)) /\ WF_pollVars(WatchReturned(w))

FairPollSpec == PollSpec /\ Fairness

-----------------------------------------------------------------------------
\* Values have their types; the mutex has at most one holder, a poll between its
\* Lock and its Unlock or Wait.
TypeOK ==
  /\ size \in 0..MaxSize
  /\ pc \in [LongPolls -> Places]
  /\ known \in [LongPolls -> 0..MaxSize] /\ answer \in [LongPolls -> 0..MaxSize]
  /\ expired \subseteq LongPolls /\ watching \subseteq LongPolls
  /\ holders = {w \in LongPolls : pc[w] \in {"check", "wait"}}
  /\ \A v, w \in holders : v = w

\* No poll sleeps through a growth of the log: whoever sleeps, or is about to while
\* it holds the mutex, knows the present total ("?waitsizenot=NNN" long polling).
SleepersAreUpToDate ==
  \A w \in LongPolls : pc[w] \in {"wait", "asleep"} => size = known[w]

\* Once the log is bigger than what a poll knows, the poll is answered with an
\* index, and the index is as new: it is not told 304 even if its time is over.
GrowthIsAnswered ==
  \A w \in LongPolls :
    (pc[w] \in Waiting /\ size > known[w]) ~> (pc[w] = "idle" /\ answer[w] > known[w])
=============================================================================
