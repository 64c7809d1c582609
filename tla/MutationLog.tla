---------------------------- MODULE MutationLog ----------------------------
(***************************************************************************)
(* What replication of the corpus promises, with no segments, files,       *)
(* channels or polling: a leader owns an append-only log of mutations, and *)
(* a follower applies, in order and at most once, the records of one       *)
(* history of that log.                                                    *)
(*                                                                         *)
(* The leader may restart having lost records it had not committed yet     *)
(* (maintner.go, the comment of ErrSplit); its log then goes on from a     *)
(* shorter prefix.  lives[e] is everything the leader's e-th life logged,  *)
(* the kept[e] records it recovered included.  A follower that finds its   *)
(* own past missing from the leader's log stops for good.                  *)
(*                                                                         *)
(* A follower's call may be cut short, by the context its caller gave or   *)
(* by an error in the middle of a batch.  The records it was about to be   *)
(* given are then skipped: they keep their place in what it has processed, *)
(* as Skipped, and are never processed.                                    *)
(***************************************************************************)
EXTENDS Naturals, Sequences

CONSTANTS
  Mutation,  \* the mutations that may be logged
  Skipped    \* stands for a mutation that the follower has missed

VARIABLES
  lives,    \* lives[e]: the log of the leader's e-th life
  kept,     \* kept[e]: how many records that life recovered from the one before
  applied,  \* the mutations the follower's corpus has processed, in order
  split,    \* the follower has reported ErrSplit
  faults    \* how often the follower has restarted or a call of it was cut short

absVars == <<lives, kept, applied, split, faults>>

Current == lives[Len(lives)]

\* s is t up to some point, with records missing from it.
Along(s, t) == Len(s) <= Len(t) /\ \A p \in 1..Len(s) : s[p] \in {t[p], Skipped}

AbsInit ==
  /\ lives = << <<>> >>
  /\ kept = <<0>>
  /\ applied = <<>>
  /\ split = FALSE
  /\ faults = 0

\* The leader logs one more mutation.
LeaderLogs ==
  /\ \E m \in Mutation : lives' = [lives EXCEPT ![Len(lives)] = Append(@, m)]
  /\ UNCHANGED <<kept, applied, split, faults>>

\* The leader restarts from what it had committed.
LeaderRestarts ==
  /\ \E n \in 0..Len(Current) :
       /\ lives' = Append(lives, SubSeq(Current, 1, n))
       /\ kept' = Append(kept, n)
  /\ UNCHANGED <<applied, split, faults>>

\* The follower processes the next record of a history that continues its own.
FollowerApplies ==
  /\ ~split
  /\ \E e \in 1..Len(lives) :
       /\ Along(applied, lives[e])
       /\ Len(applied) < Len(lives[e])
       /\ applied' = Append(applied, lives[e][Len(applied) + 1])
  /\ UNCHANGED <<lives, kept, split, faults>>

\* The follower reports a split: a restart of the leader lost records that the
\* follower has processed.
FollowerSplits ==
  /\ ~split
  /\ \E e \in 2..Len(kept) : kept[e] < Len(applied)
  /\ split' = TRUE
  /\ UNCHANGED <<lives, kept, applied, faults>>

\* A call of the follower is cut short: some records that follow what it has processed,
\* in a history that continues its own, are skipped.
CallCutShort ==
  /\ ~split
  /\ \E e \in 1..Len(lives) : \E n \in 0..(Len(lives[e]) - Len(applied)) :
       /\ Along(applied, lives[e])
       /\ applied' = applied \o [p \in 1..n |-> Skipped]
  /\ faults' = faults + 1
  /\ UNCHANGED <<lives, kept, split>>

\* The follower's process starts again with an empty corpus.
FollowerRestarts ==
  /\ applied' = <<>>
  /\ split' = FALSE
  /\ faults' = faults + 1
  /\ UNCHANGED <<lives, kept>>

AbsNext ==
  \/ LeaderLogs \/ LeaderRestarts
  \/ FollowerApplies \/ FollowerSplits \/ CallCutShort \/ FollowerRestarts

AbsSpec == AbsInit /\ [][AbsNext]_absVars
=============================================================================
