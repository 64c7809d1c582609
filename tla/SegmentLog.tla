----------------------------- MODULE SegmentLog -----------------------------
(***************************************************************************)
(* The leader's log as its HTTP handlers serve it: one run of records cut  *)
(* into numbered segments, all frozen except the last, which grows.  This  *)
(* is what a follower relies on, whichever of DiskLog and GCSLog serves    *)
(* it; both logs' index handlers return exactly this shape.                *)
(*                                                                         *)
(* A record is one unit of size.  Records may repeat: a leader that lost   *)
(* some by a restart syncs again and may log equal ones.  A segment's      *)
(* SHA-224 is its content, so equal sums mean equal contents.              *)
(***************************************************************************)
EXTENDS Naturals, Sequences

CONSTANTS
  Record,       \* what may be logged
  MaxLog,       \* bound: records of the log
  MaxSegs,      \* bound: segments of the log
  MaxRestarts   \* bound: restarts of the leader

ASSUME SegmentLogAssumption ==
  MaxLog \in Nat /\ MaxSegs \in Nat \ {0} /\ MaxRestarts \in Nat

VARIABLES
  lives,      \* lives[e]: the records of the leader's e-th life
  bounds,     \* bounds[i]: where frozen segment i ends
  committed,  \* how many records would survive a crash now
  kept        \* kept[e]: how many records the e-th life recovered

logVars == <<lives, bounds, committed, kept>>

Served == lives[Len(lives)]

EndOf(cuts) == IF cuts = <<>> THEN 0 ELSE cuts[Len(cuts)]

\* The JSON index: every frozen segment, and the growing one unless it is empty.
Index ==
  [bytes  |-> Served,
   ends   |-> IF Len(Served) > EndOf(bounds) THEN Append(bounds, Len(Served)) ELSE bounds,
   frozen |-> Len(bounds)]

LogInit ==
  /\ lives = << <<>> >>
  /\ bounds = <<>>
  /\ committed = 0
  /\ kept = <<0>>

\* The leader logs a mutation.  A day's end (DiskLog) or a full buffer (GCSLog)
\* first freezes the growing segment, which commits it.
Log(r, roll, synced) ==
  /\ Len(Served) < MaxLog
  /\ roll => Len(Served) > EndOf(bounds) /\ Len(bounds) + 1 < MaxSegs
  /\ lives' = [lives EXCEPT ![Len(lives)] = Append(@, r)]
  /\ bounds' = IF roll THEN Append(bounds, Len(Served)) ELSE bounds
  /\ committed' = IF synced THEN Len(Served) + 1
                  ELSE IF roll THEN Len(Served) ELSE committed
  /\ UNCHANGED kept

\* The growing segment reaches stable storage.
Flush ==
  /\ committed < Len(Served)
  /\ committed' = Len(Served)
  /\ UNCHANGED <<lives, bounds, kept>>

\* The leader's process restarts: records not committed are gone.  The last stored
\* segment may be taken up again as the growing one, and the growing one, if some
\* of it is stored, may be left as it is.
Restart(cut) ==
  /\ Len(lives) <= MaxRestarts
  /\ lives' = Append(lives, SubSeq(Served, 1, committed))
  /\ \/ cut = "same" /\ bounds' = bounds
     \/ /\ cut = "reopen" /\ bounds # <<>> /\ committed = EndOf(bounds)
        /\ bounds' = SubSeq(bounds, 1, Len(bounds) - 1)
     \/ /\ cut = "freeze" /\ committed > EndOf(bounds) /\ Len(bounds) + 1 < MaxSegs
        /\ bounds' = Append(bounds, committed)
  /\ kept' = Append(kept, committed)
  /\ UNCHANGED committed

LeaderNext ==
  \/ \E r \in Record, roll, synced \in BOOLEAN : Log(r, roll, synced)
  \/ Flush
  \/ \E cut \in {"same", "reopen", "freeze"} : Restart(cut)

LeaderSpec == LogInit /\ [][LeaderNext]_logVars
=============================================================================
