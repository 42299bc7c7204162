--------------------------- MODULE RestorePoints ---------------------------
(***************************************************************************)
(* The pure functions of lib/restore_points.py over a drive's snapshots:   *)
(* which backup points are complete, which of them some dataset skipped,   *)
(* how snapshots form restore points, and which snapshot of each dataset a *)
(* restore point stands for.                                               *)
(*                                                                         *)
(* A snapshot is a record                                                  *)
(*   ds, arch   the dataset, and the archived lineage that stores it       *)
(*              (0: the live copy; Snap.dataset and Snap.source)           *)
(*   kind       "point" (POINT_RE), "auto" (sanoid's) or "other"           *)
(*   name       a point's UTC stamp, the creation of any other snapshot    *)
(*   creation   when origin took it; a receive keeps it                    *)
(*   mark       its COMPLETE_PROP: the number of datasets its run brought, *)
(*              0 for none, Legacy for the "yes" of 2.0.0-rc2              *)
(* Within one dataset two snapshots never share a creation here.           *)
(***************************************************************************)
EXTENDS Integers, FiniteSets, SequencesExt, FiniteSetsExt

CONSTANTS RepeatGap,    \* REPEAT_GAP
          Sorted,       \* the datasets in the order of their names
          MaxTime       \* bound: the last instant of a creation

Legacy == -1

Stored(s) == <<s.ds, s.arch>>

PointsOf(L) == {s \in L : s.kind = "point"}
PointNames(L) == {s.name : s \in PointsOf(L)}

(* The snapshots of one backup point: a point is one name (_by_name).      *)
Members(L, p) == {s \in PointsOf(L) : s.name = p}
Holders(L, p) == {s.ds : s \in Members(L, p)}

(* Point.end and point_times: the newest creation of a run.                *)
End(run) == Max({s.creation : s \in run})
PointTime(L, p) == End(Members(L, p))

(* skipped_points: a dataset has snapshots before and after the point and  *)
(* none of it.                                                             *)
Skipped(L) ==
  {p \in PointNames(L) :
     \E d \in {s.ds : s \in L} \ Holders(L, p) :
        LET times == {s.creation : s \in {u \in L : u.ds = d}}
        IN  Min(times) < PointTime(L, p) /\ PointTime(L, p) < Max(times)}

(* legacy_complete: on a drive without marks only a complete run wrote     *)
(* last-point.  Point names are stamps, so they compare in time order.     *)
LegacyComplete(L, last) ==
  {p \in PointNames(L) : last # 0 /\ p <= last} \ Skipped(L)

(* point_marks: the points with any mark.                                  *)
Marked(L) == {s.name : s \in {u \in PointsOf(L) : u.mark # 0}}

(* Mutant: the mark is believed without counting who still holds the point.*)
IsCompleteMarkOnly(run) == \A s \in run : s.mark # 0

(* is_complete: one mark on every snapshot, and as many datasets as it     *)
(* records still hold the point.                                           *)
IsComplete(run) ==
  \E m \in {s.mark : s \in run} :
     /\ \A s \in run : s.mark = m
     /\ m = Legacy \/ m = Cardinality({s.ds : s \in run})

(* complete_points, what recover offers as complete.                       *)
CompletePoints(L, last) ==
  IF Marked(L) = {} THEN LegacyComplete(L, last)
  ELSE {p \in Marked(L) : IsComplete(Members(L, p))}

(* run_complete_points, what retention judges a point by.                  *)
RunComplete(L, last) ==
  IF Marked(L) = {} THEN LegacyComplete(L, last) ELSE Marked(L)

(* retention_points: the run-complete points no dataset skipped since.     *)
WholePoints(L, last) == RunComplete(L, last) \ Skipped(L)

(* point_losses with the rewrite its callers make of it: the completion    *)
(* count of a point that loses the snapshots `gone' goes down by the       *)
(* datasets that no longer hold it.  Points marked before the count, and   *)
(* those left with nothing, are not rewritten.                             *)
Lowered(L, gone, p) ==
  LET left   == Members(L, p) \ gone
      lost   == Holders(L, p) \ {s.ds : s \in left}
      counts == {s.mark : s \in Members(L, p)} \ {0, Legacy}
  IN  IF \/ {s \in gone : s.kind = "point" /\ s.name = p /\ s.mark > 0} = {}
         \/ lost = {} \/ left = {}
      THEN {0} ELSE {c - Cardinality(lost) : c \in counts}

(* ended: one of the backup points at or before the chosen one lacks the   *)
(* dataset, and nothing of the dataset follows it.                         *)
EndedBy(L, d, end, ps) ==
  LET mine == {s \in L : s.ds = d}
  IN  /\ mine # {}
      /\ \E b \in PointNames(L) \cap ps :
            /\ PointTime(L, b) <= end
            /\ PointTime(L, b) >= End(mine)
            /\ d \notin Holders(L, b)

(* Mutant: an incomplete point counts as evidence that a dataset ended.    *)
EndedByAny(L, d, end, complete) == EndedBy(L, d, end, PointNames(L))

(* Only a complete point is evidence that a lineage ended.                 *)
Ended(L, d, end, complete) == EndedBy(L, d, end, complete)

(* resolve: the snapshot of a dataset for a restore point, {} when it has  *)
(* none.                                                                   *)
Resolve(L, run, d, complete) ==
  LET own     == {s \in run : s.ds = d}
      earlier == {s \in L : s.ds = d /\ s.creation <= End(run)}
      from    == IF own # {} THEN own
                 ELSE IF Ended(L, d, End(run), complete) THEN {} ELSE earlier
  IN  {s \in from : \A u \in from : u.creation <= s.creation}

(* cluster: sanoid's snapshots by time.  A new run starts when a dataset   *)
(* reappears RepeatGap after its first snapshot in the run, or when        *)
(* RepeatGap passes with no snapshot; a backup point is its name.          *)
Cluster(L) ==
  LET at(k) == {s \in L : /\ s.kind = "auto"
                          /\ s.creation = k \div Len(Sorted)
                          /\ s.ds = Sorted[(k % Len(Sorted)) + 1]}
      step(runs, s) ==
        LET run == runs[Len(runs)]
            new == \/ runs = <<>>
                   \/ \E u \in run : /\ u.ds = s.ds
                                     /\ s.creation - u.creation > RepeatGap
                   \/ \A u \in run : s.creation - u.creation > RepeatGap
        IN  IF new THEN Append(runs, {s})
            ELSE [runs EXCEPT ![Len(runs)] = @ \cup {s}]
      next(runs, S) == IF S = {} THEN runs
                       ELSE step(runs, CHOOSE s \in S : TRUE)
  IN  Range(FoldLeft(next, <<>>, [k \in 1..(Len(Sorted) * MaxTime) |-> at(k)]))
        \cup {Members(L, p) : p \in PointNames(L)}

(* restore_points: the runs that hold the boot environment's root.         *)
Offered(L, root) == {run \in Cluster(L) : root \in {s.ds : s \in run}}
=============================================================================
