---------------------------- MODULE Replication ----------------------------
(***************************************************************************)
(* The pure planner of lib/replication.py: what one dataset of the drive   *)
(* needs to reach the run's backup point.                                  *)
(*                                                                         *)
(* A snapshot of a dataset is its creation txg, a natural number: within   *)
(* one dataset the txg orders the snapshots and stands for the guid that   *)
(* the code compares.  Zero is "no snapshot".                              *)
(*                                                                         *)
(*   o : [snaps, marks]          what origin has: snapshots and, on rpool, *)
(*                               the snapshots some bookmark remembers     *)
(*   d : [snaps, token, written] what the drive has: snapshots, the        *)
(*                               snapshot a partial receive was cut at     *)
(*                               (0: none), and whether its head was       *)
(*                               written after its newest snapshot         *)
(***************************************************************************)
EXTENDS Naturals

State == {"NEW", "RESUME", "AT_POINT", "INCREMENTAL", "VIA_BOOKMARK",
          "MODIFIED", "ROLLBACK", "DIVERGED", "EXCLUDED"}

TRANSFERABLE == {"NEW", "RESUME", "AT_POINT", "INCREMENTAL", "VIA_BOOKMARK"}

(* Dest.newest is the last snapshot in txg order.                          *)
IsNewest(t, snaps) == t \in snaps /\ \A u \in snaps : u <= t

(* What origin can still name, as a snapshot or through a bookmark.        *)
Known(o) == o.snaps \cup o.marks

(* The drive's snapshots that origin can still name.                       *)
Common(o, d) == {t \in d.snaps : t \in Known(o)}

(* _plan_dataset: the state of a dataset whose head was not written, in    *)
(* the order of the code's early returns.  `point' is the snapshot named   *)
(* like the run's point, or 0 when origin has none.                        *)
PlanUnwritten(o, d, point) ==
  LET newest == {t \in d.snaps : IsNewest(t, d.snaps)}
  IN  IF      d.token # 0                     THEN "RESUME"
      ELSE IF d.snaps = {}                    THEN "NEW"
      ELSE IF point \in newest \cap o.snaps   THEN "AT_POINT"
      ELSE IF newest \cap o.snaps # {}        THEN "INCREMENTAL"
      ELSE IF \E t \in newest \cap o.marks : \E s \in o.snaps : s > t
                                              THEN "VIA_BOOKMARK"
      ELSE IF Common(o, d) \ newest # {}      THEN "ROLLBACK"
                                              ELSE "DIVERGED"

(* A partial receive on a written head cannot be resumed: its dataset is   *)
(* planned without the partial state and asked about (DatasetPlan.partial).*)
IsPartialModified(d) == d.written /\ d.token # 0 /\ d.snaps # {}

(* DatasetPlan.after: what that dataset needs once the partial state goes. *)
PlanAfter(o, d, point) == PlanUnwritten(o, [d EXCEPT !.token = 0], point)

(* plan_dataset: an incremental onto a written head is refused by the      *)
(* kernel, so a written dataset is MODIFIED and asked about.               *)
PlanDataset(o, d, point) ==
  LET p == PlanUnwritten(o, d, point)
  IN  IF \/ IsPartialModified(d)
         \/ d.written /\ p \in {"INCREMENTAL", "VIA_BOOKMARK"}
      THEN "MODIFIED" ELSE p

(* Mutant of Reached: what is still to transfer counts.                    *)
ReachedAnyway(plan) ==
  \A ds \in DOMAIN plan : plan[ds] \in TRANSFERABLE \cup {"EXCLUDED"}

(* reached (I-D): every expected dataset is at the point.                  *)
Reached(plan) ==
  \A ds \in DOMAIN plan : plan[ds] \in {"AT_POINT", "EXCLUDED"}
=============================================================================
