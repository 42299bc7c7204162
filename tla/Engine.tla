------------------------------- MODULE Engine -------------------------------
(***************************************************************************)
(* lib/engine.py with lib/anchors.py: the replication run of one backup    *)
(* drive against the origin pools, next to sanoid, to the other drives in  *)
(* rotation and to the crashes and read errors a run can meet.             *)
(*                                                                         *)
(* A snapshot of a dataset is its creation txg (see Replication).  What    *)
(* origin keeps for zark carries a drive: a backup point <<d, t>> is the   *)
(* snapshot t taken for drive d (org.zark:point-for), an anchor <<d, t>>   *)
(* is drive d's bookmark of t on rpool and, on bpool, where bookmarks are  *)
(* forbidden, the point's snapshot renamed.                                *)
(***************************************************************************)
EXTENDS Replication

CONSTANTS
  Rpool,       \* datasets of rpool that a backup copies
  Bpool,       \* datasets of bpool
  Drives,      \* backup drives, by pool GUID
  NoDrive,     \* the drive of no run
  MaxTxg,      \* bound: snapshots taken over a behaviour
  MaxFaults,   \* bound: commands that fail, reads that fail, answers that
               \*   decline, signals and kills over a behaviour
  Mounted,     \* bound: the copies <<drive, dataset>> a user mounts read-write
  Prunable,    \* bound: the copies <<drive, dataset>> retention removes from
  Excludable   \* bound: the datasets a user excludes from backups

DS == Rpool \cup Bpool

ASSUME EngineAssumption ==
  /\ Rpool \cap Bpool = {}
  /\ Excludable \subseteq Rpool      \* the boot pool can never be excluded
  /\ Mounted \subseteq Drives \X DS
  /\ Prunable \subseteq Drives \X DS
  /\ NoDrive \notin Drives
  /\ MaxTxg \in Nat
  /\ MaxFaults \in Nat

VARIABLES
  txg,      \* the last snapshot's txg
  autos,    \* [ds -> sanoid's snapshots in origin]
  points,   \* [ds -> backup points in origin]
  anchors,  \* [ds -> anchors in origin]
  skip,     \* datasets excluded from backups
  held,     \* [drive -> [ds -> snapshots on the drive]]
  token,    \* [drive -> [ds -> snapshot of the partial receive, 0: none]]
  written,  \* copies <<drive, ds>> written after their newest snapshot
  complete, \* [drive -> points recorded complete on it]
  phase,    \* where the run is; "idle": no run
  paused,   \* the run holds sanoid.timer stopped
  disk, pt, \* the run's drive and point
  plan,     \* Run.survey's last plan
  todo,     \* datasets the current loop still has to visit
  started,  \* Run.started: datasets a receive began on
  kept,     \* undo_point's datasets whose point stays
  named,    \* datasets with the anchor named after the run's point
  round, again,
  verdicts, \* what drop_check allowed to go
  mishaps,  \* history: <<drive, what one of its runs ended with>>
  faults,   \* history: how many things went wrong
  smooth,   \* history: none of them in this run
  pruned    \* history: copies whose base zark prune may have taken

originVars == <<txg, autos, points, anchors, skip>>
driveVars  == <<held, token, written, complete>>
loopVars   == <<started, kept, named, round, again, verdicts>>
runOf      == <<paused, disk, pt>>
runVars    == <<phase, runOf, plan, todo, loopVars>>
ghostVars  == <<mishaps, faults, smooth, pruned>>
vars       == <<originVars, driveVars, runVars, ghostVars>>

MAX_ROUNDS == 3

Verdict == [ds : DS, kind : {"point", "anchor"}, drive : Drives, t : Nat,
            release : BOOLEAN]

(* No cleanup ran; the drive could not be read; an anchor could not be     *)
(* made; sanoid pruned before the cleanup had anchored.                    *)
Mishap == {"killed", "unread", "unanchored", "raced"}

Phases == {"idle", "paused", "rpool", "taken", "decide", "round", "transfer",
           "verify", "anchor", "held", "check", "drop",
           "undo", "undoAnchor", "undoHeld", "undoDrop"}

(* The phases from which a signal leads to undo_point (Cleanup's action).  *)
Undoable == Phases \ {"idle", "undo", "undoAnchor", "undoHeld", "undoDrop"}
-----------------------------------------------------------------------------
(* expected: the datasets this backup must bring to the point.             *)
Wanted == DS \ skip

(* read_origin: the snapshots a listing of origin shows for a dataset.     *)
Snaps(ds) == autos[ds] \cup {t \in 0..txg : \E d \in Drives : <<d, t>> \in points[ds]}
                       \cup {t \in 0..txg : ds \in Bpool /\ \E d \in Drives : <<d, t>> \in anchors[ds]}

(* The snapshots that bookmarks, of any drive, remember; none on bpool.    *)
Marks(ds) == {t \in 0..txg : ds \in Rpool /\ \E d \in Drives : <<d, t>> \in anchors[ds]}

OriginOf(ds) == [snaps |-> Snaps(ds), marks |-> Marks(ds)]

DestOf(d, ds) == [snaps |-> held[d][ds], token |-> token[d][ds],
                  written |-> <<d, ds>> \in written]

(* The snapshot of ds named like the run's point, 0 when there is none.    *)
PointOf(ds) == IF <<disk, pt>> \in points[ds] THEN pt ELSE 0

(* Run.survey's plan, with `cut' the partial receives on the drive.        *)
PlanWith(cut) ==
  [ds \in DS |-> IF ds \in skip THEN "EXCLUDED"
                 ELSE PlanDataset(OriginOf(ds),
                                  [DestOf(disk, ds) EXCEPT !.token = cut[ds]],
                                  PointOf(ds))]

Planned(states) == {ds \in DS : plan[ds] \in states}

(* resume_impossible: libzfs refuses a token whose snapshot is gone, or    *)
(* whose incremental source (the drive's newest) is.                       *)
CanResume(d, ds) ==
  /\ token[d][ds] \in Snaps(ds)
  /\ \A t \in held[d][ds] : IsNewest(t, held[d][ds]) => t \in Known(OriginOf(ds))

(* The snapshots a transfer carries: the point alone for a full send, all  *)
(* of origin's after the drive's newest for -I, directly or in two streams *)
(* from a bookmark (_send_args).                                           *)
Stream(ds) ==
  IF plan[ds] = "NEW" THEN {t \in {pt} : t = PointOf(ds)}
  ELSE {t \in Snaps(ds) : t <= pt /\ \A u \in held[disk][ds] : u < t}
-----------------------------------------------------------------------------
Init ==
  /\ txg = 0
  /\ autos = [ds \in DS |-> {}]
  /\ points = [ds \in DS |-> {}]
  /\ anchors = [ds \in DS |-> {}]
  /\ skip = {}
  /\ held = [d \in Drives |-> [ds \in DS |-> {}]]
  /\ token = [d \in Drives |-> [ds \in DS |-> 0]]
  /\ written = {}
  /\ complete = [d \in Drives |-> {}]
  /\ phase = "idle"
  /\ paused = FALSE
  /\ disk = NoDrive
  /\ pt = 0
  /\ plan = [ds \in DS |-> "NEW"]
  /\ todo = {}
  /\ started = {}
  /\ kept = {}
  /\ named = {}
  /\ round = 0
  /\ again = FALSE
  /\ verdicts = {}
  /\ mishaps = {}
  /\ faults = 0
  /\ smooth = FALSE
  /\ pruned = {}

(* The step went as meant, or something in it went wrong.                  *)
Fine  == UNCHANGED <<faults, smooth>>
Wrong == faults < MaxFaults /\ faults' = faults + 1 /\ smooth' = FALSE

(* The step could not succeed, after something that went wrong before it.  *)
Doomed == smooth' = FALSE /\ UNCHANGED faults

(* What replicate had in memory, which undo_point does not read.           *)
DropMemory ==
  /\ plan' = [ds \in DS |-> "NEW"]
  /\ todo' = {}
  /\ kept' = {}
  /\ named' = {}
  /\ round' = 0
  /\ again' = FALSE
  /\ verdicts' = {}

(* undo_point is called.                                                   *)
EnterUndo == phase' = "undo" /\ DropMemory

(* The process is gone, with its memory.                                   *)
Forget ==
  /\ phase' = "idle"
  /\ paused' = FALSE
  /\ disk' = NoDrive
  /\ pt' = 0
  /\ started' = {}
  /\ DropMemory
  /\ smooth' = FALSE
-----------------------------------------------------------------------------
(* The run, from execute to the end of replicate.                          *)

(* execute: sanoid is paused (see Sanoid) and the point has its name.      *)
Start(d) ==
  /\ phase = "idle"
  /\ txg < MaxTxg
  /\ phase' = "paused"
  /\ paused' = TRUE
  /\ disk' = d
  /\ txg' = txg + 1
  /\ pt' = txg + 1
  /\ smooth' = TRUE
  /\ UNCHANGED <<autos, points, anchors, skip, driveVars, plan, todo, loopVars,
                 mishaps, faults, pruned>>

(* take_point: one zfs snapshot per pool, atomic within the pool.          *)
TakeOn(pool, from, to) ==
  /\ phase = from
  /\ phase' = to
  /\ points' = [ds \in DS |-> IF ds \in pool \cap Wanted
                              THEN points[ds] \cup {<<disk, pt>>} ELSE points[ds]]
  /\ UNCHANGED <<txg, autos, anchors, skip, driveVars, runOf, plan, todo,
                 loopVars, ghostVars>>

TakeRpool == TakeOn(Rpool, "paused", "rpool")
TakeBpool == TakeOn(Bpool, "rpool", "taken")

(* The run's own failure before the transfers: execute calls undo_point.   *)
(* A point that cannot be taken, a first survey that cannot be read, a     *)
(* question answered with "abort" or a drive with too little room.         *)
Abort ==
  /\ phase \in {"paused", "rpool", "taken", "decide"}
  /\ EnterUndo
  /\ Wrong
  /\ UNCHANGED <<originVars, driveVars, runOf, started, mishaps, pruned>>

(* The first survey; partial receives that can never resume are discarded  *)
(* before any question (discard_stale_partials) and planned afresh.        *)
StalePartials == {ds \in Wanted : PlanWith(token[disk])[ds] = "RESUME" /\ ~CanResume(disk, ds)}

Survey ==
  /\ phase = "taken"
  /\ \E gone \in SUBSET StalePartials :
       LET cut == [ds \in DS |-> IF ds \in gone THEN 0 ELSE token[disk][ds]]
       IN  /\ token' = [token EXCEPT ![disk] = cut]
           /\ plan' = PlanWith(cut)
           /\ IF gone = StalePartials THEN Fine ELSE Wrong
  /\ phase' = "decide"
  /\ UNCHANGED <<originVars, held, written, complete, runOf, todo, loopVars,
                 mishaps, pruned>>

(* What the decisions can be about.                                        *)
Asked == Planned({"MODIFIED", "ROLLBACK", "DIVERGED"})
HeldExcluded == {ds \in skip : held[disk][ds] # {} \/ token[disk][ds] # 0}
Partials == {ds \in Planned({"MODIFIED"}) : token[disk][ds] # 0}

(* No written dataset needs another decision once its partial receive is   *)
(* given up: that one would be asked by the next run only.                 *)
AskedOnce ==
  \A ds \in Partials : PlanAfter(OriginOf(ds), DestOf(disk, ds), PointOf(ds))
                         \notin {"ROLLBACK", "DIVERGED"}

(* Mutant of UpToCommon: one snapshot too far.                             *)
BelowCommon(ds) ==
  {t \in held[disk][ds] : \E c \in Common(OriginOf(ds), DestOf(disk, ds)) : t < c}

(* rollback -r, or branch, to the newest common snapshot.                  *)
UpToCommon(ds) ==
  {t \in held[disk][ds] : \E c \in Common(OriginOf(ds), DestOf(disk, ds)) : t <= c}

(* _decide and _apply_changes: `done' are the changes the user accepted    *)
(* and whose command succeeded, `cut' the partial receives given up on the *)
(* way to discard_changes, `aside' the branches whose lineage was renamed  *)
(* but not cloned back, `free' the anchors destroy_held could drop.        *)
Decide ==
  /\ phase = "decide"
  /\ \E done \in SUBSET (Asked \cup HeldExcluded), cut \in SUBSET Partials,
        aside \in SUBSET Planned({"ROLLBACK"}), free \in BOOLEAN :
       LET away == (done \cap (Planned({"DIVERGED"}) \cup HeldExcluded)) \cup aside
           back == (done \cap Planned({"ROLLBACK"})) \ aside
       IN  /\ done \cap Partials \subseteq cut
           /\ aside \cap done = {}
           /\ held' = [held EXCEPT ![disk] = [ds \in DS |->
                         IF ds \in away THEN {}
                         ELSE IF ds \in back THEN UpToCommon(ds) ELSE held[disk][ds]]]
           /\ token' = [token EXCEPT ![disk] = [ds \in DS |->
                         IF ds \in away \cup cut THEN 0 ELSE token[disk][ds]]]
           /\ written' = written \ {<<disk, ds>> : ds \in done \cup aside}
           /\ anchors' = [ds \in DS |->
                         IF free /\ ds \in done \cap HeldExcluded
                         THEN {a \in anchors[ds] : a[1] # disk} ELSE anchors[ds]]
           /\ IF ~(Asked \subseteq done) THEN Wrong
              ELSE IF AskedOnce THEN Fine ELSE Doomed
  /\ phase' = "round"
  /\ UNCHANGED <<txg, autos, points, skip, complete, runOf, plan, todo,
                 loopVars, mishaps, pruned>>

(* One round of _rounds: survey and list what is not at the point yet.     *)
BeginRound ==
  /\ phase = "round"
  /\ plan' = PlanWith(token[disk])
  /\ todo' = {ds \in DS : plan'[ds] \in TRANSFERABLE \ {"AT_POINT"}}
  /\ phase' = IF todo' = {} THEN "verify" ELSE "transfer"
  /\ round' = round + 1
  /\ again' = FALSE
  /\ UNCHANGED <<originVars, driveVars, runOf, started, kept, named, verdicts, ghostVars>>

(* transfer: the whole stream was received.                                *)
TransferOk(ds) ==
  /\ phase = "transfer"
  /\ ds \in todo
  /\ plan[ds] # "RESUME"
  /\ held' = [held EXCEPT ![disk][ds] = @ \cup Stream(ds)]
  /\ started' = started \cup {ds}
  /\ todo' = todo \ {ds}
  /\ UNCHANGED <<originVars, token, written, complete, phase, runOf, plan, kept, named,
                 round, again, verdicts, ghostVars>>

(* transfer of a RESUME: only the interrupted snapshot arrives.            *)
ResumeOk(ds) ==
  /\ phase = "transfer"
  /\ ds \in todo
  /\ plan[ds] = "RESUME"
  /\ CanResume(disk, ds)
  /\ held' = [held EXCEPT ![disk][ds] = @ \cup {token[disk][ds]}]
  /\ token' = [token EXCEPT ![disk][ds] = 0]
  /\ started' = started \cup {ds}
  /\ todo' = todo \ {ds}
  /\ again' = TRUE
  /\ UNCHANGED <<originVars, written, complete, phase, runOf, plan, kept, named, round,
                 verdicts, ghostVars>>

(* A failed transfer: the loop goes on with the next dataset, or stops     *)
(* with the run's rounds when the drive is full.                           *)
Failed(ds, full) ==
  /\ started' = started \cup {ds}
  /\ todo' = IF full THEN {} ELSE todo \ {ds}

(* The stream was cut while it carried snapshot u: those before u arrived, *)
(* and receive -s may have saved the partial state of u.                   *)
TransferCut(ds) ==
  /\ phase = "transfer"
  /\ ds \in todo
  /\ plan[ds] # "RESUME"
  /\ \E u \in Stream(ds), saved \in BOOLEAN, full \in BOOLEAN :
       /\ held' = [held EXCEPT ![disk][ds] = @ \cup {t \in Stream(ds) : t < u}]
       /\ token' = [token EXCEPT ![disk][ds] = IF saved THEN u ELSE 0]
       /\ Failed(ds, full)
       /\ again' = (again /\ ~full)
       /\ Wrong
  /\ UNCHANGED <<originVars, written, complete, phase, runOf, plan, kept, named, round,
                 verdicts, mishaps, pruned>>

(* A resume failed: a partial receive that can never resume is discarded   *)
(* and its dataset planned afresh, any other is kept for the next run.     *)
ResumeFails(ds) ==
  /\ phase = "transfer"
  /\ ds \in todo
  /\ plan[ds] = "RESUME"
  /\ \E full \in BOOLEAN, aborted \in BOOLEAN :
       /\ Failed(ds, full)
       /\ aborted => ~full /\ ~CanResume(disk, ds)
       /\ token' = [token EXCEPT ![disk][ds] = IF aborted THEN 0 ELSE @]
       /\ again' = ((again \/ aborted) /\ ~full)
       /\ IF CanResume(disk, ds) THEN Wrong ELSE Doomed
  /\ UNCHANGED <<originVars, held, written, complete, phase, runOf, plan, kept, named,
                 round, verdicts, mishaps, pruned>>

(* Mutant of EndRound: resumes are retried until they work.                *)
RetryResumes ==
  /\ phase = "transfer"
  /\ todo = {}
  /\ phase' = IF Planned({"RESUME"}) # {} THEN "round" ELSE "verify"
  /\ round' = 0
  /\ UNCHANGED <<originVars, driveVars, runOf, plan, todo, started, kept, named,
                 again, verdicts, ghostVars>>

EndRound ==
  /\ phase = "transfer"
  /\ todo = {}
  /\ phase' = IF again /\ round < MAX_ROUNDS THEN "round" ELSE "verify"
  /\ UNCHANGED <<originVars, driveVars, runOf, plan, todo, loopVars, ghostVars>>

(* A survey that cannot be read once the user's choices were applied: the  *)
(* run is unverified, and nothing in origin is anchored or removed.        *)
Unverified ==
  /\ phase \in {"round", "verify"}
  /\ mishaps' = mishaps \cup {<<disk, "unread">>}
  /\ Forget
  /\ Wrong
  /\ UNCHANGED <<originVars, driveVars, pruned>>

(* The final survey decides what reached the point (I-D).                  *)
Verify ==
  /\ phase = "verify"
  /\ plan' = PlanWith(token[disk])
  /\ todo' = {ds \in DS : plan'[ds] = "AT_POINT"}
  /\ phase' = "anchor"
  /\ UNCHANGED <<originVars, driveVars, runOf, loopVars, ghostVars>>
-----------------------------------------------------------------------------
(* Anchors, at the end of a run and in its cleanup.                        *)

(* anchor_point: a bookmark on rpool; on bpool the snapshot renamed.       *)
AnchorFor(ds, p) ==
  /\ anchors' = [anchors EXCEPT ![ds] = @ \cup {p}]
  /\ points' = IF ds \in Bpool THEN [points EXCEPT ![ds] = @ \ {p}] ELSE points

(* anchor, one dataset of the loop; the second try failed too.             *)
AnchorOk(ds) ==
  /\ phase \in {"anchor", "undoAnchor"}
  /\ ds \in todo
  /\ AnchorFor(ds, <<disk, pt>>)
  /\ named' = named \cup {ds}
  /\ todo' = todo \ {ds}
  /\ UNCHANGED <<txg, autos, skip, driveVars, phase, runOf, plan, started, kept,
                 round, again, verdicts, ghostVars>>

AnchorFails(ds) ==
  /\ phase \in {"anchor", "undoAnchor"}
  /\ ds \in todo
  /\ todo' = todo \ {ds}
  /\ kept' = IF phase = "undoAnchor" THEN kept \cup {ds} ELSE kept
  /\ mishaps' = mishaps \cup {<<disk, "unanchored">>}
  /\ Wrong
  /\ UNCHANGED <<originVars, driveVars, phase, runOf, plan, started, named, round, again,
                 verdicts, pruned>>

EndAnchors ==
  /\ phase \in {"anchor", "undoAnchor"}
  /\ todo = {}
  /\ phase' = IF phase = "anchor" THEN "held" ELSE "undoHeld"
  /\ UNCHANGED <<originVars, driveVars, runOf, plan, todo, loopVars, ghostVars>>

(* Mutant of Unanchored: a run anchors the points it reached and no more.  *)
OnlyReached(ds) == {t \in held[disk][ds] : FALSE /\ ds \in DS}

(* anchor_held's candidates: the drive's newest snapshot of an rpool       *)
(* dataset, when origin has it as a snapshot and no anchor of the drive    *)
(* marks it.                                                               *)
Unanchored(ds) ==
  {t \in held[disk][ds] :
     /\ ds \in Rpool \cap Wanted
     /\ IsNewest(t, held[disk][ds])
     /\ t \in Snaps(ds)
     /\ <<disk, t>> \notin anchors[ds]}

(* anchor_held: every bookmark may fail, and none is made when either side *)
(* cannot be read.  A bookmark is named after the second its snapshot was  *)
(* created in, which may or may not be the point's own name.  What         *)
(* undo_point may then remove is every point of the run still in origin,   *)
(* but those it keeps.                                                     *)
AnchorHeld ==
  /\ phase \in {"held", "undoHeld"}
  /\ \E some \in SUBSET {ds \in DS : Unanchored(ds) # {}}, sameSecond \in BOOLEAN :
       /\ named' = named \cup {ds \in some : sameSecond /\ pt \in Unanchored(ds)}
       /\ anchors' = [ds \in DS |-> IF ds \in some
                                    THEN anchors[ds] \cup {<<disk, t>> : t \in Unanchored(ds)}
                                    ELSE anchors[ds]]
       /\ IF \E ds \in DS \ some : Unanchored(ds) # {}
          THEN mishaps' = mishaps \cup {<<disk, "unanchored">>} /\ Wrong
          ELSE UNCHANGED mishaps /\ Fine
  /\ phase' = IF phase = "held" THEN "check" ELSE "undoDrop"
  /\ todo' = IF phase = "held" THEN {}
             ELSE {ds \in Wanted \ kept : <<disk, pt>> \in points[ds]}
  /\ UNCHANGED <<txg, autos, points, skip, driveVars, runOf, plan, started, kept,
                 round, again, verdicts, pruned>>
-----------------------------------------------------------------------------
(* drop_check and drop.                                                    *)

(* The dataset is on the drive at the new point, by guid, and anchored     *)
(* under the point's name: an anchor of anchor_held supersedes nothing.    *)
Verified(ds) == ds \in named /\ pt \in held[disk][ds]

IsOwn(p) == p = <<disk, pt>>

(* Mutants of PointGoes: a partial receive keeps nothing; points of        *)
(* earlier runs stay.                                                      *)
IgnorePartial(ds, p) ==
  ds \notin Wanted \/ (IsOwn(p) /\ pt \notin held[disk][ds]) \/ Verified(ds)

OwnOnly(ds, p) ==
  \/ ds \notin Wanted
  \/ token[disk][ds] = 0 /\ IsOwn(p) /\ (pt \notin held[disk][ds] \/ Verified(ds))

(* Which points of origin go: all of an excluded dataset; none while a     *)
(* partial receive may resume; the run's own when the drive has nothing of *)
(* it; every one once the new point is verified.                           *)
PointGoes(ds, p) ==
  \/ ds \notin Wanted
  \/ /\ token[disk][ds] = 0
     /\ \/ IsOwn(p) /\ pt \notin held[disk][ds]
        \/ Verified(ds)

(* Mutant of Releases: no point is anchored before it goes.                *)
NoRelease(ds, p) == ds \notin DS /\ IsOwn(p)

(* A point another run left is first anchored for the drive it names; on   *)
(* an excluded dataset for this run's drive too.                           *)
Releases(ds, p) == ~IsOwn(p) /\ (p[1] # disk \/ ds \notin Wanted)

(* Mutant of AnchorGoes: older anchors go before the new one is verified.  *)
UnverifiedGoes(ds, a) == a[1] = disk /\ a # <<disk, pt>> /\ ds \in Wanted

(* This disk's anchors but the new one, once that is verified; an excluded *)
(* dataset keeps them, the base if it is included again.                   *)
AnchorGoes(ds, a) == a[1] = disk /\ a # <<disk, pt>> /\ ds \in Wanted /\ Verified(ds)

Verdicts ==
  {v \in [ds : DS, kind : {"point", "anchor"}, drive : Drives, t : 0..txg, release : BOOLEAN] :
     LET p == <<v.drive, v.t>>
     IN  \/ /\ v.kind = "point"
            /\ p \in points[v.ds]
            /\ PointGoes(v.ds, p)
            /\ v.release = Releases(v.ds, p)
         \/ /\ v.kind = "anchor"
            /\ p \in anchors[v.ds]
            /\ AnchorGoes(v.ds, p)
            /\ v.release = FALSE}

(* drop_check, on a fresh read of both sides; no verdict without one.      *)
DropCheck ==
  /\ phase = "check"
  /\ \E readable \in BOOLEAN :
       /\ verdicts' = IF readable THEN Verdicts ELSE {}
       /\ IF readable THEN Fine ELSE Wrong
  /\ phase' = "drop"
  /\ UNCHANGED <<originVars, driveVars, runOf, plan, todo, started, kept, named, round,
                 again, mishaps, pruned>>

(* release_point: anchored for its drive, then destroyed on rpool (the     *)
(* destroy may fail, or the power); renamed on bpool.                      *)
Release(ds, p) ==
  /\ p \in points[ds]
  /\ anchors' = [anchors EXCEPT ![ds] = @ \cup {p}]
  /\ \/ points' = [points EXCEPT ![ds] = @ \ {p}]
     \/ ds \in Rpool /\ UNCHANGED points

(* zfs destroy of one point or anchor by its exact name.                   *)
Destroy(v) ==
  IF v.kind = "point"
  THEN points' = [points EXCEPT ![v.ds] = @ \ {<<v.drive, v.t>>}] /\ UNCHANGED anchors
  ELSE anchors' = [anchors EXCEPT ![v.ds] = @ \ {<<v.drive, v.t>>}] /\ UNCHANGED points

Drop(v) ==
  /\ phase = "drop"
  /\ v \in verdicts
  /\ IF v.release THEN Release(v.ds, <<v.drive, v.t>>) ELSE Destroy(v)
  /\ IF v.kind = "point" /\ points' = points THEN Wrong ELSE Fine
  /\ verdicts' = verdicts \ {v}
  /\ UNCHANGED <<txg, autos, skip, driveVars, phase, runOf, plan, todo, started,
                 kept, named, round, again, mishaps, pruned>>

DropFails(v) ==
  /\ phase = "drop"
  /\ v \in verdicts
  /\ verdicts' = verdicts \ {v}
  /\ Wrong
  /\ UNCHANGED <<originVars, driveVars, phase, runOf, plan, todo, started, kept, named,
                 round, again, mishaps, pruned>>

(* replicate returned: a run that reached the point records it complete on *)
(* the drive (record_complete, which may fail).                            *)
Finish ==
  /\ phase = "drop"
  /\ verdicts = {}
  /\ \E recorded \in BOOLEAN :
       /\ recorded => Reached(plan)
       /\ faults' = IF recorded = Reached(plan) THEN faults ELSE faults + 1
       /\ faults' <= MaxFaults
       /\ complete' = IF recorded THEN [complete EXCEPT ![disk] = @ \cup {pt}] ELSE complete
  /\ Forget
  /\ UNCHANGED <<originVars, held, token, written, mishaps, pruned>>
-----------------------------------------------------------------------------
(* undo_point: the cleanup of a run that did not end normally.             *)

(* A signal, or a fatal error, unwinds execute, whose finally clause       *)
(* starts sanoid.timer; Cleanup runs the tracked undo_point afterwards.    *)
Signal ==
  /\ phase \in Undoable
  /\ EnterUndo
  /\ paused' = FALSE
  /\ Wrong
  /\ UNCHANGED <<originVars, driveVars, disk, pt, started, mishaps, pruned>>

(* The drive can be read: what it holds at the point is anchored first, a  *)
(* partial receive keeps its point.                                        *)
UndoRead ==
  /\ phase = "undo"
  /\ kept' = {ds \in Wanted : token[disk][ds] # 0}
  /\ todo' = {ds \in Wanted : /\ token[disk][ds] = 0
                              /\ <<disk, pt>> \in points[ds]
                              /\ pt \in held[disk][ds]}
  /\ phase' = "undoAnchor"
  /\ UNCHANGED <<originVars, driveVars, runOf, plan, started, named, round, again,
                 verdicts, ghostVars>>

(* Mutant of UndoBlind: the point goes everywhere.                         *)
UndoBlindly ==
  /\ phase = "undo"
  /\ kept' = {}
  /\ todo' = {ds \in Wanted : <<disk, pt>> \in points[ds]}
  /\ phase' = "undoDrop"
  /\ mishaps' = mishaps \cup {<<disk, "unread">>}
  /\ Wrong
  /\ UNCHANGED <<originVars, driveVars, runOf, plan, started, named, round, again,
                 verdicts, pruned>>

(* It cannot: the point stays wherever a receive began in this run.        *)
UndoBlind ==
  /\ phase = "undo"
  /\ kept' = started
  /\ todo' = {ds \in Wanted \ started : <<disk, pt>> \in points[ds]}
  /\ phase' = "undoDrop"
  /\ mishaps' = IF started = {} THEN mishaps ELSE mishaps \cup {<<disk, "unread">>}
  /\ Wrong
  /\ UNCHANGED <<originVars, driveVars, runOf, plan, started, named, round, again,
                 verdicts, pruned>>

(* The point goes from one dataset; the destroy may fail.                  *)
UndoRemove(ds) ==
  /\ phase = "undoDrop"
  /\ ds \in todo
  /\ todo' = todo \ {ds}
  /\ \/ points' = [points EXCEPT ![ds] = @ \ {<<disk, pt>>}] /\ Fine
     \/ UNCHANGED points /\ Wrong
  /\ UNCHANGED <<txg, autos, anchors, skip, driveVars, phase, runOf, plan,
                 loopVars, mishaps, pruned>>

UndoEnd ==
  /\ phase = "undoDrop"
  /\ todo = {}
  /\ Forget
  /\ UNCHANGED <<originVars, driveVars, mishaps, faults, pruned>>

(* SIGKILL or power loss: no cleanup runs.                                 *)
Kill ==
  /\ phase # "idle"
  /\ mishaps' = mishaps \cup {<<disk, "killed">>}
  /\ Forget
  /\ Wrong
  /\ UNCHANGED <<originVars, driveVars, pruned>>
-----------------------------------------------------------------------------
(* sanoid, whenever no run holds its timer stopped.                        *)

SanoidTake ==
  /\ ~paused
  /\ txg < MaxTxg
  /\ txg' = txg + 1
  /\ autos' = [ds \in DS |-> autos[ds] \cup {txg + 1}]
  /\ UNCHANGED <<points, anchors, skip, driveVars, runVars, ghostVars>>

SanoidPrune(ds) ==
  /\ ~paused
  /\ \E t \in autos[ds] : autos' = [autos EXCEPT ![ds] = @ \ {t}]
  /\ mishaps' = IF phase = "idle" THEN mishaps ELSE mishaps \cup {<<disk, "raced">>}
  /\ UNCHANGED <<txg, points, anchors, skip, driveVars, runVars, faults, smooth, pruned>>
-----------------------------------------------------------------------------
(* Between runs: the user, and zark's other commands, which take the same  *)
(* lock as a backup.                                                       *)

(* A copy mounted read-write (zark mount) is written to.                   *)
Touch(d, ds) ==
  /\ phase = "idle"
  /\ held[d][ds] # {}
  /\ written' = written \cup {<<d, ds>>}
  /\ UNCHANGED <<originVars, held, token, complete, runVars, ghostVars>>

(* zark exclude add and remove.                                            *)
Exclude(ds) ==
  /\ phase = "idle"
  /\ skip' = IF ds \in skip THEN skip \ {ds} ELSE skip \cup {ds}
  /\ UNCHANGED <<txg, autos, points, anchors, driveVars, runVars, ghostVars>>

(* The drive's retention, after a complete run or from zark prune: any     *)
(* snapshot may age out but the dataset's newest (I-E) and the newest      *)
(* complete point's still there.                                           *)
CompleteOn(d) == {t \in complete[d] : \E ds \in DS : t \in held[d][ds]}

DrivePrune(d, ds) ==
  /\ phase = "idle"
  /\ \E t \in held[d][ds] :
       /\ ~IsNewest(t, held[d][ds])
       /\ ~IsNewest(t, CompleteOn(d))
       /\ held' = [held EXCEPT ![d][ds] = @ \ {t}]
  /\ pruned' = IF \E t \in held[d][ds] : /\ IsNewest(t, held[d][ds])
                                        /\ <<d, t>> \in points[ds] \cup anchors[ds]
               THEN pruned ELSE pruned \cup {<<d, ds>>}
  /\ UNCHANGED <<originVars, token, written, complete, runVars, mishaps, faults, smooth>>

(* zark prune in origin: a point a run left is released for its drive.     *)
PruneOrigin(ds) ==
  /\ phase = "idle"
  /\ \E p \in points[ds] : Release(ds, p)
  /\ UNCHANGED <<txg, autos, skip, driveVars, runVars, ghostVars>>

(* The same when the points' drives cannot be read: each is destroyed as   *)
(* one that names no drive.                                                *)
PruneUnowned(ds) ==
  /\ phase = "idle"
  /\ \E p \in points[ds] : /\ points' = [points EXCEPT ![ds] = @ \ {p}]
                          /\ pruned' = pruned \cup {<<p[1], ds>>}
  /\ Wrong
  /\ UNCHANGED <<txg, autos, anchors, skip, driveVars, runVars, mishaps>>
-----------------------------------------------------------------------------
RunStep ==
  \/ TakeRpool \/ TakeBpool \/ Survey \/ Decide \/ BeginRound \/ EndRound
  \/ Verify \/ EndAnchors \/ AnchorHeld \/ DropCheck \/ Finish
  \/ UndoRead \/ UndoBlind \/ UndoEnd
  \/ \E ds \in DS : \/ TransferOk(ds) \/ TransferCut(ds) \/ ResumeOk(ds) \/ ResumeFails(ds)
                    \/ AnchorOk(ds) \/ AnchorFails(ds) \/ UndoRemove(ds)
  \/ \E v \in verdicts : Drop(v) \/ DropFails(v)

Fault == Abort \/ Signal \/ Kill \/ Unverified

Sanoid == SanoidTake \/ \E ds \in DS : SanoidPrune(ds)

Between ==
  \/ \E d \in Drives : Start(d)
  \/ \E ds \in DS : PruneOrigin(ds) \/ PruneUnowned(ds)
  \/ \E c \in Mounted : Touch(c[1], c[2])
  \/ \E ds \in Excludable : Exclude(ds)
  \/ \E c \in Prunable : DrivePrune(c[1], c[2])

Next == RunStep \/ Fault \/ Sanoid \/ Between

Spec == Init /\ [][Next]_vars

(* A run that is not killed keeps stepping: zfs and systemctl return, and  *)
(* the user answers.                                                       *)
FairSpec == Spec /\ WF_vars(RunStep)
-----------------------------------------------------------------------------
(* Properties.                                                             *)

Snapshots == SUBSET Nat
Owned     == SUBSET (Drives \X Nat)

Flags == paused \in BOOLEAN /\ again \in BOOLEAN /\ smooth \in BOOLEAN

Typed ==
  /\ txg \in Nat
  /\ autos \in [DS -> Snapshots]
  /\ points \in [DS -> Owned]
  /\ anchors \in [DS -> Owned]
  /\ skip \in SUBSET Rpool
  /\ held \in [Drives -> [DS -> Snapshots]]
  /\ token \in [Drives -> [DS -> Nat]]
  /\ written \in SUBSET (Drives \X DS)
  /\ complete \in [Drives -> Snapshots]
  /\ phase \in Phases
  /\ disk \in Drives \cup {NoDrive}
  /\ pt \in Nat
  /\ plan \in [DS -> State]
  /\ todo \in SUBSET DS
  /\ started \in SUBSET DS
  /\ kept \in SUBSET DS
  /\ named \in SUBSET DS
  /\ round \in Nat
  /\ verdicts \in SUBSET Verdict
  /\ mishaps \in SUBSET (Drives \X Mishap)
  /\ faults \in Nat
  /\ pruned \in SUBSET (Drives \X DS)
  /\ phase # "idle" => disk \in Drives

(* TypeOK: the types of the state, with the run's drive known while a run  *)
(* is on.                                                                  *)
TypeOK == Typed /\ Flags

(* A copy is based on t when origin keeps t for that very drive, as its    *)
(* anchor or as a point left for it: neither sanoid nor another drive's    *)
(* run removes it.                                                         *)
IsBase(d, ds, t) == <<d, t>> \in points[ds] \cup anchors[ds]

(* BaseKept: whatever is cut, killed, unreadable, declined or excluded,    *)
(* every copy on a drive holds a snapshot origin still keeps for that      *)
(* drive, so its next backup never starts from nothing.  drop_check and    *)
(* undo_point remove a point or an anchor only under this condition.  The  *)
(* exceptions are zark prune's: a copy pruned on the drive while its       *)
(* newest snapshot was not a base, and a point whose drive was not read.   *)
BaseKept ==
  \A d \in Drives, ds \in DS :
    held[d][ds] # {} /\ <<d, ds>> \notin pruned
      => \E t \in held[d][ds] : IsBase(d, ds, t)

(* NoRollback: a drive none of whose runs met a mishap is never asked to   *)
(* roll back or resend an rpool dataset, whatever sanoid and zark prune    *)
(* removed in between, however its transfers were cut, and whatever other  *)
(* drives' runs did or left (anchor_held's promise).                       *)
NoRollback ==
  phase = "decide" /\ (\A m \in Mishap : <<disk, m>> \notin mishaps)
    => \A ds \in Rpool \cap Wanted :
         /\ plan[ds] \notin {"ROLLBACK", "DIVERGED"}
         /\ plan[ds] = "MODIFIED" =>
              PlanAfter(OriginOf(ds), DestOf(disk, ds), PointOf(ds))
                \notin {"ROLLBACK", "DIVERGED"}

(* SmoothReaches: a run in which nothing fails and nothing is declined     *)
(* brings every expected dataset to the point, from any state earlier runs *)
(* left: MAX_ROUNDS rounds are enough for what a resume leaves to do.      *)
SmoothReaches ==
  phase \in {"anchor", "held", "check", "drop"} /\ smooth => Reached(plan)

(* SmoothCleans: when such a run ends, origin holds no point of any run on *)
(* the datasets it copied, and of this drive exactly the new anchor.       *)
SmoothCleans ==
  phase = "drop" /\ verdicts = {} /\ smooth
    => \A ds \in Wanted : /\ points[ds] = {}
                          /\ {a \in anchors[ds] : a[1] = disk} = {<<disk, pt>>}

(* What a drive other than the run's has in origin is still there, a point *)
(* as a point or as an anchor.                                             *)
KeepsOthers ==
  \A ds \in DS, e \in Drives, t \in 0..txg :
    phase # "idle" /\ e # disk =>
      /\ <<e, t>> \in anchors[ds] => <<e, t>> \in anchors'[ds]
      /\ <<e, t>> \in points[ds] => <<e, t>> \in points'[ds] \cup anchors'[ds]

(* OthersKept: no step of a run takes an anchor of another drive, and a    *)
(* point left for another drive goes only once it is that drive's anchor.  *)
OthersKept == [][KeepsOthers]_vars

(* ResumeKept: while a run leaves its drive's partial receive of an        *)
(* expected dataset in place, it removes neither the snapshot that receive *)
(* needs to resume nor the drive's newest snapshot's last name in origin.  *)
ResumeKept ==
  [][\A ds \in Wanted, d \in Drives :
       /\ d = disk /\ CanResume(d, ds) /\ autos' = autos
       /\ token[d][ds] # 0
       /\ token'[d][ds] = token[d][ds]
       => CanResume(d, ds)']_vars

(* CompleteIsWhole: a point is recorded complete on a drive only while     *)
(* every expected dataset's copy there holds it (I-D).                     *)
CompleteIsWhole ==
  [][\A d \in Drives : \A t \in complete'[d] \ complete[d] :
       \A ds \in Wanted : t \in held[d][ds] /\ IsBase(d, ds, t)]_vars

(* RunEnds: every run ends (MAX_ROUNDS bounds its rounds, each loop visits *)
(* a finite list).                                                         *)
RunEnds == (phase # "idle") ~> (phase = "idle")

(* Untroubled: such a run, from whatever earlier runs and drives left,     *)
(* reaches its point everywhere and tidies up after all of them.           *)
Untroubled == SmoothReaches /\ SmoothCleans
-----------------------------------------------------------------------------
(* A copy on a drive as Chain sees it.                                     *)
Link(d, ds) ==
  IF held[d][ds] = {} THEN "none"
  ELSE IF \E t \in held[d][ds] : IsBase(d, ds, t) THEN "chained" ELSE "cut"

Promise == INSTANCE Chain WITH
  chain <- [d \in Drives |-> [ds \in DS |-> Link(d, ds)]],
  busy  <- disk

(* Chained: the runs implement Chain.  A run changes the copies of its own *)
(* drive only, leaves every one of them chained or gone with the user's    *)
(* consent, and only what zark prune removes between runs cuts a chain.    *)
Chained == Promise!Spec
=============================================================================
