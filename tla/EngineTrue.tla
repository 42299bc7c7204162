----------------------------- MODULE EngineTrue -----------------------------
(***************************************************************************)
(* Proofs about Engine, for every set of datasets and drives and any       *)
(* number of snapshots and faults.  First its types and, whatever is cut,  *)
(* killed, unread or declined, a base in origin of every copy on a drive   *)
(* (TypeOK, BaseKept, OthersKept).  Then the refinement of Chain, that a   *)
(* point recorded complete is whole, and that a drive none of whose runs   *)
(* met a mishap continues where it was (Chained, CompleteIsWhole,          *)
(* NoRollback).  Last, that a run in which nothing fails and nothing is    *)
(* declined reaches its point everywhere and tidies up, and that no run    *)
(* removes what a partial receive needs to resume (Untroubled,             *)
(* ResumeKept).  Apart from these, what a run promises of sanoid's timer   *)
(* (Sanoid, whose names and variables are its own).                        *)
(***************************************************************************)
EXTENDS Engine, Sanoid, WellFoundedInduction, TLAPS

USE DEF originVars, driveVars, loopVars, runOf, runVars, ghostVars, vars

(* The planner answers with one of its states, whatever it is asked about. *)
LEMMA PlanType ==
  ASSUME NEW o, NEW d, NEW point
  PROVE  PlanDataset(o, d, point) \in State
BY DEF PlanDataset, PlanUnwritten, State

LEMMA SurveyType ==
  ASSUME NEW cut
  PROVE  PlanWith(cut) \in [DS -> State]
BY PlanType DEF PlanWith, State

(* A stream carries snapshots.                                             *)
LEMMA StreamType ==
  ASSUME Typed, NEW ds \in DS
  PROVE  Stream(ds) \in SUBSET Nat
<1>1. Snaps(ds) \in SUBSET Nat
  BY DEF Snaps, Typed, Snapshots
<1>2. pt \in Nat
  BY DEF Typed
<1> QED
  BY <1>1, <1>2 DEF Stream

LEMMA ReleaseType ==
  ASSUME Typed, NEW ds \in DS, NEW p \in Drives \X Nat, Release(ds, p)
  PROVE  points' \in [DS -> Owned] /\ anchors' \in [DS -> Owned]
<1>1. anchors' \in [DS -> Owned]
  BY DEF Typed, Owned, Release
<1>2. points' \in [DS -> Owned]
  BY DEF Typed, Owned, Release
<1> QED
  BY <1>1, <1>2

(* Every step keeps the types of the state.                                *)
LEMMA TypedStep == Typed /\ [Next]_vars => Typed'
<1> SUFFICES ASSUME Typed, [Next]_vars PROVE Typed'
  OBVIOUS
<1> USE EngineAssumption DEF Typed, Snapshots, Owned, Phases
<1> USE DEF Fine, Wrong, Doomed, DropMemory, EnterUndo, Forget, State, Mishap
<1>1. CASE UNCHANGED vars
  BY <1>1
<1>2. ASSUME NEW d \in Drives, Start(d) PROVE Typed'
  BY <1>2 DEF Start
<1>3. CASE TakeRpool \/ TakeBpool
  <2>1. <<disk, pt>> \in Drives \X Nat
    BY <1>3 DEF TakeRpool, TakeBpool, TakeOn
  <2>2. CASE TakeRpool
    BY <2>1, <2>2 DEF TakeRpool, TakeOn
  <2>3. CASE TakeBpool
    BY <2>1, <2>3 DEF TakeBpool, TakeOn
  <2> QED
    BY <1>3, <2>2, <2>3
<1>4. CASE Abort
  BY <1>4 DEF Abort
<1>5. CASE Survey
  BY <1>5, SurveyType DEF Survey
<1>6. CASE Decide
  BY <1>6 DEF Decide, UpToCommon
<1>7. CASE BeginRound
  BY <1>7, SurveyType DEF BeginRound
<1>8. ASSUME NEW ds \in DS, TransferOk(ds) PROVE Typed'
  BY <1>8, StreamType DEF TransferOk
<1>26. ASSUME NEW ds \in DS, ResumeOk(ds) PROVE Typed'
  BY <1>26 DEF ResumeOk
<1>9. ASSUME NEW ds \in DS, TransferCut(ds) PROVE Typed'
  BY <1>9, StreamType DEF TransferCut, Failed
<1>10. ASSUME NEW ds \in DS, ResumeFails(ds) PROVE Typed'
  BY <1>10 DEF ResumeFails, Failed
<1>11. CASE EndRound \/ Unverified \/ Verify
  BY <1>11, SurveyType DEF EndRound, Unverified, Verify
<1>12. ASSUME NEW ds \in DS, AnchorOk(ds) \/ AnchorFails(ds) PROVE Typed'
  <2>1. CASE AnchorOk(ds)
    BY <2>1 DEF AnchorOk, AnchorFor
  <2>2. CASE AnchorFails(ds)
    BY <2>2 DEF AnchorFails
  <2> QED
    BY <1>12, <2>1, <2>2
<1>13. CASE EndAnchors
  BY <1>13 DEF EndAnchors
<1>27. CASE AnchorHeld
  <2>1. disk \in Drives
    BY <1>27 DEF AnchorHeld
  <2>2. ASSUME NEW ds \in DS, NEW t \in Unanchored(ds) PROVE <<disk, t>> \in Drives \X Nat
    BY <2>1 DEF Unanchored
  <2>3. anchors' \in [DS -> Owned]
    BY <2>2, <1>27 DEF AnchorHeld
  <2> QED
    BY <1>27, <2>1, <2>3 DEF AnchorHeld, Wanted
<1>14. CASE DropCheck
  BY <1>14 DEF DropCheck, Verdicts, Verdict
<1>15. ASSUME NEW v \in verdicts, Drop(v) PROVE Typed'
  <2>1. v.ds \in DS /\ <<v.drive, v.t>> \in Drives \X Nat
    BY DEF Verdict
  <2>2. points' \in [DS -> Owned] /\ anchors' \in [DS -> Owned]
    <3>1. CASE v.release
      BY <1>15, <2>1, <3>1, ReleaseType DEF Drop
    <3>2. CASE ~v.release
      <4>1. Destroy(v)
        BY <1>15, <3>2 DEF Drop
      <4>2. CASE v.kind = "point"
        BY <2>1, <4>1, <4>2 DEF Destroy
      <4>3. CASE v.kind # "point"
        <5>1. UNCHANGED points
          BY <4>1, <4>3 DEF Destroy
        <5>2. anchors' = [anchors EXCEPT ![v.ds] = @ \ {<<v.drive, v.t>>}]
          BY <4>1, <4>3 DEF Destroy
        <5> QED
          BY <2>1, <5>1, <5>2
      <4> QED
        BY <4>2, <4>3
    <3> QED
      BY <3>1, <3>2
  <2>3. faults' \in Nat
    BY <1>15 DEF Drop
  <2> QED
    BY <1>15, <2>2, <2>3 DEF Drop
<1>16. ASSUME NEW v \in verdicts, DropFails(v) PROVE Typed'
  BY <1>16 DEF DropFails
<1>17. CASE Finish
  BY <1>17 DEF Finish
<1>18. CASE Signal
  BY <1>18 DEF Signal, Undoable
<1>19. CASE UndoRead \/ UndoBlind \/ UndoEnd \/ Kill
  BY <1>19 DEF UndoRead, UndoBlind, UndoEnd, Kill, Wanted
<1>20. ASSUME NEW ds \in DS, UndoRemove(ds) PROVE Typed'
  BY <1>20 DEF UndoRemove
<1>21. CASE SanoidTake
  BY <1>21 DEF SanoidTake
<1>22. ASSUME NEW ds \in DS, SanoidPrune(ds) PROVE Typed'
  BY <1>22 DEF SanoidPrune
<1>28. ASSUME NEW ds \in DS, PruneOrigin(ds) PROVE Typed'
  <2>1. PICK p \in points[ds] : Release(ds, p)
    BY <1>28 DEF PruneOrigin
  <2>2. p \in Drives \X Nat
    OBVIOUS
  <2>3. points' \in [DS -> Owned] /\ anchors' \in [DS -> Owned]
    BY <2>1, <2>2, ReleaseType
  <2> QED
    BY <1>28, <2>3 DEF PruneOrigin
<1>29. ASSUME NEW ds \in DS, PruneUnowned(ds) PROVE Typed'
  <2>1. PICK p \in points[ds] : /\ points' = [points EXCEPT ![ds] = @ \ {p}]
                               /\ pruned' = pruned \cup {<<p[1], ds>>}
    BY <1>29 DEF PruneUnowned
  <2>2. <<p[1], ds>> \in Drives \X DS
    OBVIOUS
  <2>3. points' \in [DS -> Owned]
    BY <2>1
  <2>4. pruned' \in SUBSET (Drives \X DS)
    BY <2>1, <2>2
  <2> QED
    BY <1>29, <2>3, <2>4 DEF PruneUnowned
<1>23. ASSUME NEW c \in Mounted, Touch(c[1], c[2]) PROVE Typed'
  BY <1>23 DEF Touch
<1>24. ASSUME NEW ds \in Excludable, Exclude(ds) PROVE Typed'
  BY <1>24 DEF Exclude
<1>25. ASSUME NEW c \in Prunable, DrivePrune(c[1], c[2]) PROVE Typed'
  <2>1. c[1] \in Drives /\ c[2] \in DS
    OBVIOUS
  <2>2. <<c[1], c[2]>> \in Drives \X DS
    BY <2>1
  <2>3. held' \in [Drives -> [DS -> Snapshots]]
    BY <1>25, <2>1 DEF DrivePrune
  <2>4. pruned' \in SUBSET (Drives \X DS)
    BY <1>25, <2>2 DEF DrivePrune
  <2> QED
    BY <1>25, <2>3, <2>4 DEF DrivePrune
<1> QED
  BY <1>1, <1>2, <1>3, <1>4, <1>5, <1>6, <1>7, <1>8, <1>9, <1>10, <1>11, <1>12, <1>13,
     <1>14, <1>15, <1>16, <1>17, <1>18, <1>19, <1>20, <1>21, <1>22, <1>23, <1>24, <1>25,
     <1>26, <1>27, <1>28, <1>29 DEF Next, RunStep, Fault, Sanoid, Between

LEMMA FlagsStep == Flags /\ [Next]_vars => Flags'
<1> SUFFICES ASSUME Flags, [Next]_vars PROVE Flags'
  OBVIOUS
<1> USE DEF Flags, Fine, Wrong, Doomed, DropMemory, EnterUndo, Forget
<1>1. CASE UNCHANGED vars
  BY <1>1, Zenon
<1>2. CASE Fault
  BY <1>2, Zenon DEF Fault, Abort, Signal, Kill, Unverified
<1>3. CASE Sanoid
  BY <1>3, Zenon DEF Sanoid, SanoidTake, SanoidPrune
<1>4. CASE Between
  BY <1>4, Zenon DEF Between, Start, Touch, Exclude, DrivePrune, PruneOrigin,
                       PruneUnowned
<1>5. CASE RunStep
  <2>1. CASE TakeRpool \/ TakeBpool \/ Survey \/ Decide
    <3>1. CASE TakeRpool \/ TakeBpool
      BY <3>1, Zenon DEF TakeRpool, TakeBpool, TakeOn
    <3>2. CASE Survey
      BY <3>2, Zenon DEF Survey
    <3>3. CASE Decide
      BY <3>3, Zenon DEF Decide
    <3> QED
      BY <2>1, <3>1, <3>2, <3>3
  <2>2. CASE BeginRound \/ EndRound \/ Verify \/ EndAnchors
    BY <2>2, Zenon DEF BeginRound, EndRound, Verify, EndAnchors
  <2>3. CASE AnchorHeld \/ DropCheck \/ Finish
    BY <2>3, Zenon DEF AnchorHeld, DropCheck, Finish
  <2>4. CASE UndoRead \/ UndoBlind \/ UndoEnd
    BY <2>4, Zenon DEF UndoRead, UndoBlind, UndoEnd
  <2>5. ASSUME NEW ds \in DS, TransferOk(ds) \/ TransferCut(ds) \/ ResumeOk(ds) \/ ResumeFails(ds)
        PROVE  Flags'
    BY <2>5, Zenon DEF TransferOk, TransferCut, ResumeOk, ResumeFails
  <2>6. ASSUME NEW ds \in DS, AnchorOk(ds) \/ AnchorFails(ds) \/ UndoRemove(ds)
        PROVE  Flags'
    BY <2>6, Zenon DEF AnchorOk, AnchorFails, UndoRemove
  <2>7. ASSUME NEW v \in verdicts, Drop(v) \/ DropFails(v) PROVE Flags'
    BY <2>7, Zenon DEF Drop, DropFails
  <2> QED
    BY <1>5, <2>1, <2>2, <2>3, <2>4, <2>5, <2>6, <2>7 DEF RunStep
<1> QED
  BY <1>1, <1>2, <1>3, <1>4, <1>5 DEF Next

(* TypeOK for every instance: the types hold in every state of every       *)
(* behaviour of Engine.                                                    *)
THEOREM Types == Spec => []TypeOK
<1>1. Init => Typed
  BY EngineAssumption DEF Init, Typed, Snapshots, Owned, Phases, State
<1>2. Init => Flags
  BY Zenon DEF Init, Flags
<1>3. Typed /\ Flags <=> TypeOK
  BY DEF TypeOK
<1> QED
  BY <1>1, <1>2, <1>3, TypedStep, FlagsStep, PTL DEF Spec
-----------------------------------------------------------------------------
(* The base of every copy.                                                 *)

(* Origin's snapshots of ds that carry the drive e: its points and, on     *)
(* bpool, its anchors.                                                     *)
Carries(ds, e, t) == <<e, t>> \in points[ds] \/ (ds \in Bpool /\ <<e, t>> \in anchors[ds])

(* Every snapshot is older than the next one to be taken.                  *)
Fresh ==
  /\ pt <= txg
  /\ \A ds \in DS :
       /\ \A t \in autos[ds] : t <= txg
       /\ \A d \in Drives, t \in Nat : <<d, t>> \in points[ds] \cup anchors[ds] => t <= txg
       /\ \A d \in Drives : token[d][ds] <= txg /\ \A t \in held[d][ds] : t <= txg

(* A first copy that was cut is a copy of a snapshot kept for its drive:   *)
(* whenever it can resume, what arrives is a base.                         *)
CutBase ==
  \A d \in Drives, ds \in DS :
    token[d][ds] # 0 /\ held[d][ds] = {}
      => /\ token[d][ds] \notin autos[ds]
         /\ \A e \in Drives : Carries(ds, e, token[d][ds]) => e = d

(* The run's point is its own, on datasets it copies, and reached the      *)
(* drive only where a receive began.                                       *)
OwnPoint ==
  phase # "idle" =>
    /\ pt # 0
    /\ \A ds \in DS :
      /\ pt \notin autos[ds]
      /\ \A e \in Drives : Carries(ds, e, pt) => e = disk
      /\ \A d \in Drives : token[d][ds] = pt => d = disk
      /\ <<disk, pt>> \in points[ds] => ds \notin skip
      /\ pt \in held[disk][ds] => ds \in started

(* What replicate planned is still so when it acts on it: what it rolls    *)
(* back has no partial receive, what it resumes has one, and what it       *)
(* neither resumes nor sends in full is on the drive.                      *)
Plans ==
  /\ phase = "decide" => \A ds \in DS : plan[ds] = "ROLLBACK" => token[disk][ds] = 0
  /\ phase = "transfer" =>
       \A ds \in todo : /\ plan[ds] = "RESUME" => token[disk][ds] # 0
                        /\ plan[ds] \in {"NEW", "RESUME"} \/ held[disk][ds] # {}

(* A dataset with an anchor named after the point has the point anchored.  *)
Names ==
  \A ds \in named :
    /\ phase \in {"anchor", "held", "check", "drop", "undoAnchor", "undoHeld", "undoDrop"}
    /\ <<disk, pt>> \in anchors[ds]

(* What drop_check allowed to be destroyed leaves a base.                  *)
Allowed(v) ==
  \/ v.release
  \/ /\ v.drive = disk
     /\ \/ /\ pt \in held[disk][v.ds]
           /\ <<disk, pt>> \in anchors[v.ds]
           /\ v.kind = "point" \/ v.t # pt
        \/ v.kind = "point" /\ v.t = pt /\ pt \notin held[disk][v.ds]

Allowances ==
  /\ verdicts # {} => phase = "drop"
  /\ \A v \in verdicts : Allowed(v)

(* What undo_point removes is not on the drive or is anchored.             *)
Undo ==
  /\ phase = "undoHeld" => todo = {}
  /\ phase \in {"undoAnchor", "undoHeld"} =>
       \A ds \in Wanted : <<disk, pt>> \in points[ds] /\ pt \in held[disk][ds]
         => ds \in kept \cup todo \/ <<disk, pt>> \in anchors[ds]
  /\ phase = "undoDrop" =>
       \A ds \in todo : pt \notin held[disk][ds] \/ <<disk, pt>> \in anchors[ds]

(* The inductive invariant.                                                *)
Inv ==
  /\ Typed /\ Fresh /\ CutBase /\ BaseKept
  /\ OwnPoint /\ Plans /\ Names /\ Allowances /\ Undo
-----------------------------------------------------------------------------
(* Facts about the operators the run is built from.                        *)

(* A listing of origin shows sanoid's snapshots, the points and, on bpool, *)
(* the anchors.                                                            *)
LEMMA SnapsOf ==
  ASSUME Typed, Fresh, NEW ds \in DS, NEW t
  PROVE  t \in Snaps(ds) <=> t \in autos[ds] \/ \E e \in Drives : Carries(ds, e, t)
<1>1. \A e \in Drives : <<e, t>> \in points[ds] \cup anchors[ds] => t \in 0..txg
  BY DEF Typed, Owned, Fresh
<1> QED
  BY <1>1 DEF Snaps, Carries

(* Everything in a stream is a snapshot of origin: a full send carries the *)
(* run's point.                                                            *)
LEMMA StreamOf ==
  ASSUME Typed, Fresh, disk \in Drives, pt # 0, NEW ds \in DS, NEW t \in Stream(ds)
  PROVE  /\ t \in Nat /\ t <= txg
         /\ t \in Snaps(ds)
         /\ plan[ds] = "NEW" => t = pt /\ <<disk, pt>> \in points[ds]
<1>1. t \in Snaps(ds) /\ (plan[ds] = "NEW" => t = pt /\ <<disk, pt>> \in points[ds])
  <2>1. CASE plan[ds] = "NEW"
    <3>1. t = pt /\ <<disk, pt>> \in points[ds]
      BY <2>1 DEF Stream, PointOf
    <3> QED
      BY <3>1, SnapsOf DEF Carries
  <2>2. CASE plan[ds] # "NEW"
    BY <2>2 DEF Stream
  <2> QED
    BY <2>1, <2>2
<1>2. t \in Nat /\ t <= txg
  BY <1>1 DEF Snaps, Typed, Snapshots, Fresh
<1> QED
  BY <1>1, <1>2

(* Releasing a point makes it an anchor of its drive and takes nothing     *)
(* else.                                                                   *)
LEMMA Released ==
  ASSUME Typed, NEW ds \in DS, NEW p \in Drives \X Nat, Release(ds, p), NEW x \in DS
  PROVE  /\ p \in points[ds]
         /\ anchors'[x] = IF x = ds THEN anchors[x] \cup {p} ELSE anchors[x]
         /\ points'[x] = points[x] \/ (x = ds /\ points'[x] = points[x] \ {p})
         /\ ds \in Bpool => p \notin points'[ds]
<1>1. p \in points[ds]
  BY DEF Release
<1>2. anchors'[x] = IF x = ds THEN anchors[x] \cup {p} ELSE anchors[x]
  BY DEF Release, Typed
<1>3. points'[x] = points[x] \/ (x = ds /\ points'[x] = points[x] \ {p})
  BY DEF Release, Typed
<1>4. ds \in Bpool => p \notin points'[ds]
  BY EngineAssumption DEF Release, Typed
<1> QED
  BY <1>1, <1>2, <1>3, <1>4

LEMMA ReleaseKeeps ==
  ASSUME Typed, NEW ds \in DS, NEW p \in Drives \X Nat, Release(ds, p), NEW x \in DS
  PROVE  points[x] \cup anchors[x] \subseteq points'[x] \cup anchors'[x]
<1>1. anchors'[x] = IF x = ds THEN anchors[x] \cup {p} ELSE anchors[x]
  BY DEF Release, Typed
<1>2. points'[x] = points[x] \/ (x = ds /\ points'[x] = points[x] \ {p})
  BY DEF Release, Typed
<1> QED
  BY <1>1, <1>2

(* A verdict is about a dataset and a drive's point or anchor.             *)
LEMMA VerdictType ==
  ASSUME Typed, NEW v \in verdicts
  PROVE  v.ds \in DS /\ v.drive \in Drives /\ v.t \in Nat /\ <<v.drive, v.t>> \in Drives \X Nat
BY DEF Typed, Verdict

(* Destroying one of its names takes that name alone.                      *)
LEMMA Destroyed ==
  ASSUME Typed, NEW v \in verdicts, Drop(v), ~v.release, NEW x \in DS
  PROVE  /\ points'[x] = IF v.kind = "point" /\ x = v.ds
                         THEN points[x] \ {<<v.drive, v.t>>} ELSE points[x]
         /\ anchors'[x] = IF v.kind # "point" /\ x = v.ds
                          THEN anchors[x] \ {<<v.drive, v.t>>} ELSE anchors[x]
<1>1. Destroy(v)
  BY DEF Drop
<1>2. v.ds \in DS
  BY VerdictType
<1>3. CASE v.kind = "point"
  BY <1>1, <1>2, <1>3 DEF Destroy, Typed
<1>4. CASE v.kind # "point"
  <2>1. points' = points
    BY <1>1, <1>4 DEF Destroy
  <2>2. anchors'[x] = IF x = v.ds THEN anchors[x] \ {<<v.drive, v.t>>} ELSE anchors[x]
    BY <1>1, <1>2, <1>4 DEF Destroy, Typed
  <2> QED
    BY <1>4, <2>1, <2>2
<1> QED
  BY <1>3, <1>4

(* A drop adds no name but that of a released point.                       *)
LEMMA Dropped ==
  ASSUME Typed, NEW v \in verdicts, Drop(v), NEW x \in DS
  PROVE  /\ points'[x] \subseteq points[x]
         /\ anchors'[x] \subseteq anchors[x] \cup points[x]
<1>1. CASE v.release
  <2>1. Release(v.ds, <<v.drive, v.t>>)
    BY <1>1 DEF Drop
  <2>2. v.ds \in DS /\ <<v.drive, v.t>> \in Drives \X Nat
    BY VerdictType
  <2>3. /\ <<v.drive, v.t>> \in points[v.ds]
        /\ anchors'[x] = IF x = v.ds THEN anchors[x] \cup {<<v.drive, v.t>>} ELSE anchors[x]
        /\ points'[x] = points[x] \/ (x = v.ds /\ points'[x] = points[x] \ {<<v.drive, v.t>>})
    BY <2>1, <2>2, Released
  <2> QED
    BY <2>3
<1>2. CASE ~v.release
  BY <1>2, Destroyed
<1> QED
  BY <1>1, <1>2

(* undo_point takes the run's own point.                                   *)
LEMMA UndoRemoved ==
  ASSUME Typed, NEW ds \in DS, UndoRemove(ds), NEW x \in DS
  PROVE  points'[x] = points[x] \/ (x = ds /\ points'[x] = points[x] \ {<<disk, pt>>})
<1>1. points' = points \/ points' = [points EXCEPT ![ds] = @ \ {<<disk, pt>>}]
  BY Zenon DEF UndoRemove
<1>2. CASE points' = points
  BY <1>2
<1>3. CASE points' = [points EXCEPT ![ds] = @ \ {<<disk, pt>>}]
  BY <1>3 DEF Typed
<1> QED
  BY <1>1, <1>2, <1>3

(* Retention takes one snapshot of one copy, never its newest.             *)
LEMMA Pruned ==
  ASSUME Typed, NEW c \in Prunable, DrivePrune(c[1], c[2])
  PROVE  \E t \in held[c[1]][c[2]], u \in held[c[1]][c[2]] :
           /\ t # u
           /\ ~IsNewest(t, held[c[1]][c[2]])
           /\ held'[c[1]][c[2]] = held[c[1]][c[2]] \ {t}
           /\ \A d \in Drives, ds \in DS :
                d # c[1] \/ ds # c[2] => held'[d][ds] = held[d][ds]
<1>1. c[1] \in Drives /\ c[2] \in DS
  BY EngineAssumption
<1>2. PICK t \in held[c[1]][c[2]] :
        /\ ~IsNewest(t, held[c[1]][c[2]])
        /\ held' = [held EXCEPT ![c[1]][c[2]] = @ \ {t}]
  BY DEF DrivePrune
<1>3. PICK u \in held[c[1]][c[2]] : ~(u <= t)
  BY <1>2 DEF IsNewest
<1>4. t # u
  BY <1>1, <1>3 DEF Typed, Snapshots
<1>5. /\ held'[c[1]][c[2]] = held[c[1]][c[2]] \ {t}
      /\ \A d \in Drives, ds \in DS :
           d # c[1] \/ ds # c[2] => held'[d][ds] = held[d][ds]
  BY <1>1, <1>2 DEF Typed
<1> QED
  BY <1>2, <1>4, <1>5

(* What a plan says of the drive.                                          *)
LEMMA PlanOf ==
  ASSUME NEW cut, NEW ds \in DS
  PROVE  /\ PlanWith(cut)[ds] = "RESUME" => cut[ds] # 0
         /\ PlanWith(cut)[ds] = "ROLLBACK" => cut[ds] = 0
         /\ PlanWith(cut)[ds] \in {"INCREMENTAL", "VIA_BOOKMARK"} => held[disk][ds] # {}
<1> DEFINE o == OriginOf(ds)
           d == [DestOf(disk, ds) EXCEPT !.token = cut[ds]]
<1>1. d.token = cut[ds] /\ d.snaps = held[disk][ds]
  BY DEF DestOf
<1>2. ASSUME ds \notin skip
      PROVE  PlanWith(cut)[ds] = PlanDataset(o, d, PointOf(ds))
  BY <1>2 DEF PlanWith
<1>3. ds \in skip => PlanWith(cut)[ds] = "EXCLUDED"
  BY DEF PlanWith
<1> HIDE DEF o, d
<1> QED
  BY <1>1, <1>2, <1>3 DEF PlanDataset, PlanUnwritten
-----------------------------------------------------------------------------
(* Each conjunct is kept by every step.                                    *)

LEMMA FreshStep == ASSUME Inv, [Next]_vars PROVE Fresh'
<1> USE EngineAssumption DEF Inv, Typed, Snapshots, Owned, Fresh
<1> USE DEF Fine, Wrong, Doomed, DropMemory, EnterUndo, Forget
<1>1. CASE UNCHANGED vars
  BY <1>1
<1>2. CASE Fault
  BY <1>2 DEF Fault, Abort, Signal, Kill, Unverified
<1>3. ASSUME NEW d \in Drives, Start(d) PROVE Fresh'
  BY <1>3 DEF Start
<1>4. CASE TakeRpool \/ TakeBpool
  BY <1>4 DEF TakeRpool, TakeBpool, TakeOn
<1>5. CASE Survey
  BY <1>5 DEF Survey
<1>6. CASE Decide
  BY <1>6 DEF Decide, UpToCommon
<1>7. CASE BeginRound \/ EndRound \/ Verify \/ EndAnchors \/ DropCheck \/ Finish
  BY <1>7 DEF BeginRound, EndRound, Verify, EndAnchors, DropCheck, Finish
<1>8. ASSUME NEW ds \in DS, TransferOk(ds) PROVE Fresh'
  BY <1>8, StreamOf DEF TransferOk, OwnPoint
<1>9. ASSUME NEW ds \in DS, TransferCut(ds) PROVE Fresh'
  BY <1>9, StreamOf DEF TransferCut, Failed, OwnPoint
<1>10. ASSUME NEW ds \in DS, ResumeOk(ds) PROVE Fresh'
  BY <1>10 DEF ResumeOk
<1>25. ASSUME NEW ds \in DS, ResumeFails(ds) PROVE Fresh'
  <2>1. UNCHANGED <<txg, pt, autos, points, anchors, held>>
    BY <1>25 DEF ResumeFails
  <2>2. \A d \in Drives, x \in DS : token'[d][x] = token[d][x] \/ token'[d][x] = 0
    BY <1>25 DEF ResumeFails
  <2> QED
    BY <2>1, <2>2
<1>11. ASSUME NEW ds \in DS, AnchorOk(ds) PROVE Fresh'
  BY <1>11 DEF AnchorOk, AnchorFor
<1>12. ASSUME NEW ds \in DS, AnchorFails(ds) PROVE Fresh'
  BY <1>12 DEF AnchorFails
<1>24. ASSUME NEW ds \in DS, UndoRemove(ds) PROVE Fresh'
  <2>1. UNCHANGED <<txg, pt, autos, anchors, held, token>>
    BY <1>24 DEF UndoRemove
  <2>2. \A x \in DS : points'[x] \subseteq points[x]
    BY <1>24, UndoRemoved
  <2> QED
    BY <2>1, <2>2
<1>13. CASE AnchorHeld
  <2>1. \A ds \in DS : anchors'[ds] \subseteq
                         anchors[ds] \cup {<<disk, t>> : t \in Unanchored(ds)}
    BY <1>13 DEF AnchorHeld
  <2>2. disk \in Drives /\ \A ds \in DS : \A t \in Unanchored(ds) : t <= txg
    BY <1>13 DEF AnchorHeld, Unanchored
  <2> QED
    BY <1>13, <2>1, <2>2 DEF AnchorHeld
<1>14. ASSUME NEW v \in verdicts, Drop(v) PROVE Fresh'
  <2>1. \A ds \in DS : points'[ds] \cup anchors'[ds] \subseteq points[ds] \cup anchors[ds]
    BY <1>14, Dropped
  <2>2. UNCHANGED <<txg, pt, autos, held, token>>
    BY <1>14 DEF Drop
  <2> QED
    BY <2>1, <2>2
<1>15. ASSUME NEW v \in verdicts, DropFails(v) PROVE Fresh'
  BY <1>15 DEF DropFails
<1>16. CASE UndoRead \/ UndoBlind \/ UndoEnd
  BY <1>16 DEF UndoRead, UndoBlind, UndoEnd
<1>17. CASE SanoidTake
  BY <1>17 DEF SanoidTake
<1>18. ASSUME NEW ds \in DS, SanoidPrune(ds) PROVE Fresh'
  BY <1>18 DEF SanoidPrune
<1>19. ASSUME NEW ds \in DS, PruneOrigin(ds) PROVE Fresh'
  BY <1>19 DEF PruneOrigin, Release
<1>20. ASSUME NEW ds \in DS, PruneUnowned(ds) PROVE Fresh'
  BY <1>20 DEF PruneUnowned
<1>21. ASSUME NEW c \in Mounted, Touch(c[1], c[2]) PROVE Fresh'
  BY <1>21 DEF Touch
<1>22. ASSUME NEW ds \in Excludable, Exclude(ds) PROVE Fresh'
  BY <1>22 DEF Exclude
<1>23. ASSUME NEW c \in Prunable, DrivePrune(c[1], c[2]) PROVE Fresh'
  BY <1>23 DEF DrivePrune
<1> QED
  BY <1>1, <1>2, <1>3, <1>4, <1>5, <1>6, <1>7, <1>8, <1>9, <1>10, <1>11, <1>12, <1>13,
     <1>14, <1>15, <1>16, <1>17, <1>18, <1>19, <1>20, <1>21, <1>22, <1>23, <1>24, <1>25
  DEF Next, RunStep, Fault, Sanoid, Between

(* Releasing a point, or destroying a name, adds no name on origin's       *)
(* snapshots.                                                              *)
LEMMA ReleaseCarries ==
  ASSUME Typed, NEW ds \in DS, NEW p \in Drives \X Nat, Release(ds, p),
         NEW x \in DS, NEW e \in Drives, NEW t
  PROVE  Carries(x, e, t)' => Carries(x, e, t)
<1>1. /\ p \in points[ds]
      /\ anchors'[x] = IF x = ds THEN anchors[x] \cup {p} ELSE anchors[x]
      /\ points'[x] \subseteq points[x]
  BY Released
<1> QED
  BY <1>1 DEF Carries

LEMMA DropCarries ==
  ASSUME Typed, NEW v \in verdicts, Drop(v), NEW x \in DS, NEW e \in Drives, NEW t
  PROVE  Carries(x, e, t)' => Carries(x, e, t)
<1>1. CASE v.release
  <2>1. Release(v.ds, <<v.drive, v.t>>)
    BY <1>1 DEF Drop
  <2> QED
    BY <2>1, VerdictType, ReleaseCarries
<1>2. CASE ~v.release
  BY <1>2, Destroyed DEF Carries
<1> QED
  BY <1>1, <1>2

LEMMA CutBaseStep == ASSUME Inv, [Next]_vars PROVE CutBase'
<1> USE EngineAssumption DEF Inv, Typed, Snapshots, Owned, CutBase
<1> USE DEF DropMemory, EnterUndo, Forget
<1>1. CASE UNCHANGED vars
  BY <1>1 DEF Carries
<1>2. CASE Fault
  BY <1>2 DEF Fault, Abort, Signal, Kill, Unverified, Carries
<1>3. ASSUME NEW d \in Drives, Start(d) PROVE CutBase'
  BY <1>3 DEF Start, Carries
<1>4. CASE TakeRpool \/ TakeBpool
  <2>1. UNCHANGED <<autos, anchors, held, token>> /\ phase # "idle"
    BY <1>4 DEF TakeRpool, TakeBpool, TakeOn
  <2>2. \A ds \in DS : points'[ds] \subseteq points[ds] \cup {<<disk, pt>>}
    BY <1>4 DEF TakeRpool, TakeBpool, TakeOn
  <2> QED
    BY <2>1, <2>2 DEF Carries, OwnPoint
<1>5. CASE Survey
  BY <1>5 DEF Survey, Carries
<1>6. CASE Decide
  <2>1. UNCHANGED <<autos, points>> /\ phase = "decide"
    BY <1>6 DEF Decide
  <2>2. \A ds \in DS : anchors'[ds] \subseteq anchors[ds]
    BY <1>6 DEF Decide
  <2>3. \A d \in Drives, ds \in DS : held'[d][ds] = {} =>
             token'[d][ds] = 0 \/ (held[d][ds] = {} /\ token'[d][ds] = token[d][ds])
    BY <1>6 DEF Decide, Plans, Planned
  <2> QED
    BY <2>1, <2>2, <2>3 DEF Carries
<1>7. CASE BeginRound \/ EndRound \/ Verify \/ EndAnchors \/ DropCheck \/ Finish
  BY <1>7 DEF BeginRound, EndRound, Verify, EndAnchors, DropCheck, Finish, Carries
<1>8. ASSUME NEW ds \in DS, TransferOk(ds) PROVE CutBase'
  BY <1>8 DEF TransferOk, Carries
<1>9. ASSUME NEW ds \in DS, TransferCut(ds) PROVE CutBase'
  <2>2. UNCHANGED <<autos, points, anchors>> /\ phase = "transfer" /\ disk \in Drives
    BY <1>9 DEF TransferCut
  <2>1. PICK u \in Stream(ds) :
          /\ held'[disk][ds] = held[disk][ds] \cup {t \in Stream(ds) : t < u}
          /\ token'[disk][ds] = u \/ token'[disk][ds] = 0
    <3>1. PICK u \in Stream(ds), saved \in BOOLEAN :
            /\ held' = [held EXCEPT ![disk][ds] = @ \cup {t \in Stream(ds) : t < u}]
            /\ token' = [token EXCEPT ![disk][ds] = IF saved THEN u ELSE 0]
      BY <1>9, Zenon DEF TransferCut
    <3>2. token'[disk][ds] = IF saved THEN u ELSE 0
      BY <2>2, <3>1
    <3>3. held'[disk][ds] = held[disk][ds] \cup {t \in Stream(ds) : t < u}
      BY <2>2, <3>1
    <3> QED
      BY <3>2, <3>3
  <2>3. \A d \in Drives, x \in DS : d # disk \/ x # ds =>
             token'[d][x] = token[d][x] /\ held'[d][x] = held[d][x]
    BY <1>9, <2>2 DEF TransferCut
  <2>4. held[disk][ds] = {} => plan[ds] = "NEW"
    BY <1>9 DEF TransferCut, Plans
  <2>5. held'[disk][ds] = {} /\ token'[disk][ds] # 0 => token'[disk][ds] = pt
    BY <2>1, <2>2, <2>4, StreamOf DEF OwnPoint
  <2>6. pt \notin autos[ds] /\ \A e \in Drives : Carries(ds, e, pt) => e = disk
    BY <2>2 DEF OwnPoint
  <2>9. ASSUME NEW d \in Drives, NEW x \in DS, token'[d][x] # 0, held'[d][x] = {}
        PROVE  (token[d][x] \notin autos[x] /\ \A e \in Drives : Carries(x, e, token[d][x]) => e = d)'
    <3>1. CASE d = disk /\ x = ds
      BY <2>2, <2>5, <2>6, <2>9, <3>1 DEF Carries
    <3>2. CASE d # disk \/ x # ds
      <4>1. token'[d][x] = token[d][x] /\ held[d][x] = {}
        BY <2>3, <2>9, <3>2
      <4>2. token[d][x] \notin autos[x] /\ \A e \in Drives : Carries(x, e, token[d][x]) => e = d
        BY <2>9, <4>1
      <4> QED
        BY <2>2, <4>1, <4>2 DEF Carries
    <3> QED
      BY <3>1, <3>2
  <2> QED
    BY <2>9
<1>10. ASSUME NEW ds \in DS, ResumeOk(ds) PROVE CutBase'
  BY <1>10 DEF ResumeOk, Carries
<1>25. ASSUME NEW ds \in DS, ResumeFails(ds) PROVE CutBase'
  BY <1>25 DEF ResumeFails, Carries
<1>11. ASSUME NEW ds \in DS, AnchorOk(ds) PROVE CutBase'
  BY <1>11 DEF AnchorOk, AnchorFor, Carries, OwnPoint
<1>12. ASSUME NEW ds \in DS, AnchorFails(ds) PROVE CutBase'
  BY <1>12 DEF AnchorFails, Carries
<1>24. ASSUME NEW ds \in DS, UndoRemove(ds) PROVE CutBase'
  <2>1. UNCHANGED <<autos, anchors, held, token>>
    BY <1>24 DEF UndoRemove
  <2>2. \A x \in DS : points'[x] \subseteq points[x]
    BY <1>24, UndoRemoved
  <2> QED
    BY <2>1, <2>2 DEF Carries
<1>13. CASE AnchorHeld
  <2>1. \A ds \in Bpool : anchors'[ds] = anchors[ds]
    BY ZenonT(40), <1>13 DEF AnchorHeld, Unanchored, DS
  <2> QED
    BY <1>13, <2>1 DEF AnchorHeld, Carries
<1>14. ASSUME NEW v \in verdicts, Drop(v) PROVE CutBase'
  BY <1>14, DropCarries DEF Drop
<1>15. ASSUME NEW v \in verdicts, DropFails(v) PROVE CutBase'
  BY <1>15 DEF DropFails, Carries
<1>16. CASE UndoRead \/ UndoBlind \/ UndoEnd
  <2>1. CASE UndoRead
    BY <2>1 DEF UndoRead, Carries
  <2>2. CASE UndoBlind
    BY <2>2 DEF UndoBlind, Carries
  <2>3. CASE UndoEnd
    BY <2>3 DEF UndoEnd, Carries
  <2> QED
    BY <1>16, <2>1, <2>2, <2>3
<1>17. CASE SanoidTake
  BY <1>17 DEF SanoidTake, Carries, Fresh
<1>18. ASSUME NEW ds \in DS, SanoidPrune(ds) PROVE CutBase'
  BY <1>18 DEF SanoidPrune, Carries
<1>19. ASSUME NEW ds \in DS, PruneOrigin(ds) PROVE CutBase'
  BY <1>19, ReleaseCarries DEF PruneOrigin
<1>20. ASSUME NEW ds \in DS, PruneUnowned(ds) PROVE CutBase'
  BY <1>20 DEF PruneUnowned, Carries
<1>21. ASSUME NEW c \in Mounted, Touch(c[1], c[2]) PROVE CutBase'
  BY <1>21 DEF Touch, Carries
<1>22. ASSUME NEW ds \in Excludable, Exclude(ds) PROVE CutBase'
  BY <1>22 DEF Exclude, Carries
<1>23. ASSUME NEW c \in Prunable, DrivePrune(c[1], c[2]) PROVE CutBase'
  <2>1. UNCHANGED <<autos, points, anchors, token>>
    BY <1>23 DEF DrivePrune
  <2>2. PICK t \in held[c[1]][c[2]], u \in held[c[1]][c[2]] :
          /\ t # u
          /\ held'[c[1]][c[2]] = held[c[1]][c[2]] \ {t}
          /\ \A d \in Drives, ds \in DS :
               d # c[1] \/ ds # c[2] => held'[d][ds] = held[d][ds]
    BY <1>23, Pruned
  <2>3. \A d \in Drives, x \in DS : held'[d][x] = {} => held[d][x] = {}
    BY <2>2
  <2> QED
    BY <2>1, <2>3 DEF Carries
<1> QED
  BY <1>1, <1>2, <1>3, <1>4, <1>5, <1>6, <1>7, <1>8, <1>9, <1>10, <1>11, <1>12, <1>13,
     <1>14, <1>15, <1>16, <1>17, <1>18, <1>19, <1>20, <1>21, <1>22, <1>23, <1>24, <1>25
  DEF Next, RunStep, Sanoid, Between

(* A rollback keeps every base: origin can still name it.                  *)
LEMMA BaseCommon ==
  ASSUME Typed, Fresh, disk \in Drives, NEW ds \in DS,
         NEW t \in held[disk][ds], IsBase(disk, ds, t)
  PROVE  t \in UpToCommon(ds)
<1>1. t \in Nat /\ t \in 0..txg
  BY DEF Typed, Snapshots, Fresh
<1>2. t \in Snaps(ds) \cup Marks(ds)
  BY <1>1 DEF IsBase, Snaps, Marks, DS
<1>3. t \in Common(OriginOf(ds), DestOf(disk, ds))
  BY <1>2 DEF Common, Known, OriginOf, DestOf
<1> QED
  BY <1>1, <1>3 DEF UpToCommon

(* A copy has a base, or there is none to keep one for.                    *)
Linked(d, ds) == held[d][ds] = {} \/ \E t \in held[d][ds] : IsBase(d, ds, t)

(* When every base stays one and every copy keeps what it held, nothing is *)
(* lost.                                                                   *)
LEMMA LinkGrows ==
  ASSUME NEW d \in Drives, NEW ds \in DS, Linked(d, ds), UNCHANGED held,
         points[ds] \cup anchors[ds] \subseteq points'[ds] \cup anchors'[ds]
  PROVE  Linked(d, ds)'
BY DEF Linked, IsBase

(* No step of a run, of its cleanup or of sanoid leaves a linked copy      *)
(* without a base.                                                         *)
LEMMA LinkStep ==
  ASSUME Inv, RunStep \/ Fault \/ Sanoid, NEW d \in Drives, NEW ds \in DS, Linked(d, ds)
  PROVE  Linked(d, ds)'
<1> USE EngineAssumption DEF Inv, Typed, Snapshots, Owned
<1> USE DEF DropMemory, EnterUndo, Forget
<1>2. CASE Fault
  BY <1>2 DEF Fault, Abort, Signal, Kill, Unverified, Linked, IsBase
<1>4. CASE TakeRpool \/ TakeBpool
  <2>1. UNCHANGED <<anchors, held>>
    BY <1>4 DEF TakeRpool, TakeBpool, TakeOn
  <2>2. points[ds] \subseteq points'[ds]
    <3>1. CASE TakeRpool
      BY <3>1 DEF TakeRpool, TakeOn
    <3>2. CASE TakeBpool
      BY <3>2 DEF TakeBpool, TakeOn
    <3> QED
      BY <1>4, <3>1, <3>2
  <2> QED
    BY <2>1, <2>2, LinkGrows
<1>5. CASE Survey
  BY <1>5 DEF Survey, Linked, IsBase
<1>6. CASE Decide
  <2>1. UNCHANGED points /\ disk \in Drives
    BY <1>6 DEF Decide
  <2>2. d # disk =>
          /\ held'[d][ds] = held[d][ds]
          /\ \A t \in Nat : <<d, t>> \in anchors[ds] => <<d, t>> \in anchors'[ds]
    BY <1>6 DEF Decide
  <2>3. \/ held'[disk][ds] = {}
        \/ /\ anchors'[ds] = anchors[ds]
           /\ held'[disk][ds] \in {held[disk][ds], UpToCommon(ds)}
    BY <1>6 DEF Decide
  <2>4. ASSUME held'[d][ds] # {}
        PROVE  \E t \in held'[d][ds] : <<d, t>> \in points'[ds] \cup anchors'[ds]
    <3>1. held[d][ds] # {}
      BY <2>2, <2>3, <2>4 DEF UpToCommon
    <3>2. PICK t \in held[d][ds] : IsBase(d, ds, t)
      BY <3>1 DEF Linked
    <3>5. t \in Nat /\ <<d, t>> \in points[ds] \cup anchors[ds]
      BY <3>2 DEF IsBase
    <3>3. CASE d # disk
      <4>1. held'[d][ds] = held[d][ds] /\ (<<d, t>> \in anchors[ds] => <<d, t>> \in anchors'[ds])
        BY <2>2, <3>3, <3>5
      <4> QED
        BY <2>1, <3>2, <3>5, <4>1
    <3>4. CASE d = disk
      <4>1. t \in UpToCommon(ds)
        BY <2>1, <3>2, <3>4, BaseCommon
      <4>2. anchors'[ds] = anchors[ds] /\ t \in held'[disk][ds]
        BY <2>3, <2>4, <3>2, <3>4, <4>1
      <4> QED
        BY <2>1, <3>4, <3>5, <4>2
    <3> QED
      BY <3>3, <3>4
  <2> QED
    BY <2>4 DEF Linked, IsBase
<1>7. CASE BeginRound \/ EndRound \/ Verify \/ EndAnchors \/ DropCheck \/ Finish
  BY <1>7 DEF BeginRound, EndRound, Verify, EndAnchors, DropCheck, Finish, Linked, IsBase
<1>8. ASSUME NEW x \in DS, TransferOk(x) PROVE Linked(d, ds)'
  <2>1. UNCHANGED <<points, anchors>> /\ phase = "transfer" /\ disk \in Drives
    BY <1>8 DEF TransferOk
  <2>2. /\ held'[disk][x] = held[disk][x] \cup Stream(x)
        /\ d # disk \/ x # ds => held'[d][ds] = held[d][ds]
    BY <1>8, <2>1 DEF TransferOk
  <2>3. held[disk][x] = {} => \A t \in Stream(x) : <<disk, t>> \in points[x]
    BY <1>8, <2>1, StreamOf DEF TransferOk, Plans, OwnPoint
  <2> QED
    BY <2>1, <2>2, <2>3 DEF Linked, IsBase
<1>9. ASSUME NEW x \in DS, TransferCut(x) PROVE Linked(d, ds)'
  <2>1. UNCHANGED <<points, anchors>> /\ phase = "transfer" /\ disk \in Drives
    BY <1>9 DEF TransferCut
  <2>2. PICK u \in Stream(x) :
          held' = [held EXCEPT ![disk][x] = @ \cup {t \in Stream(x) : t < u}]
    BY <1>9, Zenon DEF TransferCut
  <2>3. /\ held'[disk][x] = held[disk][x] \cup {t \in Stream(x) : t < u}
        /\ d # disk \/ x # ds => held'[d][ds] = held[d][ds]
    BY <2>1, <2>2
  <2>4. held[disk][x] = {} => \A t \in Stream(x) : <<disk, t>> \in points[x]
    BY <1>9, <2>1, StreamOf DEF TransferCut, Plans, OwnPoint
  <2> QED
    BY <2>1, <2>3, <2>4 DEF Linked, IsBase
<1>10. ASSUME NEW x \in DS, ResumeOk(x) PROVE Linked(d, ds)'
  <2>1. UNCHANGED <<points, anchors>> /\ phase = "transfer" /\ disk \in Drives
    BY <1>10 DEF ResumeOk
  <2>2. /\ held'[disk][x] = held[disk][x] \cup {token[disk][x]}
        /\ d # disk \/ x # ds => held'[d][ds] = held[d][ds]
    BY <1>10, <2>1 DEF ResumeOk
  <2>3. held[disk][x] = {} => IsBase(disk, x, token[disk][x])
    <3>1. token[disk][x] \in Snaps(x) /\ token[disk][x] # 0
      BY <1>10 DEF ResumeOk, CanResume, Plans
    <3>2. \/ token[disk][x] \in autos[x]
          \/ \E e \in Drives : Carries(x, e, token[disk][x])
      BY <3>1, SnapsOf
    <3> QED
      BY <2>1, <3>1, <3>2 DEF CutBase, Carries, IsBase
  <2> QED
    BY <2>1, <2>2, <2>3 DEF Linked, IsBase
<1>25. ASSUME NEW x \in DS, ResumeFails(x) \/ AnchorFails(x) PROVE Linked(d, ds)'
  BY <1>25 DEF ResumeFails, AnchorFails, Linked, IsBase
<1>11. ASSUME NEW x \in DS, AnchorOk(x) PROVE Linked(d, ds)'
  <2>1. points[ds] \cup anchors[ds] \subseteq points'[ds] \cup anchors'[ds]
    BY <1>11 DEF AnchorOk, AnchorFor
  <2> QED
    BY <1>11, <2>1, LinkGrows DEF AnchorOk
<1>24. ASSUME NEW x \in DS, UndoRemove(x) PROVE Linked(d, ds)'
  <2>1. UNCHANGED <<anchors, held>> /\ phase = "undoDrop" /\ x \in todo
    BY <1>24 DEF UndoRemove
  <2>2. pt \notin held[disk][x] \/ <<disk, pt>> \in anchors[x]
    BY <2>1 DEF Undo
  <2>4. points'[ds] = points[ds] \/ (x = ds /\ points'[ds] = points[ds] \ {<<disk, pt>>})
    BY <1>24, UndoRemoved
  <2>3. \A t \in held[d][ds] : <<d, t>> \in points[ds] \cup anchors[ds]
                                 => <<d, t>> \in points'[ds] \cup anchors'[ds]
    BY <2>1, <2>2, <2>4
  <2> QED
    BY <2>1, <2>3 DEF Linked, IsBase
<1>13. CASE AnchorHeld
  <2>1. anchors[ds] \subseteq anchors'[ds]
    BY <1>13 DEF AnchorHeld
  <2> QED
    BY <1>13, <2>1, LinkGrows DEF AnchorHeld
<1>14. ASSUME NEW v \in verdicts, Drop(v) PROVE Linked(d, ds)'
  <2>1. UNCHANGED held
    BY <1>14 DEF Drop
  <2>2. CASE v.release
    <3>1. Release(v.ds, <<v.drive, v.t>>)
      BY <1>14, <2>2 DEF Drop
    <3>2. points[ds] \cup anchors[ds] \subseteq points'[ds] \cup anchors'[ds]
      BY <3>1, VerdictType, ReleaseKeeps
    <3> QED
      BY <2>1, <3>2, LinkGrows
  <2>3. CASE ~v.release
    <3>1. ASSUME held[d][ds] # {}
          PROVE  \E t \in held[d][ds] : <<d, t>> \in points'[ds] \cup anchors'[ds]
      <4>1. PICK t \in held[d][ds] : <<d, t>> \in points[ds] \cup anchors[ds]
        BY <3>1 DEF Linked, IsBase
      <4>4. /\ points'[ds] = IF v.kind = "point" /\ ds = v.ds
                             THEN points[ds] \ {<<v.drive, v.t>>} ELSE points[ds]
            /\ anchors'[ds] = IF v.kind # "point" /\ ds = v.ds
                              THEN anchors[ds] \ {<<v.drive, v.t>>} ELSE anchors[ds]
        BY <1>14, <2>3, Destroyed
      <4>2. CASE d # v.drive \/ ds # v.ds \/ t # v.t
        BY <4>1, <4>2, <4>4
      <4>3. CASE d = v.drive /\ ds = v.ds /\ t = v.t
        <5>1. v.drive = disk /\ pt \in held[disk][v.ds] /\ <<disk, pt>> \in anchors[v.ds]
                             /\ (v.kind = "point" \/ v.t # pt)
          BY <2>3, <4>1, <4>3 DEF Allowances, Allowed
        <5>2. <<disk, pt>> \in anchors'[v.ds]
          BY <4>3, <4>4, <5>1
        <5> QED
          BY <4>3, <5>1, <5>2
      <4> QED
        BY <4>2, <4>3
    <3> QED
      BY <2>1, <3>1 DEF Linked, IsBase
  <2> QED
    BY <2>2, <2>3
<1>15. ASSUME NEW v \in verdicts, DropFails(v) PROVE Linked(d, ds)'
  BY <1>15 DEF DropFails, Linked, IsBase
<1>16. CASE UndoRead \/ UndoBlind \/ UndoEnd
  BY <1>16 DEF UndoRead, UndoBlind, UndoEnd, Linked, IsBase
<1>17. CASE SanoidTake
  BY <1>17 DEF SanoidTake, Linked, IsBase
<1>18. ASSUME NEW x \in DS, SanoidPrune(x) PROVE Linked(d, ds)'
  BY <1>18 DEF SanoidPrune, Linked, IsBase
<1> QED
  BY <1>2, <1>4, <1>5, <1>6, <1>7, <1>8, <1>9, <1>10, <1>11, <1>13, <1>14, <1>15, <1>16,
     <1>17, <1>18, <1>24, <1>25 DEF RunStep, Sanoid

(* The steps that leave a copy's base alone, and the two that may not.     *)
LEMMA BetweenKeeps ==
  ASSUME Inv, \/ \E e \in Drives : Start(e)
              \/ \E x \in DS : PruneOrigin(x)
              \/ \E c \in Mounted : Touch(c[1], c[2])
              \/ \E x \in Excludable : Exclude(x)
  PROVE  /\ UNCHANGED held
         /\ \A ds \in DS : points'[ds] \cup anchors'[ds] = points[ds] \cup anchors[ds]
<1>1. ASSUME NEW x \in DS, PruneOrigin(x)
      PROVE  /\ UNCHANGED held
             /\ \A ds \in DS : points'[ds] \cup anchors'[ds] = points[ds] \cup anchors[ds]
  <2>1. PICK p \in points[x] : Release(x, p)
    BY <1>1 DEF PruneOrigin
  <2>2. p \in Drives \X Nat
    BY DEF Inv, Typed, Owned
  <2>3. \A ds \in DS : points[ds] \cup anchors[ds] \subseteq points'[ds] \cup anchors'[ds]
    BY <2>1, <2>2, ReleaseKeeps DEF Inv
  <2>4. \A ds \in DS :
          /\ anchors'[ds] = IF ds = x THEN anchors[ds] \cup {p} ELSE anchors[ds]
          /\ points'[ds] = points[ds] \/ (ds = x /\ points'[ds] = points[ds] \ {p})
    BY ZenonT(40), <2>1, <2>2, Released DEF Inv
  <2>5. UNCHANGED held
    BY <1>1 DEF PruneOrigin
  <2>6. \A ds \in DS : points'[ds] \cup anchors'[ds] \subseteq points[ds] \cup anchors[ds]
    BY <2>1, <2>4
  <2> QED
    BY <2>3, <2>5, <2>6
<1> QED
  BY <1>1 DEF Start, Touch, Exclude

LEMMA BaseKeptStep == ASSUME Inv, [Next]_vars PROVE BaseKept'
<1> USE EngineAssumption DEF Inv, Typed, Snapshots, Owned
<1>1. CASE UNCHANGED vars
  BY <1>1 DEF BaseKept, IsBase
<1>2. CASE RunStep \/ Fault \/ Sanoid
  <2>1. pruned' = pruned
    BY <1>2 DEF RunStep, TakeRpool, TakeBpool, TakeOn, Survey, Decide, BeginRound, EndRound,
                Verify, EndAnchors, AnchorHeld, DropCheck, Finish, UndoRead, UndoBlind, UndoEnd,
                TransferOk, TransferCut, ResumeOk, ResumeFails, AnchorOk, AnchorFails,
                UndoRemove, Drop, DropFails, Fault, Abort, Signal, Kill, Unverified,
                Sanoid, SanoidTake, SanoidPrune
  <2> QED
    BY <1>2, <2>1, LinkStep DEF BaseKept, Linked
<1>3. CASE \/ \E e \in Drives : Start(e)
           \/ \E x \in DS : PruneOrigin(x)
           \/ \E c \in Mounted : Touch(c[1], c[2])
           \/ \E x \in Excludable : Exclude(x)
  <2>1. pruned' = pruned
    BY <1>3 DEF Start, PruneOrigin, Touch, Exclude
  <2> QED
    BY <1>3, <2>1, BetweenKeeps DEF BaseKept, IsBase
<1>20. ASSUME NEW ds \in DS, PruneUnowned(ds) PROVE BaseKept'
  <2>1. PICK p \in points[ds] : /\ points' = [points EXCEPT ![ds] = @ \ {p}]
                               /\ pruned' = pruned \cup {<<p[1], ds>>}
    BY <1>20 DEF PruneUnowned
  <2>2. UNCHANGED <<anchors, held>>
    BY <1>20 DEF PruneUnowned
  <2>3. \A x \in DS : points'[x] = IF x = ds THEN points[x] \ {p} ELSE points[x]
    BY <2>1
  <2>4. ASSUME NEW d \in Drives, NEW x \in DS, held[d][x] # {}, <<d, x>> \notin pruned'
        PROVE  \E t \in held[d][x] : <<d, t>> \in points'[x] \cup anchors'[x]
    <3>1. PICK t \in held[d][x] : <<d, t>> \in points[x] \cup anchors[x]
      BY <2>1, <2>4 DEF BaseKept, IsBase
    <3>2. x = ds => <<d, t>> # p
      BY <2>1, <2>4
    <3> QED
      BY <2>2, <2>3, <3>1, <3>2
  <2> QED
    BY <2>2, <2>4 DEF BaseKept, IsBase
<1>23. ASSUME NEW c \in Prunable, DrivePrune(c[1], c[2]) PROVE BaseKept'
  <2>1. UNCHANGED <<points, anchors>>
    BY <1>23 DEF DrivePrune
  <2>2. PICK t \in held[c[1]][c[2]] :
          /\ ~IsNewest(t, held[c[1]][c[2]])
          /\ held'[c[1]][c[2]] = held[c[1]][c[2]] \ {t}
          /\ \A d \in Drives, ds \in DS :
               d # c[1] \/ ds # c[2] => held'[d][ds] = held[d][ds]
    BY <1>23, Pruned
  <2>3. pruned \subseteq pruned'
    BY <1>23 DEF DrivePrune
  <2>4. <<c[1], c[2]>> \in pruned' \/ \E u \in held'[c[1]][c[2]] : IsBase(c[1], c[2], u)
    BY <1>23, <2>2 DEF DrivePrune, IsBase
  <2> QED
    BY <2>1, <2>2, <2>3, <2>4 DEF BaseKept, IsBase
<1> QED
  BY <1>1, <1>2, <1>3, <1>20, <1>23 DEF Next, Between

LEMMA OwnPointStep == ASSUME Inv, [Next]_vars PROVE OwnPoint'
<1> USE EngineAssumption DEF Inv, Typed, Snapshots, Owned, OwnPoint
<1> USE DEF DropMemory, EnterUndo, Forget
<1>1. CASE UNCHANGED vars
  BY <1>1 DEF Carries
<1>2. CASE Fault
  <2>1. CASE Abort \/ Signal
    BY ZenonT(40), <2>1 DEF Abort, Signal, Carries, Undoable
  <2>2. CASE Kill \/ Unverified
    BY <2>2 DEF Kill, Unverified, Carries, Undoable
  <2> QED
    BY <1>2, <2>1, <2>2 DEF Fault
<1>3. ASSUME NEW d \in Drives, Start(d) PROVE OwnPoint'
  BY <1>3 DEF Start, Carries, Fresh
<1>4. CASE TakeRpool \/ TakeBpool
  <2>1. UNCHANGED <<autos, anchors, skip, held, token, disk, pt, started>> /\ phase # "idle"
    BY <1>4 DEF TakeRpool, TakeBpool, TakeOn
  <2>2. \A ds \in DS : \/ points'[ds] = points[ds]
                       \/ ds \notin skip /\ points'[ds] = points[ds] \cup {<<disk, pt>>}
    BY <1>4 DEF TakeRpool, TakeBpool, TakeOn, Wanted
  <2>5. ASSUME NEW ds \in DS, NEW e \in Drives, <<e, pt>> \in points'[ds]
        PROVE  e = disk \/ <<e, pt>> \in points[ds]
    <3>2. points'[ds] = points[ds] \/ points'[ds] = points[ds] \cup {<<disk, pt>>}
      BY <2>2
    <3>1. <<e, pt>> = <<disk, pt>> \/ <<e, pt>> \in points[ds]
      BY <2>5, <3>2
    <3> QED
      BY <3>1
  <2>3. \A ds \in DS, e \in Drives : Carries(ds, e, pt)' => e = disk
    BY <2>1, <2>5 DEF Carries
  <2>4. \A ds \in DS : <<disk, pt>> \in points'[ds] => ds \notin skip
    BY <2>1, <2>2
  <2> QED
    BY <2>1, <2>3, <2>4 DEF Carries
<1>5. CASE Survey
  BY <1>5 DEF Survey, Carries
<1>6. CASE Decide
  <2>1. UNCHANGED <<autos, points, skip, disk, pt, started>> /\ phase # "idle"
    BY <1>6 DEF Decide
  <2>2. \A ds \in DS : anchors'[ds] \subseteq anchors[ds]
    BY <1>6 DEF Decide
  <2>3. \A d \in Drives, ds \in DS : /\ held'[d][ds] \subseteq held[d][ds]
                                     /\ token'[d][ds] = token[d][ds] \/ token'[d][ds] = 0
    BY <1>6 DEF Decide, UpToCommon
  <2> QED
    BY <2>1, <2>2, <2>3 DEF Carries
<1>7. CASE BeginRound \/ EndRound \/ Verify \/ EndAnchors \/ DropCheck \/ Finish
  <2>1. CASE BeginRound \/ EndRound \/ Verify
    BY ZenonT(40), <2>1 DEF BeginRound, EndRound, Verify, Carries
  <2>2. CASE EndAnchors \/ DropCheck
    BY ZenonT(40), <2>2 DEF EndAnchors, DropCheck, Carries
  <2>3. CASE Finish
    BY <2>3 DEF Finish, Carries
  <2> QED
    BY <1>7, <2>1, <2>2, <2>3
<1>8. ASSUME NEW ds \in DS, TransferOk(ds) PROVE OwnPoint'
  BY <1>8 DEF TransferOk, Carries
<1>9. ASSUME NEW ds \in DS, TransferCut(ds) PROVE OwnPoint'
  <2>1. UNCHANGED <<autos, points, anchors, skip, disk, pt>> /\ phase # "idle"
    BY <1>9 DEF TransferCut
  <2>2. started' = started \cup {ds}
    BY <1>9 DEF TransferCut, Failed
  <2>3. \A d \in Drives, x \in DS : d # disk \/ x # ds =>
             token'[d][x] = token[d][x] /\ held'[d][x] = held[d][x]
    BY <1>9 DEF TransferCut
  <2> QED
    BY <2>1, <2>2, <2>3 DEF Carries
<1>10. ASSUME NEW ds \in DS, ResumeOk(ds) PROVE OwnPoint'
  BY <1>10 DEF ResumeOk, Carries
<1>25. ASSUME NEW ds \in DS, ResumeFails(ds) PROVE OwnPoint'
  <2>1. UNCHANGED <<autos, points, anchors, skip, disk, pt, held>> /\ phase # "idle"
    BY <1>25 DEF ResumeFails
  <2>2. started' = started \cup {ds}
    BY <1>25 DEF ResumeFails, Failed
  <2>3. \A d \in Drives, x \in DS : token'[d][x] = token[d][x] \/ token'[d][x] = 0
    BY <1>25 DEF ResumeFails
  <2> QED
    BY <2>1, <2>2, <2>3 DEF Carries
<1>11. ASSUME NEW ds \in DS, AnchorOk(ds) PROVE OwnPoint'
  BY <1>11 DEF AnchorOk, AnchorFor, Carries
<1>12. ASSUME NEW ds \in DS, AnchorFails(ds) PROVE OwnPoint'
  BY <1>12 DEF AnchorFails, Carries
<1>24. ASSUME NEW ds \in DS, UndoRemove(ds) PROVE OwnPoint'
  <2>1. UNCHANGED <<autos, anchors, skip, held, token, disk, pt, started>> /\ phase # "idle"
    BY <1>24 DEF UndoRemove
  <2>2. \A x \in DS : points'[x] \subseteq points[x]
    BY <1>24, UndoRemoved
  <2> QED
    BY <2>1, <2>2 DEF Carries
<1>13. CASE AnchorHeld
  <2>1. \A ds \in Bpool : anchors'[ds] = anchors[ds]
    BY <1>13 DEF AnchorHeld, Unanchored, DS
  <2> QED
    BY <1>13, <2>1 DEF AnchorHeld, Carries
<1>14. ASSUME NEW v \in verdicts, Drop(v) PROVE OwnPoint'
  <2>1. UNCHANGED <<autos, skip, held, token, disk, pt, started>> /\ phase # "idle"
    BY <1>14 DEF Drop
  <2>2. \A x \in DS : points'[x] \subseteq points[x]
    BY <1>14, Dropped
  <2>3. \A x \in DS, e \in Drives : Carries(x, e, pt)' => Carries(x, e, pt)
    BY <1>14, <2>1, DropCarries DEF Carries
  <2> QED
    BY <2>1, <2>2, <2>3
<1>15. ASSUME NEW v \in verdicts, DropFails(v) PROVE OwnPoint'
  BY <1>15 DEF DropFails, Carries
<1>16. CASE UndoRead \/ UndoBlind \/ UndoEnd
  <2>1. CASE UndoRead
    BY <2>1 DEF UndoRead, Carries
  <2>2. CASE UndoBlind
    BY <2>2 DEF UndoBlind, Carries
  <2>3. CASE UndoEnd
    BY <2>3 DEF UndoEnd, Carries
  <2> QED
    BY <1>16, <2>1, <2>2, <2>3
<1>17. CASE SanoidTake
  <2>1. UNCHANGED <<points, anchors, skip, held, token, phase, disk, pt, started>>
    BY <1>17 DEF SanoidTake
  <2>2. \A ds \in DS : pt \notin autos[ds] => pt \notin autos'[ds]
    BY <1>17 DEF SanoidTake, Fresh
  <2> QED
    BY <2>1, <2>2 DEF Carries
<1>18. ASSUME NEW ds \in DS, SanoidPrune(ds) PROVE OwnPoint'
  <2>1. UNCHANGED <<points, anchors, skip, held, token, phase, disk, pt, started>>
    BY <1>18 DEF SanoidPrune
  <2>2. \A x \in DS : pt \notin autos[x] => pt \notin autos'[x]
    BY <1>18 DEF SanoidPrune
  <2> QED
    BY <2>1, <2>2 DEF Carries
<1>19. ASSUME NEW ds \in DS, PruneOrigin(ds) \/ PruneUnowned(ds) PROVE OwnPoint'
  BY <1>19 DEF PruneOrigin, PruneUnowned
<1>21. ASSUME NEW c \in Mounted, Touch(c[1], c[2]) PROVE OwnPoint'
  BY <1>21 DEF Touch
<1>22. ASSUME NEW ds \in Excludable, Exclude(ds) PROVE OwnPoint'
  BY <1>22 DEF Exclude
<1>23. ASSUME NEW c \in Prunable, DrivePrune(c[1], c[2]) PROVE OwnPoint'
  BY <1>23 DEF DrivePrune
<1> QED
  BY <1>1, <1>2, <1>3, <1>4, <1>5, <1>6, <1>7, <1>8, <1>9, <1>10, <1>11, <1>12, <1>13,
     <1>14, <1>15, <1>16, <1>17, <1>18, <1>19, <1>21, <1>22, <1>23, <1>24, <1>25
  DEF Next, RunStep, Sanoid, Between

(* What the memory of a run is about changes only where the run is.        *)
LEMMA PlansStep == ASSUME Inv, [Next]_vars PROVE Plans'
<1> USE EngineAssumption DEF Inv, Typed, Plans
<1> USE DEF DropMemory, EnterUndo, Forget
<1>1. CASE UNCHANGED vars
  BY <1>1
<1>2. CASE Fault
  BY <1>2 DEF Fault, Abort, Signal, Kill, Unverified
<1>3. CASE Between
  BY <1>3 DEF Between, Start, PruneOrigin, PruneUnowned, Touch, Exclude, DrivePrune
<1>4. CASE Sanoid
  BY <1>4 DEF Sanoid, SanoidTake, SanoidPrune
<1>5. CASE Survey
  <2>1. PICK cut : token'[disk] = cut /\ plan' = PlanWith(cut)
    BY <1>5 DEF Survey
  <2> QED
    BY <1>5, <2>1, PlanOf DEF Survey
<1>6. CASE BeginRound
  <2>1. \A ds \in todo' : /\ plan'[ds] \in {"NEW", "RESUME", "INCREMENTAL", "VIA_BOOKMARK"}
                          /\ ds \in DS /\ plan'[ds] = PlanWith(token[disk])[ds]
    BY <1>6 DEF BeginRound, TRANSFERABLE
  <2> QED
    BY <1>6, <2>1, PlanOf DEF BeginRound
<1>7. CASE \/ TakeRpool \/ TakeBpool \/ Decide \/ EndRound \/ Verify \/ EndAnchors
           \/ AnchorHeld \/ DropCheck \/ Finish \/ UndoRead \/ UndoBlind \/ UndoEnd
  BY <1>7 DEF TakeRpool, TakeBpool, TakeOn, Decide, EndRound, Verify, EndAnchors,
              AnchorHeld, DropCheck, Finish, UndoRead, UndoBlind, UndoEnd
<1>8. ASSUME NEW ds \in DS, TransferOk(ds) PROVE Plans'
  BY <1>8 DEF TransferOk
<1>9. ASSUME NEW ds \in DS, TransferCut(ds) PROVE Plans'
  <2>1. UNCHANGED <<phase, disk, plan>> /\ phase = "transfer" /\ todo' \subseteq todo \ {ds}
    BY <1>9 DEF TransferCut, Failed
  <2>2. \A x \in DS : x # ds => token'[disk][x] = token[disk][x] /\ held'[disk][x] = held[disk][x]
    BY <1>9 DEF TransferCut
  <2> QED
    BY <2>1, <2>2
<1>10. ASSUME NEW ds \in DS, ResumeOk(ds) PROVE Plans'
  BY <1>10 DEF ResumeOk
<1>11. ASSUME NEW ds \in DS, ResumeFails(ds) PROVE Plans'
  <2>1. UNCHANGED <<phase, disk, plan, held>> /\ phase = "transfer" /\ todo' \subseteq todo \ {ds}
    BY <1>11 DEF ResumeFails, Failed
  <2>2. \A x \in DS : x # ds => token'[disk][x] = token[disk][x]
    BY <1>11 DEF ResumeFails
  <2> QED
    BY <2>1, <2>2
<1>12. ASSUME NEW ds \in DS, AnchorOk(ds) \/ AnchorFails(ds) \/ UndoRemove(ds) PROVE Plans'
  BY <1>12 DEF AnchorOk, AnchorFails, UndoRemove
<1>13. ASSUME NEW v \in verdicts, Drop(v) \/ DropFails(v) PROVE Plans'
  BY <1>13 DEF Drop, DropFails
<1> QED
  BY <1>1, <1>2, <1>3, <1>4, <1>5, <1>6, <1>7, <1>8, <1>9, <1>10, <1>11, <1>12, <1>13
  DEF Next, RunStep

(* The point's own anchor is never dropped.                                *)
LEMMA PointAnchorKept ==
  ASSUME Inv, NEW v \in verdicts, Drop(v), NEW x \in DS, <<disk, pt>> \in anchors[x]
  PROVE  <<disk, pt>> \in anchors'[x]
<1>1. CASE v.release
  <2>1. Release(v.ds, <<v.drive, v.t>>)
    BY <1>1 DEF Drop
  <2>2. Typed /\ v.ds \in DS /\ <<v.drive, v.t>> \in Drives \X Nat
    BY VerdictType DEF Inv
  <2>3. anchors[x] \subseteq anchors'[x]
    BY <2>1, <2>2 DEF Release, Typed
  <2> QED
    BY <2>3
<1>2. CASE ~v.release
  <2>1. v.kind # "point" => v.t # pt
    BY <1>2 DEF Inv, Allowances, Allowed
  <2>2. anchors'[x] = IF v.kind # "point" /\ x = v.ds
                      THEN anchors[x] \ {<<v.drive, v.t>>} ELSE anchors[x]
    BY <1>2, Destroyed DEF Inv
  <2> QED
    BY <2>1, <2>2
<1> QED
  BY <1>1, <1>2

LEMMA NamesStep == ASSUME Inv, [Next]_vars PROVE Names'
<1> USE EngineAssumption DEF Inv, Typed, Names
<1> USE DEF DropMemory, EnterUndo, Forget
<1>1. CASE UNCHANGED vars
  BY <1>1
<1>2. CASE Fault
  BY <1>2 DEF Fault, Abort, Signal, Kill, Unverified
<1>3. CASE Between
  BY <1>3 DEF Between, Start, PruneOrigin, PruneUnowned, Touch, Exclude, DrivePrune
<1>4. CASE Sanoid
  BY <1>4 DEF Sanoid, SanoidTake, SanoidPrune
<1>5. CASE \/ TakeRpool \/ TakeBpool \/ Survey \/ Decide \/ BeginRound \/ EndRound \/ Verify
           \/ EndAnchors \/ DropCheck \/ Finish \/ UndoRead \/ UndoBlind \/ UndoEnd
  BY <1>5 DEF TakeRpool, TakeBpool, TakeOn, Survey, Decide, BeginRound, EndRound, Verify,
              EndAnchors, DropCheck, Finish, UndoRead, UndoBlind, UndoEnd
<1>6. CASE AnchorHeld
  <2>1. \A ds \in DS : anchors[ds] \subseteq anchors'[ds]
    BY <1>6 DEF AnchorHeld
  <2>2. \A ds \in named' : ds \in named \/ <<disk, pt>> \in anchors'[ds]
    BY <1>6 DEF AnchorHeld
  <2> QED
    BY <1>6, <2>1, <2>2 DEF AnchorHeld
<1>7. ASSUME NEW ds \in DS, TransferOk(ds) \/ TransferCut(ds) \/ ResumeOk(ds) \/ ResumeFails(ds)
      PROVE  Names'
  BY <1>7 DEF TransferOk, TransferCut, ResumeOk, ResumeFails
<1>8. ASSUME NEW ds \in DS, AnchorOk(ds) PROVE Names'
  <2>1. UNCHANGED <<phase, disk, pt>> /\ named' = named \cup {ds} /\ phase \in {"anchor", "undoAnchor"}
    BY <1>8 DEF AnchorOk
  <2>2. \A x \in DS : anchors[x] \subseteq anchors'[x]
    BY <1>8 DEF AnchorOk, AnchorFor
  <2>3. <<disk, pt>> \in anchors'[ds]
    BY <1>8 DEF AnchorOk, AnchorFor
  <2> QED
    BY <2>1, <2>2, <2>3
<1>9. ASSUME NEW ds \in DS, AnchorFails(ds) \/ UndoRemove(ds) PROVE Names'
  BY <1>9 DEF AnchorFails, UndoRemove
<1>10. ASSUME NEW v \in verdicts, Drop(v) PROVE Names'
  BY <1>10, PointAnchorKept DEF Drop
<1>11. ASSUME NEW v \in verdicts, DropFails(v) PROVE Names'
  BY <1>11 DEF DropFails
<1> QED
  BY <1>1, <1>2, <1>3, <1>4, <1>5, <1>6, <1>7, <1>8, <1>9, <1>10, <1>11 DEF Next, RunStep

(* drop_check's verdicts are all allowed.                                  *)
LEMMA VerdictsAllowed ==
  ASSUME Inv, phase # "idle", NEW v \in Verdicts
  PROVE  Allowed(v)
<1> USE DEF Inv
<1> DEFINE p == <<v.drive, v.t>>
<1>1. v.ds \in DS /\ v.drive \in Drives
  BY DEF Verdicts
<1>2. CASE v.kind = "point"
  <2>1. p \in points[v.ds] /\ PointGoes(v.ds, p) /\ v.release = Releases(v.ds, p)
    BY <1>2 DEF Verdicts
  <2>2. CASE Releases(v.ds, p)
    BY <2>1, <2>2 DEF Allowed
  <2>3. CASE ~Releases(v.ds, p)
    <3>1. v.ds \in Wanted /\ v.drive = disk
      BY <1>1, <2>1, <2>3 DEF Releases, IsOwn, OwnPoint, Wanted
    <3>2. \/ v.t = pt /\ pt \notin held[disk][v.ds]
          \/ v.ds \in named /\ pt \in held[disk][v.ds]
      BY <2>1, <3>1 DEF PointGoes, IsOwn, Verified
    <3> QED
      BY <1>2, <3>1, <3>2 DEF Allowed, Names
  <2> QED
    BY <2>2, <2>3
<1>3. CASE v.kind # "point"
  <2>1. AnchorGoes(v.ds, p)
    BY <1>3 DEF Verdicts
  <2> QED
    BY <2>1 DEF AnchorGoes, Verified, Allowed, Names
<1> QED
  BY <1>2, <1>3

LEMMA AllowancesStep == ASSUME Inv, [Next]_vars PROVE Allowances'
<1> USE EngineAssumption DEF Inv, Typed, Allowances
<1> USE DEF DropMemory, EnterUndo, Forget
<1>1. CASE UNCHANGED vars
  BY <1>1 DEF Allowed
<1>2. CASE Fault
  BY <1>2 DEF Fault, Abort, Signal, Kill, Unverified
<1>3. CASE Between
  BY <1>3 DEF Between, Start, PruneOrigin, PruneUnowned, Touch, Exclude, DrivePrune
<1>4. CASE Sanoid
  <2>1. UNCHANGED <<phase, disk, pt, held, anchors, verdicts>>
    BY <1>4 DEF Sanoid, SanoidTake, SanoidPrune
  <2> QED
    BY <2>1 DEF Allowed
<1>5. CASE \/ TakeRpool \/ TakeBpool \/ Survey \/ Decide \/ BeginRound \/ EndRound \/ Verify
           \/ EndAnchors \/ AnchorHeld \/ UndoRead \/ UndoBlind \/ UndoEnd
  BY <1>5 DEF TakeRpool, TakeBpool, TakeOn, Survey, Decide, BeginRound, EndRound, Verify,
              EndAnchors, AnchorHeld, UndoRead, UndoBlind, UndoEnd
<1>6. CASE DropCheck
  <2>1. \A v \in verdicts' : Allowed(v)
    BY <1>6, VerdictsAllowed DEF DropCheck
  <2> QED
    BY <1>6, <2>1 DEF DropCheck, Allowed
<1>7. ASSUME NEW ds \in DS, TransferOk(ds) \/ TransferCut(ds) \/ ResumeOk(ds) \/ ResumeFails(ds)
      PROVE  Allowances'
  BY <1>7 DEF TransferOk, TransferCut, ResumeOk, ResumeFails
<1>8. ASSUME NEW ds \in DS, AnchorOk(ds) \/ AnchorFails(ds) \/ UndoRemove(ds) PROVE Allowances'
  BY <1>8 DEF AnchorOk, AnchorFails, UndoRemove
<1>9. ASSUME NEW v \in verdicts, Drop(v) PROVE Allowances'
  <2>1. UNCHANGED <<phase, disk, pt, held>> /\ verdicts' \subseteq verdicts
    BY <1>9 DEF Drop
  <2>2. \A w \in verdicts : <<disk, pt>> \in anchors[w.ds] => <<disk, pt>> \in anchors'[w.ds]
    BY <1>9, VerdictType, PointAnchorKept
  <2> QED
    BY <2>1, <2>2 DEF Allowed
<1>10. ASSUME NEW v \in verdicts, DropFails(v) PROVE Allowances'
  BY <1>10 DEF DropFails, Allowed
<1>11. CASE Finish
  BY <1>11 DEF Finish
<1> QED
  BY <1>1, <1>2, <1>3, <1>4, <1>5, <1>6, <1>7, <1>8, <1>9, <1>10, <1>11 DEF Next, RunStep

LEMMA UndoStep == ASSUME Inv, [Next]_vars PROVE Undo'
<1> USE EngineAssumption DEF Inv, Typed, Undo
<1> USE DEF DropMemory, EnterUndo, Forget
<1>1. CASE UNCHANGED vars
  BY <1>1 DEF Wanted
<1>2. CASE Fault
  BY <1>2 DEF Fault, Abort, Signal, Kill, Unverified
<1>3. CASE Between
  BY <1>3 DEF Between, Start, PruneOrigin, PruneUnowned, Touch, Exclude, DrivePrune
<1>4. CASE Sanoid
  <2>1. UNCHANGED <<phase, disk, pt, held, points, anchors, skip, kept, todo>>
    BY <1>4 DEF Sanoid, SanoidTake, SanoidPrune
  <2> QED
    BY <2>1 DEF Wanted
<1>5. CASE \/ TakeRpool \/ TakeBpool \/ Survey \/ Decide \/ BeginRound \/ EndRound \/ Verify
           \/ DropCheck \/ Finish \/ UndoEnd
  BY <1>5 DEF TakeRpool, TakeBpool, TakeOn, Survey, Decide, BeginRound, EndRound, Verify,
              DropCheck, Finish, UndoEnd
<1>6. CASE EndAnchors
  BY <1>6 DEF EndAnchors, Wanted
<1>7. CASE AnchorHeld
  <2>1. \A ds \in DS : anchors[ds] \subseteq anchors'[ds]
    BY <1>7 DEF AnchorHeld
  <2>2. UNCHANGED <<disk, pt, held, points>>
    BY <1>7 DEF AnchorHeld
  <2>3. CASE phase = "held"
    BY <1>7, <2>3 DEF AnchorHeld
  <2>4. CASE phase = "undoHeld"
    <3>1. phase' = "undoDrop" /\ todo' = {ds \in Wanted \ kept : <<disk, pt>> \in points[ds]}
      BY <1>7, <2>4 DEF AnchorHeld
    <3> QED
      BY <2>1, <2>2, <2>4, <3>1 DEF Wanted
  <2> QED
    BY <1>7, <2>3, <2>4 DEF AnchorHeld
<1>8. CASE UndoRead
  BY <1>8 DEF UndoRead, Wanted
<1>9. CASE UndoBlind
  BY <1>9 DEF UndoBlind, OwnPoint, Wanted
<1>10. ASSUME NEW ds \in DS, TransferOk(ds) \/ TransferCut(ds) \/ ResumeOk(ds) \/ ResumeFails(ds)
       PROVE  Undo'
  BY <1>10 DEF TransferOk, TransferCut, ResumeOk, ResumeFails
<1>11. ASSUME NEW ds \in DS, AnchorOk(ds) PROVE Undo'
  BY <1>11 DEF AnchorOk, AnchorFor, Wanted
<1>12. ASSUME NEW ds \in DS, AnchorFails(ds) PROVE Undo'
  BY <1>12 DEF AnchorFails, Wanted
<1>13. ASSUME NEW ds \in DS, UndoRemove(ds) PROVE Undo'
  BY <1>13 DEF UndoRemove
<1>14. ASSUME NEW v \in verdicts, Drop(v) \/ DropFails(v) PROVE Undo'
  BY <1>14 DEF Drop, DropFails
<1> QED
  BY <1>1, <1>2, <1>3, <1>4, <1>5, <1>6, <1>7, <1>8, <1>9, <1>10, <1>11, <1>12, <1>13, <1>14
  DEF Next, RunStep
-----------------------------------------------------------------------------
LEMMA InitInv == Init => Inv
<1> SUFFICES ASSUME Init PROVE Inv
  OBVIOUS
<1>1. Typed
  BY EngineAssumption DEF Init, Typed, Snapshots, Owned, Phases, State
<1>2. Fresh /\ CutBase /\ BaseKept
  BY DEF Init, Fresh, CutBase, BaseKept
<1>3. OwnPoint /\ Plans /\ Names /\ Allowances /\ Undo
  BY DEF Init, OwnPoint, Plans, Names, Allowances, Undo
<1> QED
  BY <1>1, <1>2, <1>3 DEF Inv

LEMMA InvStep == Inv /\ [Next]_vars => Inv'
<1> SUFFICES ASSUME Inv, [Next]_vars PROVE Inv'
  OBVIOUS
<1>1. Typed'
  BY TypedStep DEF Inv
<1> QED
  BY <1>1, FreshStep, CutBaseStep, BaseKeptStep, OwnPointStep, PlansStep, NamesStep,
     AllowancesStep, UndoStep DEF Inv

(* BaseKept for every instance: whatever a run and its cleanup, sanoid,    *)
(* the other drives and the user do, in any order, cut, killed or refused  *)
(* anywhere, drop_check, undo_point and release_point leave every copy on  *)
(* a drive a base in origin.                                               *)
THEOREM Bases == Spec => []BaseKept
<1>1. Inv => BaseKept
  BY DEF Inv
<1> QED
  BY InitInv, InvStep, <1>1, PTL DEF Spec

LEMMA OthersStep == ASSUME Inv, Next PROVE KeepsOthers
<1> SUFFICES ASSUME NEW ds \in DS, NEW e \in Drives, NEW t \in 0..txg, phase # "idle", e # disk
             PROVE  /\ <<e, t>> \in anchors[ds] => <<e, t>> \in anchors'[ds]
                    /\ <<e, t>> \in points[ds] => <<e, t>> \in points'[ds] \cup anchors'[ds]
  BY DEF KeepsOthers
<1> USE EngineAssumption DEF Inv, Typed
<1>1. CASE Fault \/ Sanoid \/ Between
  BY <1>1 DEF Fault, Abort, Signal, Kill, Unverified, Sanoid, SanoidTake, SanoidPrune,
              Between, Start, PruneOrigin, PruneUnowned, Touch, Exclude, DrivePrune
<1>2. CASE \/ Survey \/ BeginRound \/ EndRound \/ Verify \/ EndAnchors
           \/ DropCheck \/ Finish \/ UndoRead \/ UndoBlind \/ UndoEnd
  BY <1>2 DEF Survey, BeginRound, EndRound, Verify, EndAnchors, DropCheck, Finish,
              UndoRead, UndoBlind, UndoEnd
<1>3. CASE TakeRpool \/ TakeBpool
  BY <1>3 DEF TakeRpool, TakeBpool, TakeOn
<1>4. CASE Decide
  BY <1>4 DEF Decide
<1>5. CASE AnchorHeld
  BY <1>5 DEF AnchorHeld
<1>6. ASSUME NEW x \in DS, \/ TransferOk(x) \/ TransferCut(x) \/ ResumeOk(x) \/ ResumeFails(x)
                           \/ AnchorFails(x)
      PROVE  UNCHANGED <<points, anchors>>
  BY <1>6 DEF TransferOk, TransferCut, ResumeOk, ResumeFails, AnchorFails
<1>7. ASSUME NEW x \in DS, AnchorOk(x)
      PROVE  points[ds] \cup anchors[ds] \subseteq points'[ds] \cup anchors'[ds] /\ anchors[ds] \subseteq anchors'[ds]
  BY <1>7 DEF AnchorOk, AnchorFor
<1>8. ASSUME NEW x \in DS, UndoRemove(x)
      PROVE  UNCHANGED anchors /\ (<<e, t>> \in points[ds] => <<e, t>> \in points'[ds])
  <2>1. points'[ds] = points[ds] \/ points'[ds] = points[ds] \ {<<disk, pt>>}
    BY <1>8, UndoRemoved
  <2> QED
    BY <1>8, <2>1 DEF UndoRemove
<1>9. ASSUME NEW v \in verdicts, Drop(v)
      PROVE  /\ <<e, t>> \in anchors[ds] => <<e, t>> \in anchors'[ds]
             /\ <<e, t>> \in points[ds] => <<e, t>> \in points'[ds] \cup anchors'[ds]
  <2>1. CASE v.release
    <3>1. Release(v.ds, <<v.drive, v.t>>) /\ v.ds \in DS /\ <<v.drive, v.t>> \in Drives \X Nat
      BY <1>9, <2>1, VerdictType DEF Drop
    <3>2. points[ds] \cup anchors[ds] \subseteq points'[ds] \cup anchors'[ds]
      BY <3>1, ReleaseKeeps
    <3>3. anchors[ds] \subseteq anchors'[ds]
      BY <3>1 DEF Release
    <3> QED
      BY <3>2, <3>3
  <2>2. CASE ~v.release
    <3>1. v.drive = disk
      BY <2>2 DEF Allowances, Allowed
    <3>2. /\ points'[ds] = points[ds] \/ points'[ds] = points[ds] \ {<<v.drive, v.t>>}
          /\ anchors'[ds] = anchors[ds] \/ anchors'[ds] = anchors[ds] \ {<<v.drive, v.t>>}
      BY <1>9, <2>2, Destroyed
    <3> QED
      BY <3>1, <3>2
  <2> QED
    BY <2>1, <2>2
<1>10. ASSUME NEW v \in verdicts, DropFails(v) PROVE UNCHANGED <<points, anchors>>
  BY <1>10 DEF DropFails
<1> QED
  BY <1>1, <1>2, <1>3, <1>4, <1>5, <1>6, <1>7, <1>8, <1>9, <1>10 DEF Next, RunStep

(* OthersKept for every instance: no step of a run, of its drop or of its  *)
(* undo_point costs another drive an anchor or, before it is that drive's  *)
(* anchor, a point.                                                        *)
THEOREM Others == Spec => OthersKept
<1>1. Spec => []Inv
  BY InitInv, InvStep, PTL DEF Spec
<1>2. Inv /\ [Next]_vars => [KeepsOthers]_vars
  BY OthersStep
<1> QED
  BY <1>1, <1>2, PTL DEF Spec, OthersKept
-----------------------------------------------------------------------------
(* No drive is worked on between runs.                                     *)
Idle == phase = "idle" => disk = NoDrive

LEMMA IdleStep == ASSUME Idle, [Next]_vars PROVE Idle'
<1> USE EngineAssumption DEF Idle, DropMemory, EnterUndo, Forget
<1>1. CASE UNCHANGED vars
  BY <1>1
<1>2. CASE Fault
  BY <1>2 DEF Fault, Abort, Signal, Kill, Unverified
<1>3. CASE Between
  BY <1>3 DEF Between, Start, PruneOrigin, PruneUnowned, Touch, Exclude, DrivePrune
<1>4. CASE Sanoid
  BY <1>4 DEF Sanoid, SanoidTake, SanoidPrune
<1>5. CASE RunStep
  BY <1>5 DEF RunStep, TakeRpool, TakeBpool, TakeOn, Survey, Decide, BeginRound, EndRound,
              Verify, EndAnchors, AnchorHeld, DropCheck, Finish, UndoRead, UndoBlind, UndoEnd,
              TransferOk, TransferCut, ResumeOk, ResumeFails, AnchorOk, AnchorFails,
              UndoRemove, Drop, DropFails
<1> QED
  BY <1>1, <1>2, <1>3, <1>4, <1>5 DEF Next

(* What origin keeps for a drive and what that drive holds is the same.    *)
SameCopies(d) ==
  \A ds \in DS : /\ held'[d][ds] = held[d][ds]
                 /\ \A t \in Nat : <<d, t>> \in points'[ds] \cup anchors'[ds]
                                   <=> <<d, t>> \in points[ds] \cup anchors[ds]

LEMMA SameLinks ==
  ASSUME Typed, NEW d \in Drives, SameCopies(d), NEW ds \in DS
  PROVE  Link(d, ds)' = Link(d, ds)
<1>1. held[d][ds] \in SUBSET Nat
  BY DEF Typed, Snapshots
<1>2. \A t \in held[d][ds] : IsBase(d, ds, t)' <=> IsBase(d, ds, t)
  BY <1>1 DEF SameCopies, IsBase
<1> QED
  BY <1>2 DEF SameCopies, Link

(* A run and sanoid leave the copies of every other drive as they are.     *)
LEMMA OthersSame ==
  ASSUME Inv, RunStep \/ Fault \/ Sanoid, NEW d \in Drives, d # disk
  PROVE  SameCopies(d)
<1> USE EngineAssumption DEF Inv, Typed, Snapshots, Owned
<1> USE DEF DropMemory, EnterUndo, Forget
<1>1. CASE Fault \/ Sanoid
  BY <1>1 DEF Fault, Abort, Signal, Kill, Unverified, Sanoid, SanoidTake, SanoidPrune, SameCopies
<1>2. CASE \/ Survey \/ BeginRound \/ EndRound \/ Verify \/ EndAnchors
           \/ DropCheck \/ Finish \/ UndoRead \/ UndoBlind \/ UndoEnd
  BY <1>2 DEF Survey, BeginRound, EndRound, Verify, EndAnchors, DropCheck, Finish,
              UndoRead, UndoBlind, UndoEnd, SameCopies
<1>3. CASE TakeRpool \/ TakeBpool
  <2>1. UNCHANGED <<held, anchors>>
    BY <1>3 DEF TakeRpool, TakeBpool, TakeOn
  <2>2. \A ds \in DS : points'[ds] = points[ds] \/ points'[ds] = points[ds] \cup {<<disk, pt>>}
    BY <1>3 DEF TakeRpool, TakeBpool, TakeOn
  <2> QED
    BY <2>1, <2>2 DEF SameCopies
<1>4. CASE Decide
  <2>1. UNCHANGED points
    BY <1>4 DEF Decide
  <2>2. \A ds \in DS : held'[d][ds] = held[d][ds]
    BY <1>4 DEF Decide
  <2>3. \A ds \in DS : anchors'[ds] = anchors[ds] \/ anchors'[ds] = {a \in anchors[ds] : a[1] # disk}
    BY <1>4 DEF Decide
  <2>4. \A ds \in DS, t \in Nat : <<d, t>> \in anchors'[ds] <=> <<d, t>> \in anchors[ds]
    BY <2>3
  <2> QED
    BY <2>1, <2>2, <2>4 DEF SameCopies
<1>5. CASE AnchorHeld
  <2>1. UNCHANGED <<held, points>>
    BY <1>5 DEF AnchorHeld
  <2>2. \A ds \in DS : \/ anchors'[ds] = anchors[ds]
                       \/ anchors'[ds] = anchors[ds] \cup {<<disk, t>> : t \in Unanchored(ds)}
    BY <1>5 DEF AnchorHeld
  <2>3. \A ds \in DS, t \in Nat : <<d, t>> \in anchors'[ds] <=> <<d, t>> \in anchors[ds]
    BY <2>2
  <2> QED
    BY <2>1, <2>3 DEF SameCopies
<1>6. ASSUME NEW x \in DS, TransferOk(x) \/ TransferCut(x) \/ ResumeOk(x) \/ ResumeFails(x)
      PROVE  SameCopies(d)
  BY <1>6 DEF TransferOk, TransferCut, ResumeOk, ResumeFails, SameCopies
<1>7. ASSUME NEW x \in DS, AnchorOk(x) PROVE SameCopies(d)
  <2>1. UNCHANGED held
    BY <1>7 DEF AnchorOk
  <2>2. \A ds \in DS : anchors'[ds] = anchors[ds] \/ anchors'[ds] = anchors[ds] \cup {<<disk, pt>>}
    BY <1>7 DEF AnchorOk, AnchorFor
  <2>3. \A ds \in DS : points'[ds] = points[ds] \/ points'[ds] = points[ds] \ {<<disk, pt>>}
    BY <1>7 DEF AnchorOk, AnchorFor
  <2>7. \A t \in Nat : <<d, t>> # <<disk, pt>>
    OBVIOUS
  <2>4. \A ds \in DS, t \in Nat : <<d, t>> \in anchors'[ds] <=> <<d, t>> \in anchors[ds]
    <3> HIDE DEF Inv, Typed, Snapshots, Owned
    <3> QED
      BY <2>2, <2>7, Zenon
  <2>5. \A ds \in DS, t \in Nat : <<d, t>> \in points'[ds] <=> <<d, t>> \in points[ds]
    <3> HIDE DEF Inv, Typed, Snapshots, Owned
    <3> QED
      BY <2>3, <2>7, Zenon
  <2>6. \A ds \in DS, t \in Nat : <<d, t>> \in points'[ds] \cup anchors'[ds]
                                <=> <<d, t>> \in points[ds] \cup anchors[ds]
    BY <2>4, <2>5, Zenon
  <2> QED
    BY <2>1, <2>6, Zenon DEF SameCopies
<1>8. ASSUME NEW x \in DS, AnchorFails(x) PROVE SameCopies(d)
  BY <1>8 DEF AnchorFails, SameCopies
<1>9. ASSUME NEW x \in DS, UndoRemove(x) PROVE SameCopies(d)
  <2>1. UNCHANGED <<held, anchors>>
    BY <1>9 DEF UndoRemove
  <2>2. \A ds \in DS : points'[ds] = points[ds] \/ points'[ds] = points[ds] \ {<<disk, pt>>}
    BY <1>9, UndoRemoved
  <2> QED
    BY <2>1, <2>2 DEF SameCopies
<1>10. ASSUME NEW v \in verdicts, Drop(v) PROVE SameCopies(d)
  <2>1. UNCHANGED held
    BY <1>10 DEF Drop
  <2>2. \A ds \in DS : points'[ds] \cup anchors'[ds] \subseteq points[ds] \cup anchors[ds]
    BY <1>10, Dropped
  <2>3. CASE v.release
    <3>1. Release(v.ds, <<v.drive, v.t>>)
      BY <1>10, <2>3 DEF Drop
    <3>2. \A ds \in DS : points[ds] \cup anchors[ds] \subseteq points'[ds] \cup anchors'[ds]
      BY <3>1, VerdictType, ReleaseKeeps
    <3> QED
      BY <2>1, <2>2, <3>2 DEF SameCopies
  <2>4. CASE ~v.release
    <3>1. v.drive = disk
      BY <2>4 DEF Allowances, Allowed
    <3>2. \A ds \in DS :
            /\ points'[ds] = points[ds] \/ points'[ds] = points[ds] \ {<<v.drive, v.t>>}
            /\ anchors'[ds] = anchors[ds] \/ anchors'[ds] = anchors[ds] \ {<<v.drive, v.t>>}
      BY <1>10, <2>4, Destroyed
    <3> QED
      BY <2>1, <3>1, <3>2 DEF SameCopies
  <2> QED
    BY <2>3, <2>4
<1>11. ASSUME NEW v \in verdicts, DropFails(v) PROVE SameCopies(d)
  BY <1>11 DEF DropFails, SameCopies
<1> QED
  BY <1>1, <1>2, <1>3, <1>4, <1>5, <1>6, <1>7, <1>8, <1>9, <1>10, <1>11 DEF RunStep

(* A run touches its drive's copies only, and each of them keeps its link, *)
(* gets one or goes.                                                       *)
LEMMA RunLinks ==
  ASSUME Inv, RunStep \/ Fault \/ Sanoid, NEW d \in Drives, NEW ds \in DS
  PROVE  /\ d # disk => Link(d, ds)' = Link(d, ds)
         /\ Link(d, ds)' = Link(d, ds) \/ Link(d, ds)' \in {"none", "chained"}
<1>1. d # disk => Link(d, ds)' = Link(d, ds)
  BY OthersSame, SameLinks DEF Inv
<1>2. Linked(d, ds) => Linked(d, ds)'
  BY LinkStep
<1>3. Link(d, ds) = "cut" <=> ~Linked(d, ds)
  BY DEF Link, Linked
<1>4. Linked(d, ds)' => Link(d, ds)' \in {"none", "chained"}
  BY DEF Link, Linked
<1>5. ~Linked(d, ds)' => Link(d, ds)' = "cut"
  BY DEF Link, Linked
<1> QED
  BY <1>1, <1>2, <1>3, <1>4, <1>5

(* Every step of a run that goes on is a step of Chain's Work.             *)
LEMMA WorkStep ==
  ASSUME Inv, RunStep \/ Fault \/ Sanoid, disk \in Drives, UNCHANGED disk
  PROVE  Promise!Work
<1> DEFINE chain == [d \in Drives |-> [ds \in DS |-> Link(d, ds)]]
           links == [ds \in DS |-> Link(disk, ds)']
<1>1. chain' = [d \in Drives |-> [ds \in DS |-> Link(d, ds)']]
  OBVIOUS
<1>2. links \in [DS -> {"none", "chained", "cut"}]
  BY DEF Link
<1>3. \A ds \in DS : \/ links[ds] = chain[disk][ds]
                     \/ links[ds] \in {"none", "chained"}
  BY RunLinks
<1>4. \A d \in Drives, ds \in DS : d # disk => Link(d, ds)' = Link(d, ds)
  BY RunLinks
<1>5. chain' = [chain EXCEPT ![disk] = links]
  BY <1>1, <1>4
<1>6. disk # NoDrive
  BY EngineAssumption
<1> QED
  BY <1>2, <1>3, <1>5, <1>6 DEF Promise!Work, Promise!Links, Promise!MayBecome

(* The copies of every drive stay as they are.                             *)
LEMMA NoLinkMoves ==
  ASSUME Typed, \A d \in Drives : SameCopies(d)
  PROVE  UNCHANGED [d \in Drives |-> [ds \in DS |-> Link(d, ds)]]
<1>1. \A d \in Drives, ds \in DS : Link(d, ds)' = Link(d, ds)
  BY SameLinks
<1> QED
  BY <1>1

(* A step of a run ends it, in order, by a signal's cleanup or by a kill,  *)
(* or leaves it its drive.                                                 *)
LEMMA RunGoesOn ==
  ASSUME RunStep \/ Fault \/ Sanoid
  PROVE  \/ UNCHANGED disk
         \/ /\ phase # "idle" /\ disk' = NoDrive
            /\ UNCHANGED <<held, points, anchors>>
<1> USE DEF DropMemory, EnterUndo, Forget
<1>1. CASE Fault \/ Sanoid
  BY <1>1 DEF Fault, Abort, Signal, Kill, Unverified, Sanoid, SanoidTake, SanoidPrune
<1>2. CASE RunStep
  BY <1>2 DEF RunStep, TakeRpool, TakeBpool, TakeOn, Survey, Decide, BeginRound, EndRound,
              Verify, EndAnchors, AnchorHeld, DropCheck, Finish, UndoRead, UndoBlind, UndoEnd,
              TransferOk, TransferCut, ResumeOk, ResumeFails, AnchorOk, AnchorFails,
              UndoRemove, Drop, DropFails
<1> QED
  BY <1>1, <1>2

(* Between runs only sanoid is at work.                                    *)
LEMMA OnlySanoid ==
  ASSUME phase = "idle", RunStep \/ Fault \/ Sanoid
  PROVE  UNCHANGED <<held, points, anchors, disk>>
<1>1. ~RunStep /\ ~Fault
  BY DEF RunStep, TakeRpool, TakeBpool, TakeOn, Survey, Decide, BeginRound, EndRound,
         Verify, EndAnchors, AnchorHeld, DropCheck, Finish, UndoRead, UndoBlind, UndoEnd,
         TransferOk, TransferCut, ResumeOk, ResumeFails, AnchorOk, AnchorFails,
         UndoRemove, Drop, DropFails, Fault, Abort, Signal, Kill, Unverified, Undoable
<1> QED
  BY <1>1 DEF Sanoid, SanoidTake, SanoidPrune

(* What zark prune takes from one copy, on its drive or in origin, cuts    *)
(* that copy's chain or leaves everything as it was.                       *)
LEMMA ThinStep ==
  ASSUME Inv, Idle, NEW d \in Drives, NEW ds \in DS, phase = "idle", UNCHANGED disk,
         \A e \in Drives, x \in DS : e # d \/ x # ds => Link(e, x)' = Link(e, x),
         Link(d, ds)' = Link(d, ds) \/ (Link(d, ds) = "chained" /\ Link(d, ds)' = "cut")
  PROVE  Promise!Thin \/ UNCHANGED Promise!vars
<1> DEFINE chain == [e \in Drives |-> [x \in DS |-> Link(e, x)]]
<1>1. chain' = [e \in Drives |-> [x \in DS |-> Link(e, x)']]
  OBVIOUS
<1>2. CASE Link(d, ds)' = Link(d, ds)
  <2>1. chain' = chain
    BY <1>1, <1>2
  <2> QED
    BY <2>1 DEF Promise!vars
<1>3. CASE Link(d, ds) = "chained" /\ Link(d, ds)' = "cut"
  <2>1. chain' = [chain EXCEPT ![d][ds] = "cut"]
    BY <1>1, <1>3
  <2>2. chain[d][ds] = "chained" /\ disk = NoDrive
    BY <1>3 DEF Idle
  <2> QED
    BY <2>1, <2>2 DEF Promise!Thin
<1> QED
  BY <1>2, <1>3

LEMMA PruneUnownedThins ==
  ASSUME Inv, Idle, NEW ds \in DS, PruneUnowned(ds)
  PROVE  Promise!Thin \/ UNCHANGED Promise!vars
<1> USE DEF Inv, Typed, Snapshots, Owned
<1>1. PICK p \in points[ds] : points' = [points EXCEPT ![ds] = @ \ {p}]
  BY DEF PruneUnowned
<1>2. UNCHANGED <<held, anchors, disk>> /\ phase = "idle"
  BY DEF PruneUnowned
<1>3. PICK d \in Drives, u \in Nat : p = <<d, u>>
  OBVIOUS
<1>4. \A x \in DS : points'[x] = IF x = ds THEN points[x] \ {p} ELSE points[x]
  BY <1>1
<1>5. ASSUME NEW e \in Drives, NEW x \in DS, e # d \/ x # ds
      PROVE  Link(e, x)' = Link(e, x)
  <2>1. \A t \in held[e][x] : IsBase(e, x, t)' <=> IsBase(e, x, t)
    BY <1>2, <1>3, <1>4, <1>5 DEF IsBase
  <2> QED
    BY <1>2, <2>1 DEF Link
<1>6. \A t \in held[d][ds] : IsBase(d, ds, t)' => IsBase(d, ds, t)
  BY <1>2, <1>4 DEF IsBase
<1>7. Link(d, ds)' = Link(d, ds) \/ (Link(d, ds) = "chained" /\ Link(d, ds)' = "cut")
  BY <1>2, <1>6 DEF Link
<1> QED
  BY <1>2, <1>5, <1>7, ThinStep

LEMMA DrivePruneThins ==
  ASSUME Inv, Idle, NEW c \in Prunable, DrivePrune(c[1], c[2])
  PROVE  Promise!Thin \/ UNCHANGED Promise!vars
<1> DEFINE d == c[1]  ds == c[2]
<1>1. d \in Drives /\ ds \in DS
  BY EngineAssumption
<1>2. UNCHANGED <<points, anchors, disk>> /\ phase = "idle"
  BY DEF DrivePrune
<1>3. PICK t \in held[d][ds], u \in held[d][ds] :
        /\ t # u
        /\ held'[d][ds] = held[d][ds] \ {t}
        /\ \A e \in Drives, x \in DS : e # d \/ x # ds => held'[e][x] = held[e][x]
  BY Pruned DEF Inv
<1> HIDE DEF d, ds
<1>4. \A e \in Drives, x \in DS : e # d \/ x # ds => Link(e, x)' = Link(e, x)
  BY <1>2, <1>3 DEF Link, IsBase
<1>5. Link(d, ds)' = Link(d, ds) \/ (Link(d, ds) = "chained" /\ Link(d, ds)' = "cut")
  BY <1>2, <1>3 DEF Link, IsBase
<1> QED
  BY <1>1, <1>2, <1>4, <1>5, ThinStep

(* Every step of Engine is a step of Chain or changes nothing Chain sees.  *)
LEMMA ChainStep ==
  ASSUME Inv, Idle, [Next]_vars
  PROVE  [Promise!Next]_(Promise!vars)
<1> USE DEF Inv
<1>1. CASE RunStep \/ Fault \/ Sanoid
  <2>1. CASE phase # "idle" /\ UNCHANGED disk
    <3>1. disk \in Drives
      BY <2>1 DEF Typed
    <3> QED
      BY <1>1, <2>1, <3>1, WorkStep DEF Promise!Next
  <2>2. CASE phase # "idle" /\ disk' = NoDrive /\ UNCHANGED <<held, points, anchors>>
    <3>1. disk # NoDrive
      BY <2>2, EngineAssumption DEF Typed
    <3>2. UNCHANGED [d \in Drives |-> [ds \in DS |-> Link(d, ds)]]
      BY <2>2, NoLinkMoves DEF SameCopies
    <3> QED
      BY <2>2, <3>1, <3>2 DEF Promise!Next, Promise!End
  <2>3. CASE phase = "idle"
    <3>1. UNCHANGED <<held, points, anchors, disk>>
      BY <1>1, <2>3, OnlySanoid
    <3>2. UNCHANGED [d \in Drives |-> [ds \in DS |-> Link(d, ds)]]
      BY <3>1, NoLinkMoves DEF SameCopies
    <3> QED
      BY <3>1, <3>2 DEF Promise!vars
  <2> QED
    BY <1>1, <2>1, <2>2, <2>3, RunGoesOn
<1>2. CASE \/ \E e \in Drives : Start(e)
           \/ \E x \in DS : PruneOrigin(x)
           \/ \E c \in Mounted : Touch(c[1], c[2])
           \/ \E x \in Excludable : Exclude(x)
  <2>1. UNCHANGED [d \in Drives |-> [ds \in DS |-> Link(d, ds)]]
    BY <1>2, BetweenKeeps, NoLinkMoves DEF SameCopies
  <2>2. (disk = NoDrive /\ disk' \in Drives) \/ UNCHANGED disk
    BY <1>2 DEF Start, PruneOrigin, Touch, Exclude, Idle
  <2> QED
    BY <2>1, <2>2 DEF Promise!Next, Promise!Begin, Promise!vars
<1>3. ASSUME NEW ds \in DS, PruneUnowned(ds) PROVE [Promise!Next]_(Promise!vars)
  BY <1>3, PruneUnownedThins DEF Promise!Next
<1>4. ASSUME NEW c \in Prunable, DrivePrune(c[1], c[2]) PROVE [Promise!Next]_(Promise!vars)
  BY <1>4, DrivePruneThins DEF Promise!Next
<1>5. CASE UNCHANGED vars
  <2>1. UNCHANGED [d \in Drives |-> [ds \in DS |-> Link(d, ds)]]
    BY <1>5, NoLinkMoves DEF SameCopies
  <2> QED
    BY <1>5, <2>1 DEF Promise!vars
<1> QED
  BY <1>1, <1>2, <1>3, <1>4, <1>5 DEF Next, Between

(* Chained for every instance: replicate, undo_point, drop_check, prune    *)
(* and the decisions together implement Chain, so a run changes no copy    *)
(* but its own drive's and never leaves one it cannot continue.            *)
THEOREM Implements == Spec => Chained
<1>1. Spec => [](Inv /\ Idle)
  <2>1. Init => Idle
    BY DEF Init, Idle
  <2>2. Idle /\ [Next]_vars => Idle'
    BY IdleStep
  <2> QED
    BY <2>1, <2>2, InitInv, InvStep, PTL DEF Spec
<1>2. Init => Promise!Init
  BY DEF Init, Promise!Init, Link
<1>3. Inv /\ Idle /\ [Next]_vars => [Promise!Next]_(Promise!vars)
  BY ChainStep
<1> QED
  BY <1>1, <1>2, <1>3, PTL DEF Spec, Chained, Promise!Spec
-----------------------------------------------------------------------------
(* A snapshot is never 0, which stands for none.                           *)
Positive ==
  \A ds \in DS :
    /\ 0 \notin autos[ds]
    /\ \A d \in Drives : /\ <<d, 0>> \notin points[ds] \cup anchors[ds]
                         /\ 0 \notin held[d][ds]

LEMMA PositiveStep == ASSUME Inv, Positive, [Next]_vars PROVE Positive'
<1> USE EngineAssumption DEF Inv, Typed, Snapshots, Owned, Positive
<1> USE DEF DropMemory, EnterUndo, Forget
<1>1. CASE UNCHANGED vars \/ Fault
  BY <1>1 DEF Fault, Abort, Signal, Kill, Unverified
<1>2. CASE SanoidTake
  BY <1>2 DEF SanoidTake
<1>3. ASSUME NEW ds \in DS, SanoidPrune(ds) PROVE Positive'
  BY <1>3 DEF SanoidPrune
<1>4. CASE \/ \E e \in Drives : Start(e)
           \/ \E x \in DS : PruneOrigin(x)
           \/ \E c \in Mounted : Touch(c[1], c[2])
           \/ \E x \in Excludable : Exclude(x)
  <2>1. UNCHANGED autos
    BY <1>4 DEF Start, PruneOrigin, Touch, Exclude
  <2> QED
    BY <1>4, <2>1, BetweenKeeps
<1>5. ASSUME NEW ds \in DS, PruneUnowned(ds) PROVE Positive'
  BY <1>5 DEF PruneUnowned
<1>6. ASSUME NEW c \in Prunable, DrivePrune(c[1], c[2]) PROVE Positive'
  BY <1>6 DEF DrivePrune
<1>7. CASE TakeRpool \/ TakeBpool
  <2>1. UNCHANGED <<held, anchors, autos>> /\ pt # 0
    BY <1>7 DEF TakeRpool, TakeBpool, TakeOn, OwnPoint
  <2>2. \A ds \in DS : points'[ds] = points[ds] \/ points'[ds] = points[ds] \cup {<<disk, pt>>}
    BY <1>7 DEF TakeRpool, TakeBpool, TakeOn
  <2>3. ASSUME NEW ds \in DS, NEW d \in Drives, <<d, 0>> \in points'[ds] PROVE FALSE
    <3>1. points'[ds] = points[ds] \/ points'[ds] = points[ds] \cup {<<disk, pt>>}
      BY <2>2
    <3>2. <<d, 0>> = <<disk, pt>>
      BY <2>3, <3>1
    <3> QED
      BY <2>1, <3>2
  <2> QED
    BY <2>1, <2>3
<1>8. CASE \/ Survey \/ BeginRound \/ EndRound \/ Verify \/ EndAnchors
           \/ DropCheck \/ Finish \/ UndoRead \/ UndoBlind \/ UndoEnd
  BY <1>8 DEF Survey, BeginRound, EndRound, Verify, EndAnchors, DropCheck, Finish,
              UndoRead, UndoBlind, UndoEnd
<1>9. CASE Decide
  <2>1. UNCHANGED <<autos, points>>
    BY <1>9 DEF Decide
  <2>2. \A ds \in DS : anchors'[ds] \subseteq anchors[ds]
    BY <1>9 DEF Decide
  <2>3. \A d \in Drives, ds \in DS : held'[d][ds] \subseteq held[d][ds]
    BY <1>9 DEF Decide, UpToCommon
  <2> QED
    BY <2>1, <2>2, <2>3
<1>10. CASE AnchorHeld
  <2>1. \A ds \in DS : anchors'[ds] \subseteq
                         anchors[ds] \cup {<<disk, t>> : t \in Unanchored(ds)}
    BY <1>10 DEF AnchorHeld
  <2>2. disk \in Drives /\ \A ds \in DS : 0 \notin Unanchored(ds)
    BY <1>10 DEF AnchorHeld, Unanchored
  <2> QED
    BY <1>10, <2>1, <2>2 DEF AnchorHeld
<1>11. ASSUME NEW x \in DS, TransferOk(x) \/ TransferCut(x) PROVE Positive'
  <2>1. 0 \notin Stream(x)
    <3>1. disk \in Drives /\ pt # 0
      BY <1>11 DEF TransferOk, TransferCut, OwnPoint
    <3> QED
      BY <3>1, StreamOf, SnapsOf DEF Carries
  <2>2. UNCHANGED <<autos, points, anchors>>
    BY <1>11 DEF TransferOk, TransferCut
  <2>3. \E got \in SUBSET Stream(x) : held' = [held EXCEPT ![disk][x] = @ \cup got]
    BY <1>11 DEF TransferOk, TransferCut
  <2> QED
    BY <2>1, <2>2, <2>3
<1>12. ASSUME NEW x \in DS, ResumeOk(x) PROVE Positive'
  BY <1>12 DEF ResumeOk, Plans
<1>13. ASSUME NEW x \in DS, ResumeFails(x) \/ AnchorFails(x) PROVE Positive'
  BY <1>13 DEF ResumeFails, AnchorFails
<1>14. ASSUME NEW x \in DS, AnchorOk(x) PROVE Positive'
  <2>1. UNCHANGED <<held, autos>> /\ pt # 0
    BY <1>14 DEF AnchorOk, OwnPoint
  <2>2. \A ds \in DS : /\ anchors'[ds] \subseteq anchors[ds] \cup {<<disk, pt>>}
                       /\ points'[ds] \subseteq points[ds]
    BY <1>14 DEF AnchorOk, AnchorFor
  <2> QED
    BY <2>1, <2>2
<1>15. ASSUME NEW x \in DS, UndoRemove(x) PROVE Positive'
  <2>1. \A ds \in DS : points'[ds] = points[ds] \/ points'[ds] = points[ds] \ {<<disk, pt>>}
    BY <1>15, UndoRemoved
  <2> QED
    BY <1>15, <2>1 DEF UndoRemove
<1>16. ASSUME NEW v \in verdicts, Drop(v) PROVE Positive'
  <2>1. \A ds \in DS : points'[ds] \cup anchors'[ds] \subseteq points[ds] \cup anchors[ds]
    BY <1>16, Dropped
  <2> QED
    BY <1>16, <2>1 DEF Drop
<1>17. ASSUME NEW v \in verdicts, DropFails(v) PROVE Positive'
  BY <1>17 DEF DropFails
<1> QED
  BY <1>1, <1>2, <1>3, <1>4, <1>5, <1>6, <1>7, <1>8, <1>9, <1>10, <1>11, <1>12, <1>13, <1>14,
     <1>15, <1>16, <1>17 DEF Next, RunStep, Sanoid, Between

(* What the final survey found at the point holds it, and origin keeps it  *)
(* for the drive, until the run records it.                                *)
Whole ==
  phase \in {"anchor", "held", "check", "drop"} =>
    \A ds \in DS : /\ plan[ds] = "EXCLUDED" => ds \in skip
                   /\ plan[ds] = "AT_POINT" =>
                        pt \in held[disk][ds] /\ IsBase(disk, ds, pt)

(* A dataset a survey finds at the point has the run's point on both sides.*)
LEMMA AtPoint ==
  ASSUME Inv, Positive, disk \in Drives, NEW cut, NEW ds \in DS
  PROVE  /\ PlanWith(cut)[ds] = "EXCLUDED" => ds \in skip
         /\ PlanWith(cut)[ds] = "AT_POINT" =>
              pt \in held[disk][ds] /\ <<disk, pt>> \in points[ds]
<1> DEFINE o == OriginOf(ds)
           d == [DestOf(disk, ds) EXCEPT !.token = cut[ds]]
<1>1. d.snaps = held[disk][ds]
  BY DEF DestOf
<1>2. ds \notin skip => PlanWith(cut)[ds] = PlanDataset(o, d, PointOf(ds))
  BY DEF PlanWith
<1>3. ds \in skip => PlanWith(cut)[ds] = "EXCLUDED"
  BY DEF PlanWith
<1> HIDE DEF o, d
<1>4. PlanDataset(o, d, PointOf(ds)) # "EXCLUDED"
  BY DEF PlanDataset, PlanUnwritten
<1>5. PlanDataset(o, d, PointOf(ds)) = "AT_POINT" => PointOf(ds) \in d.snaps
  BY DEF PlanDataset, PlanUnwritten
<1>6. 0 \notin held[disk][ds]
  BY DEF Positive
<1> QED
  BY <1>1, <1>2, <1>3, <1>4, <1>5, <1>6 DEF PointOf

LEMMA WholeStep == ASSUME Inv, Positive, Whole, [Next]_vars PROVE Whole'
<1> USE EngineAssumption DEF Inv, Typed, Whole
<1> USE DEF DropMemory, EnterUndo, Forget
<1>1. CASE UNCHANGED vars
  BY <1>1 DEF IsBase
<1>2. CASE Fault
  BY <1>2 DEF Fault, Abort, Signal, Kill, Unverified
<1>3. CASE Between
  BY <1>3 DEF Between, Start, PruneOrigin, PruneUnowned, Touch, Exclude, DrivePrune
<1>4. CASE Sanoid
  <2>1. UNCHANGED <<phase, disk, pt, held, points, anchors, skip, plan>>
    BY <1>4 DEF Sanoid, SanoidTake, SanoidPrune
  <2> QED
    BY <2>1 DEF IsBase
<1>5. CASE \/ TakeRpool \/ TakeBpool \/ Survey \/ Decide \/ BeginRound \/ EndRound
           \/ Finish \/ UndoRead \/ UndoBlind \/ UndoEnd
  BY <1>5 DEF TakeRpool, TakeBpool, TakeOn, Survey, Decide, BeginRound, EndRound,
              Finish, UndoRead, UndoBlind, UndoEnd
<1>6. CASE Verify
  <2>1. /\ plan' = PlanWith(token[disk]) /\ disk \in Drives
        /\ UNCHANGED <<disk, pt, held, points, anchors, skip>>
    BY <1>6 DEF Verify
  <2> QED
    BY <2>1, AtPoint DEF IsBase
<1>7. CASE EndAnchors \/ DropCheck
  <2>1. /\ UNCHANGED <<disk, pt, held, points, anchors, skip, plan>>
        /\ phase' \in {"anchor", "held", "check", "drop"} => phase \in {"anchor", "check"}
    BY <1>7 DEF EndAnchors, DropCheck
  <2> QED
    BY <2>1 DEF IsBase
<1>8. CASE AnchorHeld
  <2>1. UNCHANGED <<disk, pt, held, points, skip, plan>>
    BY <1>8 DEF AnchorHeld
  <2>2. \A ds \in DS : anchors[ds] \subseteq anchors'[ds]
    BY <1>8 DEF AnchorHeld
  <2>3. phase' \in {"anchor", "held", "check", "drop"} => phase = "held"
    BY <1>8 DEF AnchorHeld
  <2> QED
    BY <2>1, <2>2, <2>3 DEF IsBase
<1>9. ASSUME NEW x \in DS, TransferOk(x) \/ TransferCut(x) \/ ResumeOk(x) \/ ResumeFails(x)
      PROVE  Whole'
  BY <1>9 DEF TransferOk, TransferCut, ResumeOk, ResumeFails
<1>10. ASSUME NEW x \in DS, AnchorOk(x) PROVE Whole'
  <2>1. UNCHANGED <<phase, disk, pt, held, skip, plan>>
    BY <1>10 DEF AnchorOk
  <2>2. \A ds \in DS : points[ds] \cup anchors[ds] \subseteq points'[ds] \cup anchors'[ds]
    BY <1>10 DEF AnchorOk, AnchorFor
  <2> QED
    BY <2>1, <2>2 DEF IsBase
<1>11. ASSUME NEW x \in DS, AnchorFails(x) \/ UndoRemove(x) PROVE Whole'
  <2>1. CASE AnchorFails(x)
    <3>1. UNCHANGED <<phase, disk, pt, held, points, anchors, skip, plan>>
      BY <2>1 DEF AnchorFails
    <3> QED
      BY <3>1 DEF IsBase
  <2>2. CASE UndoRemove(x)
    BY <2>2 DEF UndoRemove
  <2> QED
    BY <1>11, <2>1, <2>2
<1>12. ASSUME NEW v \in verdicts, Drop(v) PROVE Whole'
  <2>1. UNCHANGED <<phase, disk, pt, held, skip, plan>> /\ phase = "drop"
    BY <1>12 DEF Drop
  <2>2. ASSUME NEW ds \in DS, pt \in held[disk][ds], IsBase(disk, ds, pt)
        PROVE  <<disk, pt>> \in points'[ds] \cup anchors'[ds]
    <3>1. CASE <<disk, pt>> \in anchors[ds]
      BY <1>12, <3>1, PointAnchorKept
    <3>2. CASE <<disk, pt>> \notin anchors[ds]
      <4>1. <<disk, pt>> \in points[ds]
        BY <2>2, <3>2 DEF IsBase
      <4>2. CASE v.release
        <5>1. Release(v.ds, <<v.drive, v.t>>)
          BY <1>12, <4>2 DEF Drop
        <5> QED
          BY <4>1, <5>1, VerdictType, ReleaseKeeps
      <4>3. CASE ~v.release
        <5>1. v.kind = "point" /\ v.ds = ds => v.t # pt
          BY <2>2, <3>2, <4>3 DEF Allowances, Allowed
        <5>2. points'[ds] = IF v.kind = "point" /\ ds = v.ds
                            THEN points[ds] \ {<<v.drive, v.t>>} ELSE points[ds]
          BY <1>12, <4>3, Destroyed
        <5> QED
          BY <4>1, <5>1, <5>2
      <4> QED
        BY <4>2, <4>3
    <3> QED
      BY <3>1, <3>2
  <2> QED
    BY <2>1, <2>2 DEF IsBase
<1>13. ASSUME NEW v \in verdicts, DropFails(v) PROVE Whole'
  BY <1>13 DEF DropFails, IsBase
<1> QED
  BY <1>1, <1>2, <1>3, <1>4, <1>5, <1>6, <1>7, <1>8, <1>9, <1>10, <1>11, <1>12, <1>13
  DEF Next, RunStep

(* Only the end of a run that reached its point records one.               *)
LEMMA RecordedWhole ==
  ASSUME Inv, Whole, Next, NEW d \in Drives, NEW t \in complete'[d] \ complete[d],
         NEW ds \in Wanted
  PROVE  t \in held[d][ds] /\ IsBase(d, ds, t)
<1>1. Finish
  <2> USE DEF DropMemory, EnterUndo, Forget
  <2>1. ~(Fault \/ Sanoid \/ Between)
    BY DEF Fault, Abort, Signal, Kill, Unverified, Sanoid, SanoidTake, SanoidPrune,
           Between, Start, PruneOrigin, PruneUnowned, Touch, Exclude, DrivePrune
  <2>2. \A x \in DS : ~(\/ TransferOk(x) \/ TransferCut(x) \/ ResumeOk(x) \/ ResumeFails(x)
                        \/ AnchorOk(x) \/ AnchorFails(x) \/ UndoRemove(x))
    BY DEF TransferOk, TransferCut, ResumeOk, ResumeFails, AnchorOk, AnchorFails, UndoRemove
  <2>3. \A v \in verdicts : ~(Drop(v) \/ DropFails(v))
    BY DEF Drop, DropFails
  <2>4. ~(\/ TakeRpool \/ TakeBpool \/ Survey \/ Decide \/ BeginRound \/ EndRound
          \/ Verify \/ EndAnchors \/ AnchorHeld \/ DropCheck
          \/ UndoRead \/ UndoBlind \/ UndoEnd)
    BY DEF TakeRpool, TakeBpool, TakeOn, Survey, Decide, BeginRound, EndRound,
           Verify, EndAnchors, AnchorHeld, DropCheck, UndoRead, UndoBlind, UndoEnd
  <2> QED
    BY <2>1, <2>2, <2>3, <2>4 DEF Next, RunStep
<1>2. disk \in Drives /\ phase = "drop"
  BY <1>1 DEF Finish, Inv, Typed
<1>3. Reached(plan) /\ d = disk /\ t = pt
  BY <1>1, <1>2 DEF Finish, Inv, Typed
<1>4. ds \in DS /\ plan[ds] = "AT_POINT"
  BY <1>2, <1>3 DEF Reached, Whole, Wanted, Inv, Typed
<1> QED
  BY <1>2, <1>3, <1>4 DEF Whole

(* CompleteIsWhole for every instance: record_complete writes a point on a *)
(* drive only while every expected dataset's copy there holds it and       *)
(* origin keeps it for that drive.                                         *)
THEOREM Complete == Spec => CompleteIsWhole
<1>1. Spec => [](Inv /\ Positive /\ Whole)
  <2>1. Init => Positive /\ Whole
    BY DEF Init, Positive, Whole
  <2>2. Inv /\ Positive /\ Whole /\ [Next]_vars => Positive' /\ Whole'
    BY PositiveStep, WholeStep
  <2> QED
    BY <2>1, <2>2, InitInv, InvStep, PTL DEF Spec
<1>2. Inv /\ Positive /\ Whole /\ [Next]_vars
        => [\A d \in Drives : \A t \in complete'[d] \ complete[d] :
              \A ds \in Wanted : t \in held[d][ds] /\ IsBase(d, ds, t)]_vars
  BY RecordedWhole
<1> QED
  BY <1>1, <1>2, PTL DEF Spec, CompleteIsWhole
-----------------------------------------------------------------------------
(* A non-empty set of snapshots taken so far has a newest one.             *)
LEMMA NewestExists ==
  ASSUME NEW n \in Nat, NEW S \in SUBSET Nat, S # {}, \A t \in S : t <= n
  PROVE  \E t \in S : IsNewest(t, S)
<1> DEFINE ages == {n - t : t \in S}
           R == {ss \in Nat \X Nat : ss[1] < ss[2]}
<1>1. ages \subseteq Nat
  OBVIOUS
<1>7. ages # {}
  OBVIOUS
<1>2. IsWellFoundedOn(R, Nat)
  BY NatLessThanWellFounded, Zenon DEF OpToRel
<1>3. PICK a \in ages : \A y \in ages : ~(<<y, a>> \in R)
  <2> HIDE DEF ages, R
  <2> QED
    BY <1>1, <1>2, <1>7, WFMin
<1>4. ASSUME NEW y \in ages PROVE ~(y < a)
  <2>1. ~(<<y, a>> \in R) /\ y \in Nat /\ a \in Nat
    BY <1>1, <1>3
  <2> QED
    BY <2>1
<1>5. PICK t \in S : a = n - t
  BY <1>3
<1>6. ASSUME NEW u \in S PROVE u <= t
  <2>1. n - u \in ages
    OBVIOUS
  <2>2. ~(n - u < n - t)
    BY <1>4, <1>5, <2>1
  <2>3. n \in Nat /\ u \in Nat /\ t \in Nat
    OBVIOUS
  <2> QED
    BY <2>2, <2>3
<1> QED
  BY <1>6 DEF IsNewest
-----------------------------------------------------------------------------
(* None of the drive's runs met a mishap.                                  *)
Spared(d) == \A m \in Mishap : <<d, m>> \notin mishaps

(* The drive's newest snapshot of the dataset has its anchor, or origin    *)
(* still has it.                                                           *)
Anchored(d, ds) ==
  \A t \in held[d][ds] : IsNewest(t, held[d][ds]) => <<d, t>> \in anchors[ds]

Listed(d, ds) ==
  \A t \in held[d][ds] : IsNewest(t, held[d][ds]) => <<d, t>> \in anchors[ds] \/ t \in Snaps(ds)

(* The phases between a receive and the anchors made for it.               *)
Receiving == {"transfer", "round", "verify", "anchor", "held", "undo", "undoAnchor", "undoHeld"}

(* A spared drive's newest snapshots are anchored, but for what the run    *)
(* has just received, which origin cannot have lost yet.                   *)
Steady ==
  \A d \in Drives, ds \in Rpool : Spared(d) =>
    Anchored(d, ds) \/ (d = disk /\ phase \in Receiving /\ ds \in started /\ Listed(d, ds))

(* The run receives expected datasets only.                                *)
Begun ==
  /\ \A ds \in started : ds \notin skip
  /\ phase = "idle" => started = {}
  /\ phase = "transfer" => \A ds \in todo : ds \notin skip

(* Nothing on the run's drive is newer than its point.                     *)
Bounded ==
  phase # "idle" =>
    \A ds \in DS : token[disk][ds] <= pt /\ \A t \in held[disk][ds] : t <= pt

(* The run has its point on every expected dataset of rpool.               *)
Taken ==
  phase \in {"rpool", "taken", "decide"} =>
    \A ds \in Rpool : ds \notin skip => <<disk, pt>> \in points[ds]

(* What the first survey plans for a spared drive.                         *)
Continues ==
  phase = "decide" /\ Spared(disk) =>
    \A ds \in Rpool : ds \notin skip => plan[ds] \notin {"ROLLBACK", "DIVERGED"}

(* The inductive invariant.                                                *)
SteadyInv == Inv /\ Steady /\ Begun /\ Bounded /\ Taken /\ Continues
-----------------------------------------------------------------------------
LEMMA BegunStep == ASSUME Inv, Begun, [Next]_vars PROVE Begun'
<1> USE EngineAssumption DEF Begun, DropMemory, EnterUndo, Forget
<1>1. CASE UNCHANGED vars
  BY <1>1
<1>2. CASE Fault
  BY <1>2 DEF Fault, Abort, Signal, Kill, Unverified
<1>3. CASE Between
  BY <1>3 DEF Between, Start, PruneOrigin, PruneUnowned, Touch, Exclude, DrivePrune
<1>4. CASE Sanoid
  BY <1>4 DEF Sanoid, SanoidTake, SanoidPrune
<1>5. CASE BeginRound
  <2>1. \A ds \in todo' : ds \notin skip
    BY <1>5 DEF BeginRound, PlanWith, TRANSFERABLE
  <2> QED
    BY <1>5, <2>1 DEF BeginRound
<1>6. ASSUME NEW x \in DS, TransferOk(x) \/ TransferCut(x) \/ ResumeOk(x) \/ ResumeFails(x)
      PROVE  Begun'
  <2>1. /\ phase = "transfer" /\ x \in todo /\ UNCHANGED <<phase, skip>>
        /\ started' = started \cup {x} /\ todo' \subseteq todo
    BY <1>6 DEF TransferOk, TransferCut, ResumeOk, ResumeFails, Failed
  <2> QED
    BY <2>1
<1>7. CASE \/ TakeRpool \/ TakeBpool \/ Survey \/ Decide \/ EndRound \/ Verify \/ EndAnchors
           \/ AnchorHeld \/ DropCheck \/ Finish \/ UndoRead \/ UndoBlind \/ UndoEnd
  BY <1>7 DEF TakeRpool, TakeBpool, TakeOn, Survey, Decide, EndRound, Verify, EndAnchors,
              AnchorHeld, DropCheck, Finish, UndoRead, UndoBlind, UndoEnd
<1>8. ASSUME NEW x \in DS, AnchorOk(x) \/ AnchorFails(x) \/ UndoRemove(x) PROVE Begun'
  BY <1>8 DEF AnchorOk, AnchorFails, UndoRemove
<1>9. ASSUME NEW v \in verdicts, Drop(v) \/ DropFails(v) PROVE Begun'
  BY <1>9 DEF Drop, DropFails
<1> QED
  BY <1>1, <1>2, <1>3, <1>4, <1>5, <1>6, <1>7, <1>8, <1>9 DEF Next, RunStep

LEMMA BoundedStep == ASSUME Inv, Bounded, [Next]_vars PROVE Bounded'
<1> USE EngineAssumption DEF Inv, Typed, Snapshots, Bounded
<1> USE DEF DropMemory, EnterUndo, Forget
<1>1. CASE UNCHANGED vars
  BY <1>1
<1>2. CASE Fault
  BY <1>2 DEF Fault, Abort, Signal, Kill, Unverified, Undoable
<1>3. ASSUME NEW d \in Drives, Start(d) PROVE Bounded'
  BY <1>3 DEF Start, Fresh
<1>4. CASE Sanoid
  BY <1>4 DEF Sanoid, SanoidTake, SanoidPrune
<1>5. CASE \/ \E x \in DS : PruneOrigin(x) \/ PruneUnowned(x)
           \/ \E c \in Mounted : Touch(c[1], c[2])
           \/ \E x \in Excludable : Exclude(x)
           \/ \E c \in Prunable : DrivePrune(c[1], c[2])
  BY <1>5 DEF PruneOrigin, PruneUnowned, Touch, Exclude, DrivePrune
<1>6. CASE Survey
  BY <1>6 DEF Survey
<1>7. CASE Decide
  <2>1. UNCHANGED <<disk, pt>> /\ phase # "idle" /\ disk \in Drives
    BY <1>7 DEF Decide
  <2>2. \A ds \in DS : /\ held'[disk][ds] \subseteq held[disk][ds]
                       /\ token'[disk][ds] = token[disk][ds] \/ token'[disk][ds] = 0
    BY <1>7 DEF Decide, UpToCommon
  <2> QED
    BY <2>1, <2>2
<1>8. ASSUME NEW x \in DS, TransferOk(x) \/ TransferCut(x) PROVE Bounded'
  <2>1. UNCHANGED <<phase, disk, pt>> /\ phase # "idle" /\ disk \in Drives
    BY <1>8 DEF TransferOk, TransferCut
  <2>2. ASSUME NEW t \in Stream(x) PROVE t \in Nat /\ t <= pt
    <3>1. t \in Nat
      BY StreamType
    <3>2. CASE plan[x] = "NEW"
      BY <3>2 DEF Stream
    <3>3. CASE plan[x] # "NEW"
      BY <3>1, <3>3 DEF Stream
    <3> QED
      BY <3>1, <3>2, <3>3
  <2>3. \E got \in SUBSET Stream(x) : held' = [held EXCEPT ![disk][x] = @ \cup got]
    BY <1>8 DEF TransferOk, TransferCut
  <2>4. \/ UNCHANGED token
        \/ token' = [token EXCEPT ![disk][x] = 0]
        \/ \E u \in Stream(x) : token' = [token EXCEPT ![disk][x] = u]
    BY <1>8 DEF TransferOk, TransferCut
  <2>7. \A ds \in DS : \/ token'[disk][ds] = token[disk][ds]
                       \/ token'[disk][ds] = 0
                       \/ token'[disk][ds] \in Stream(x)
    BY <2>1, <2>4
  <2>5. \A ds \in DS : token'[disk][ds] <= pt
    BY <2>1, <2>2, <2>7
  <2>6. \A ds \in DS : \A t \in held'[disk][ds] : t <= pt
    BY <2>1, <2>2, <2>3
  <2> QED
    BY <2>1, <2>5, <2>6
<1>9. ASSUME NEW x \in DS, ResumeOk(x) PROVE Bounded'
  BY <1>9 DEF ResumeOk
<1>10. ASSUME NEW x \in DS, ResumeFails(x) PROVE Bounded'
  <2>1. UNCHANGED <<phase, disk, pt, held>> /\ phase # "idle"
    BY <1>10 DEF ResumeFails
  <2>2. \A ds \in DS : token'[disk][ds] = token[disk][ds] \/ token'[disk][ds] = 0
    BY <1>10 DEF ResumeFails
  <2> QED
    BY <2>1, <2>2
<1>11. CASE \/ TakeRpool \/ TakeBpool \/ BeginRound \/ EndRound \/ Verify \/ EndAnchors
            \/ AnchorHeld \/ DropCheck \/ Finish \/ UndoRead \/ UndoBlind \/ UndoEnd
  BY <1>11 DEF TakeRpool, TakeBpool, TakeOn, BeginRound, EndRound, Verify, EndAnchors,
               AnchorHeld, DropCheck, Finish, UndoRead, UndoBlind, UndoEnd
<1>12. ASSUME NEW x \in DS, AnchorOk(x) \/ AnchorFails(x) \/ UndoRemove(x) PROVE Bounded'
  BY <1>12 DEF AnchorOk, AnchorFails, UndoRemove
<1>13. ASSUME NEW v \in verdicts, Drop(v) \/ DropFails(v) PROVE Bounded'
  BY <1>13 DEF Drop, DropFails
<1> QED
  BY <1>1, <1>2, <1>3, <1>4, <1>5, <1>6, <1>7, <1>8, <1>9, <1>10, <1>11, <1>12, <1>13
  DEF Next, RunStep, Between

LEMMA TakenStep == ASSUME Inv, Taken, [Next]_vars PROVE Taken'
<1> USE EngineAssumption DEF Taken, DropMemory, EnterUndo, Forget
<1>1. CASE UNCHANGED vars
  BY <1>1
<1>2. CASE Fault
  BY <1>2 DEF Fault, Abort, Signal, Kill, Unverified
<1>3. CASE Between
  BY <1>3 DEF Between, Start, PruneOrigin, PruneUnowned, Touch, Exclude, DrivePrune
<1>4. CASE Sanoid
  BY <1>4 DEF Sanoid, SanoidTake, SanoidPrune
<1>5. CASE TakeRpool
  BY <1>5 DEF TakeRpool, TakeOn, Wanted, DS
<1>6. CASE TakeBpool
  BY <1>6 DEF TakeBpool, TakeOn, DS
<1>7. CASE \/ Survey \/ Decide \/ BeginRound \/ EndRound \/ Verify \/ EndAnchors
           \/ AnchorHeld \/ DropCheck \/ Finish \/ UndoRead \/ UndoBlind \/ UndoEnd
  BY <1>7 DEF Survey, Decide, BeginRound, EndRound, Verify, EndAnchors,
              AnchorHeld, DropCheck, Finish, UndoRead, UndoBlind, UndoEnd
<1>8. ASSUME NEW x \in DS, TransferOk(x) \/ TransferCut(x) \/ ResumeOk(x) \/ ResumeFails(x)
                             \/ AnchorOk(x) \/ AnchorFails(x) \/ UndoRemove(x)
      PROVE  Taken'
  BY <1>8 DEF TransferOk, TransferCut, ResumeOk, ResumeFails, AnchorOk, AnchorFails, UndoRemove
<1>9. ASSUME NEW v \in verdicts, Drop(v) \/ DropFails(v) PROVE Taken'
  BY <1>9 DEF Drop, DropFails
<1> QED
  BY <1>1, <1>2, <1>3, <1>4, <1>5, <1>6, <1>7, <1>8, <1>9 DEF Next, RunStep

(* Mishaps stay.                                                           *)
LEMMA SparedBefore ==
  ASSUME mishaps \subseteq mishaps', NEW d, Spared(d)'
  PROVE  Spared(d)
BY DEF Spared

(* Steps that leave both sides alone and receivers in their phases.        *)
LEMMA SteadySame ==
  ASSUME Steady, UNCHANGED <<held, anchors, autos, points, txg, disk>>,
         started \subseteq started', mishaps \subseteq mishaps',
         phase \in Receiving => phase' \in Receiving
  PROVE  Steady'
<1> SUFFICES ASSUME NEW d \in Drives, NEW ds \in Rpool, Spared(d)'
             PROVE  \/ Anchored(d, ds)'
                    \/ d = disk' /\ phase' \in Receiving /\ ds \in started' /\ Listed(d, ds)'
  BY DEF Steady, Receiving
<1>1. \/ Anchored(d, ds)
      \/ d = disk /\ phase \in Receiving /\ ds \in started /\ Listed(d, ds)
  BY SparedBefore DEF Steady
<1>2. Anchored(d, ds)' = Anchored(d, ds) /\ Listed(d, ds)' = Listed(d, ds)
  BY DEF Anchored, Listed, Snaps
<1> QED
  BY <1>1, <1>2

(* Steps out of the receiving phases, where every newest snapshot of a     *)
(* spared drive has its anchor, that leave them.                           *)
LEMMA SteadyKept ==
  ASSUME Steady, phase \notin Receiving, UNCHANGED held, mishaps \subseteq mishaps',
         \A d \in Drives, ds \in Rpool : \A t \in held[d][ds] :
           IsNewest(t, held[d][ds]) /\ <<d, t>> \in anchors[ds] => <<d, t>> \in anchors'[ds]
  PROVE  Steady'
<1> SUFFICES ASSUME NEW d \in Drives, NEW ds \in Rpool, Spared(d)'
             PROVE  Anchored(d, ds)'
  BY DEF Steady
<1>1. Anchored(d, ds)
  BY SparedBefore DEF Steady
<1> QED
  BY <1>1 DEF Anchored

(* What a receive brings to the drive is in origin.                        *)
LEMMA SteadyReceive ==
  ASSUME Inv, Steady, phase = "transfer", NEW x \in DS, NEW got \in SUBSET Snaps(x),
         held' = [held EXCEPT ![disk][x] = @ \cup got],
         UNCHANGED <<anchors, autos, points, txg, disk, phase>>,
         started' = started \cup {x}, mishaps \subseteq mishaps'
  PROVE  Steady'
<1> USE DEF Inv, Typed, Snapshots
<1> SUFFICES ASSUME NEW d \in Drives, NEW ds \in Rpool, Spared(d)'
             PROVE  \/ Anchored(d, ds)'
                    \/ d = disk' /\ phase' \in Receiving /\ ds \in started' /\ Listed(d, ds)'
  BY DEF Steady, Receiving
<1>1. \/ Anchored(d, ds)
      \/ d = disk /\ phase \in Receiving /\ ds \in started /\ Listed(d, ds)
  BY SparedBefore DEF Steady
<1>2. ds \in DS /\ disk \in Drives /\ Snaps(ds)' = Snaps(ds)
  BY DEF DS, Snaps
<1>3. CASE d # disk \/ ds # x
  <2>1. held'[d][ds] = held[d][ds]
    BY <1>2, <1>3
  <2>2. Anchored(d, ds) => Anchored(d, ds)'
    BY <2>1 DEF Anchored
  <2>3. Listed(d, ds) => Listed(d, ds)'
    BY <1>2, <2>1 DEF Listed
  <2> QED
    BY <1>1, <2>2, <2>3
<1>4. CASE d = disk /\ ds = x
  <2>1. held'[d][ds] = held[d][ds] \cup got
    BY <1>2, <1>4
  <2>2. Listed(d, ds)
    BY <1>1 DEF Anchored, Listed
  <2>3. ASSUME NEW t \in held'[d][ds], IsNewest(t, held'[d][ds])
        PROVE  <<d, t>> \in anchors[ds] \/ t \in Snaps(ds)
    <3>1. t \in held[d][ds] => IsNewest(t, held[d][ds])
      BY <2>1, <2>3 DEF IsNewest
    <3> QED
      BY <1>4, <2>1, <2>2, <3>1 DEF Listed
  <2>4. Listed(d, ds)'
    BY <1>2, <2>3 DEF Listed
  <2>5. ds \in started' /\ phase' \in Receiving
    BY <1>4 DEF Receiving
  <2> QED
    BY <1>4, <2>4, <2>5
<1> QED
  BY <1>3, <1>4

(* The decisions leave a spared drive's copies whole or away: its newest   *)
(* snapshot is anchored, so everything it holds is up to a common one.     *)
LEMMA SteadyDecide == ASSUME Inv, Steady, Decide PROVE Steady'
<1> USE DEF Inv, Typed, Snapshots, Owned
<1>1. disk \in Drives /\ phase = "decide" /\ UNCHANGED mishaps
  BY DEF Decide
<1> SUFFICES ASSUME NEW d \in Drives, NEW ds \in Rpool, Spared(d)'
             PROVE  Anchored(d, ds)'
  BY DEF Steady
<1>2. ds \in DS
  BY DEF DS
<1>3. Anchored(d, ds)
  BY <1>1 DEF Steady, Spared, Receiving
<1>4. CASE d # disk
  <2>1. held'[d][ds] = held[d][ds]
    BY <1>2, <1>4 DEF Decide
  <2>2. \A t \in Nat : <<d, t>> \in anchors[ds] => <<d, t>> \in anchors'[ds]
    BY <1>2, <1>4 DEF Decide
  <2> QED
    BY <1>2, <1>3, <2>1, <2>2 DEF Anchored
<1>5. CASE d = disk
  <2>1. \/ held'[disk][ds] = {}
        \/ anchors'[ds] = anchors[ds] /\ held'[disk][ds] \in {held[disk][ds], UpToCommon(ds)}
    BY <1>2 DEF Decide
  <2>2. ASSUME held[disk][ds] # {} PROVE UpToCommon(ds) = held[disk][ds]
    <3>1. held[disk][ds] \in SUBSET Nat /\ \A t \in held[disk][ds] : t <= txg
      BY <1>1, <1>2 DEF Fresh
    <3>2. PICK n \in held[disk][ds] : IsNewest(n, held[disk][ds])
      BY <2>2, <3>1, NewestExists
    <3>3. <<disk, n>> \in anchors[ds]
      BY <1>3, <1>5, <3>2 DEF Anchored
    <3>4. n \in Common(OriginOf(ds), DestOf(disk, ds))
      <4>2. n \in 0..txg
        BY <3>1, <3>2
      <4>1. n \in Marks(ds)
        BY <1>1, <3>3, <4>2 DEF Marks
      <4> QED
        BY <3>2, <4>1 DEF Common, Known, OriginOf, DestOf
    <3> QED
      BY <3>2, <3>4 DEF UpToCommon, IsNewest
  <2>3. CASE held'[disk][ds] = {}
    BY <1>5, <2>3 DEF Anchored
  <2>4. CASE anchors'[ds] = anchors[ds] /\ held'[disk][ds] = held[disk][ds]
    BY <1>3, <1>5, <2>4 DEF Anchored
  <2>5. CASE held[disk][ds] = {} /\ held'[disk][ds] \in {held[disk][ds], UpToCommon(ds)}
    BY <1>5, <2>3, <2>5 DEF UpToCommon
  <2> QED
    BY <2>1, <2>2, <2>3, <2>4, <2>5
<1> QED
  BY <1>4, <1>5

(* anchor_held anchors what was received, or the run has its mishap.       *)
LEMMA SteadyAnchorHeld == ASSUME Inv, Steady, Begun, AnchorHeld PROVE Steady'
<1> USE DEF Inv, Typed, Snapshots, Owned
<1>1. disk \in Drives /\ UNCHANGED <<held, disk>> /\ mishaps \subseteq mishaps'
  BY DEF AnchorHeld
<1> SUFFICES ASSUME NEW d \in Drives, NEW ds \in Rpool, Spared(d)'
             PROVE  Anchored(d, ds)'
  BY DEF Steady
<1>2. ds \in DS /\ Spared(d)
  BY <1>1, SparedBefore DEF DS
<1>3. anchors[ds] \subseteq anchors'[ds]
  BY <1>2 DEF AnchorHeld
<1>4. CASE Anchored(d, ds)
  BY <1>1, <1>3, <1>4 DEF Anchored
<1>5. CASE d = disk /\ ds \in started /\ Listed(d, ds)
  <2>1. <<disk, "unanchored">> \notin mishaps'
    BY <1>5 DEF Spared, Mishap
  <2>2. ds \in Rpool \cap Wanted
    BY <1>2, <1>5 DEF Begun, Wanted
  <2>3. Unanchored(ds) # {} => anchors'[ds] = anchors[ds] \cup {<<disk, t>> : t \in Unanchored(ds)}
    BY <1>2, <2>1 DEF AnchorHeld
  <2>4. ASSUME NEW t \in held[disk][ds], IsNewest(t, held[disk][ds])
        PROVE  <<disk, t>> \in anchors'[ds]
    <3>1. <<disk, t>> \in anchors[ds] \/ t \in Unanchored(ds)
      BY <1>5, <2>2, <2>4 DEF Listed, Unanchored
    <3> QED
      BY <1>3, <2>3, <3>1
  <2> QED
    BY <1>1, <1>5, <2>4 DEF Anchored
<1> QED
  BY <1>2, <1>4, <1>5 DEF Steady

(* A drop takes older anchors only once the point, the newest the drive    *)
(* can hold, is anchored there.                                            *)
LEMMA SteadyDrop ==
  ASSUME Inv, Steady, Bounded, NEW v \in verdicts, Drop(v)
  PROVE  Steady'
<1> USE DEF Inv, Typed, Snapshots, Owned
<1>1. phase = "drop" /\ disk \in Drives /\ UNCHANGED <<held, mishaps>>
  BY DEF Drop
<1>2. ASSUME NEW d \in Drives, NEW ds \in Rpool, NEW t \in held[d][ds],
             IsNewest(t, held[d][ds]), <<d, t>> \in anchors[ds]
      PROVE  <<d, t>> \in anchors'[ds]
  <2>1. ds \in DS
    BY DEF DS
  <2>2. CASE v.release
    <3>1. Release(v.ds, <<v.drive, v.t>>) /\ v.ds \in DS
      BY <2>2, VerdictType DEF Drop
    <3> QED
      BY <1>2, <2>1, <3>1 DEF Release
  <2>3. CASE ~v.release
    <3>1. anchors'[ds] = IF v.kind # "point" /\ ds = v.ds
                         THEN anchors[ds] \ {<<v.drive, v.t>>} ELSE anchors[ds]
      BY <2>1, <2>3, Destroyed
    <3>2. CASE v.kind # "point" /\ ds = v.ds /\ d = v.drive
      <4>1. d = disk /\ pt \in held[disk][ds] /\ v.t # pt
        BY <2>3, <3>2 DEF Allowances, Allowed
      <4>2. t <= pt /\ pt <= t
        BY <1>1, <1>2, <2>1, <4>1 DEF Bounded, IsNewest
      <4>3. t = pt
        BY <1>1, <2>1, <4>1, <4>2
      <4> QED
        BY <1>2, <3>1, <4>1, <4>3
    <3>3. CASE ~(v.kind # "point" /\ ds = v.ds /\ d = v.drive)
      BY <1>2, <3>1, <3>3
    <3> QED
      BY <3>2, <3>3
  <2> QED
    BY <2>2, <2>3
<1> QED
  BY <1>1, <1>2, SteadyKept DEF Receiving

(* Retention leaves the newest snapshot the newest.                        *)
LEMMA SteadyPrune ==
  ASSUME Inv, Steady, NEW c \in Prunable, DrivePrune(c[1], c[2])
  PROVE  Steady'
<1> USE DEF Inv, Typed, Snapshots, Owned
<1>1. phase = "idle" /\ UNCHANGED <<anchors, mishaps>> /\ c[1] \in Drives /\ c[2] \in DS
  BY EngineAssumption DEF DrivePrune
<1>2. PICK p \in held[c[1]][c[2]] :
        /\ ~IsNewest(p, held[c[1]][c[2]])
        /\ held'[c[1]][c[2]] = held[c[1]][c[2]] \ {p}
        /\ \A d \in Drives, ds \in DS :
             d # c[1] \/ ds # c[2] => held'[d][ds] = held[d][ds]
  BY Pruned
<1> SUFFICES ASSUME NEW d \in Drives, NEW ds \in Rpool, Spared(d)'
             PROVE  Anchored(d, ds)'
  BY DEF Steady
<1>3. ds \in DS /\ Anchored(d, ds)
  BY <1>1, SparedBefore DEF Steady, Receiving, DS
<1>4. CASE d # c[1] \/ ds # c[2]
  BY <1>1, <1>2, <1>3, <1>4 DEF Anchored
<1>5. CASE d = c[1] /\ ds = c[2]
  <2>1. PICK w \in held[d][ds] : ~(w <= p)
    BY <1>2, <1>5 DEF IsNewest
  <2>2. held[d][ds] \in SUBSET Nat /\ p \in held[d][ds] /\ held'[d][ds] = held[d][ds] \ {p}
    BY <1>2, <1>3, <1>5
  <2>3. ASSUME NEW t \in held'[d][ds], IsNewest(t, held'[d][ds])
        PROVE  IsNewest(t, held[d][ds])
    BY <2>1, <2>2, <2>3 DEF IsNewest
  <2> QED
    BY <1>1, <1>3, <2>2, <2>3 DEF Anchored
<1> QED
  BY <1>4, <1>5

LEMMA SteadyStep == ASSUME Inv, Steady, Begun, Bounded, [Next]_vars PROVE Steady'
<1> USE EngineAssumption DEF DropMemory, EnterUndo, Forget
<1>1. CASE UNCHANGED vars
  BY <1>1, SteadySame
<1>2. CASE Abort \/ Signal
  BY <1>2, SteadySame DEF Abort, Signal, Receiving
<1>3. CASE Kill \/ Unverified
  <2>1. /\ UNCHANGED <<held, anchors>> /\ mishaps \subseteq mishaps'
        /\ \E m \in Mishap : <<disk, m>> \in mishaps'
    BY <1>3 DEF Kill, Unverified, Mishap
  <2>2. ASSUME NEW d \in Drives, NEW ds \in Rpool, Spared(d)' PROVE Anchored(d, ds)'
    <3>1. d # disk /\ Spared(d)
      BY <2>1, <2>2 DEF Spared
    <3> QED
      BY <2>1, <3>1 DEF Steady, Anchored
  <2> QED
    BY <2>2 DEF Steady
<1>4. CASE \/ \E d \in Drives : Start(d)
           \/ \E c \in Mounted : Touch(c[1], c[2])
           \/ \E ds \in Excludable : Exclude(ds)
           \/ \E ds \in DS : PruneUnowned(ds)
  BY <1>4, SteadyKept DEF Start, Touch, Exclude, PruneUnowned, Receiving
<1>5. ASSUME NEW ds \in DS, PruneOrigin(ds) PROVE Steady'
  <2>1. \A x \in DS : anchors[x] \subseteq anchors'[x]
    BY <1>5 DEF PruneOrigin, Release, Inv, Typed
  <2> QED
    BY <1>5, <2>1, SteadyKept DEF PruneOrigin, Receiving, DS
<1>6. ASSUME NEW c \in Prunable, DrivePrune(c[1], c[2]) PROVE Steady'
  BY <1>6, SteadyPrune
<1>7. CASE SanoidTake
  <2>1. UNCHANGED <<held, anchors, points, disk, phase, started, mishaps>>
    BY <1>7 DEF SanoidTake
  <2>2. ASSUME NEW ds \in DS PROVE Snaps(ds) \subseteq Snaps(ds)'
    <3>1. autos[ds] \subseteq autos'[ds] /\ txg \in Nat /\ txg' = txg + 1
      BY <1>7 DEF SanoidTake, Inv, Typed
    <3>2. 0..txg \subseteq 0..txg'
      BY <3>1
    <3> QED
      BY <2>1, <3>1, <3>2 DEF Snaps
  <2>3. ASSUME NEW d \in Drives, NEW ds \in Rpool
        PROVE  /\ Anchored(d, ds) => Anchored(d, ds)'
               /\ Listed(d, ds) => Listed(d, ds)'
    BY <2>1, <2>2 DEF Anchored, Listed, DS
  <2> QED
    BY <2>1, <2>3 DEF Steady, Spared, Receiving
<1>8. ASSUME NEW x \in DS, SanoidPrune(x) PROVE Steady'
  <2>1. UNCHANGED <<held, anchors, disk>> /\ mishaps \subseteq mishaps'
    BY <1>8 DEF SanoidPrune
  <2>2. phase = "idle" \/ <<disk, "raced">> \in mishaps'
    BY <1>8 DEF SanoidPrune
  <2>3. ASSUME NEW d \in Drives, NEW ds \in Rpool, Spared(d)' PROVE Anchored(d, ds)'
    <3>1. Spared(d) /\ (d # disk \/ phase = "idle")
      BY <2>1, <2>2, <2>3 DEF Spared, Mishap
    <3> QED
      BY <2>1, <3>1 DEF Steady, Anchored, Receiving
  <2> QED
    BY <2>3 DEF Steady
<1>9. CASE TakeRpool \/ TakeBpool
  BY <1>9, SteadyKept DEF TakeRpool, TakeBpool, TakeOn, Receiving
<1>10. CASE Survey
  BY <1>10, SteadyKept DEF Survey, Receiving
<1>11. CASE Decide
  BY <1>11, SteadyDecide
<1>12. CASE BeginRound \/ EndRound \/ Verify \/ EndAnchors \/ UndoRead
  BY <1>12, SteadySame DEF BeginRound, EndRound, Verify, EndAnchors, UndoRead, Receiving
<1>13. CASE DropCheck \/ Finish \/ UndoEnd
  BY <1>13, SteadyKept DEF DropCheck, Finish, UndoEnd, Receiving
<1>14. CASE UndoBlind
  <2>1. UNCHANGED <<held, anchors>> /\ mishaps \subseteq mishaps'
    BY <1>14 DEF UndoBlind
  <2>2. started = {} \/ <<disk, "unread">> \in mishaps'
    BY <1>14 DEF UndoBlind
  <2>3. ASSUME NEW d \in Drives, NEW ds \in Rpool, Spared(d)' PROVE Anchored(d, ds)'
    <3>1. Spared(d) /\ (d # disk \/ started = {})
      BY <2>1, <2>2, <2>3 DEF Spared, Mishap
    <3> QED
      BY <2>1, <3>1 DEF Steady, Anchored
  <2> QED
    BY <2>3 DEF Steady
<1>15. CASE AnchorHeld
  BY <1>15, SteadyAnchorHeld
<1>16. ASSUME NEW x \in DS, TransferOk(x) \/ TransferCut(x) PROVE Steady'
  <2>1. Stream(x) \subseteq Snaps(x)
    BY <1>16, StreamOf DEF TransferOk, TransferCut, Inv, Typed, OwnPoint
  <2>2. PICK got \in SUBSET Stream(x) : held' = [held EXCEPT ![disk][x] = @ \cup got]
    BY <1>16 DEF TransferOk, TransferCut
  <2>3. /\ phase = "transfer" /\ started' = started \cup {x} /\ mishaps \subseteq mishaps'
        /\ UNCHANGED <<anchors, autos, points, txg, disk, phase>>
    BY <1>16 DEF TransferOk, TransferCut, Failed
  <2> QED
    BY <2>1, <2>2, <2>3, SteadyReceive
<1>17. ASSUME NEW x \in DS, ResumeOk(x) PROVE Steady'
  <2>1. {token[disk][x]} \in SUBSET Snaps(x)
    BY <1>17 DEF ResumeOk, CanResume
  <2>2. held' = [held EXCEPT ![disk][x] = @ \cup {token[disk][x]}]
    BY <1>17 DEF ResumeOk
  <2>3. /\ phase = "transfer" /\ started' = started \cup {x} /\ UNCHANGED mishaps
        /\ UNCHANGED <<anchors, autos, points, txg, disk, phase>>
    BY <1>17 DEF ResumeOk
  <2> QED
    BY <2>1, <2>2, <2>3, SteadyReceive
<1>18. ASSUME NEW x \in DS, ResumeFails(x) \/ AnchorFails(x) PROVE Steady'
  <2>1. /\ UNCHANGED <<held, anchors, autos, points, txg, disk, phase>>
        /\ started \subseteq started' /\ mishaps \subseteq mishaps'
    BY <1>18 DEF ResumeFails, AnchorFails, Failed
  <2> QED
    BY <2>1, SteadySame
<1>19. ASSUME NEW x \in DS, AnchorOk(x) PROVE Steady'
  <2>1. UNCHANGED <<held, autos, txg, disk, phase, started, mishaps>>
    BY <1>19 DEF AnchorOk
  <2>2. ASSUME NEW ds \in Rpool PROVE anchors[ds] \subseteq anchors'[ds] /\ points'[ds] = points[ds]
    BY <1>19 DEF AnchorOk, AnchorFor, Inv, Typed, DS
  <2>3. ASSUME NEW d \in Drives, NEW ds \in Rpool
        PROVE  /\ Anchored(d, ds) => Anchored(d, ds)'
               /\ Listed(d, ds) => Listed(d, ds)'
    <3>1. Snaps(ds) \subseteq Snaps(ds)'
      BY <2>1, <2>2 DEF Snaps
    <3> QED
      BY <2>1, <2>2, <3>1 DEF Anchored, Listed
  <2> QED
    BY <2>1, <2>3 DEF Steady, Spared, Receiving
<1>20. ASSUME NEW x \in DS, UndoRemove(x) PROVE Steady'
  BY <1>20, SteadyKept DEF UndoRemove, Receiving
<1>21. ASSUME NEW v \in verdicts, Drop(v) PROVE Steady'
  BY <1>21, SteadyDrop
<1>22. ASSUME NEW v \in verdicts, DropFails(v) PROVE Steady'
  BY <1>22, SteadyKept DEF DropFails, Receiving
<1> QED
  BY <1>1, <1>2, <1>3, <1>4, <1>5, <1>6, <1>7, <1>8, <1>9, <1>10, <1>11, <1>12, <1>13, <1>14,
     <1>15, <1>16, <1>17, <1>18, <1>19, <1>20, <1>21, <1>22
  DEF Next, RunStep, Fault, Sanoid, Between
-----------------------------------------------------------------------------
(* The planner asks for a rollback or a full copy only where the newest    *)
(* snapshot of the copy is gone from origin.                               *)
LEMMA PlanContinues ==
  ASSUME NEW o, NEW d, NEW point,
         \/ d.snaps = {}
         \/ \E t \in d.snaps : /\ IsNewest(t, d.snaps)
                               /\ t \in o.snaps \/ (t \in o.marks /\ \E u \in o.snaps : u > t)
  PROVE  /\ PlanUnwritten(o, d, point) \notin {"ROLLBACK", "DIVERGED"}
         /\ PlanDataset(o, d, point) \notin {"ROLLBACK", "DIVERGED"}
<1>1. PlanUnwritten(o, d, point) \notin {"ROLLBACK", "DIVERGED"}
  BY DEF PlanUnwritten
<1> QED
  BY <1>1 DEF PlanDataset

(* Once the point is taken, a spared drive's dataset of rpool continues.   *)
LEMMA NewestKnown ==
  ASSUME Inv, Steady, Bounded, Taken, phase \in {"taken", "decide"}, Spared(disk),
         NEW ds \in Rpool, ds \notin skip
  PROVE  \/ held[disk][ds] = {}
         \/ \E t \in held[disk][ds] :
              /\ IsNewest(t, held[disk][ds])
              /\ \/ t \in Snaps(ds)
                 \/ t \in Marks(ds) /\ \E u \in Snaps(ds) : u > t
<1> USE DEF Inv, Typed, Snapshots, Owned
<1> SUFFICES ASSUME held[disk][ds] # {}
             PROVE  \E t \in held[disk][ds] :
                      /\ IsNewest(t, held[disk][ds])
                      /\ \/ t \in Snaps(ds)
                         \/ t \in Marks(ds) /\ \E u \in Snaps(ds) : u > t
  OBVIOUS
<1>1. ds \in DS /\ disk \in Drives
  BY DEF DS
<1>2. held[disk][ds] \in SUBSET Nat /\ \A t \in held[disk][ds] : t <= txg
  BY <1>1 DEF Fresh
<1>3. PICK t \in held[disk][ds] : IsNewest(t, held[disk][ds])
  BY <1>2, NewestExists
<1>4. t \in 0..txg /\ t <= pt
  BY <1>1, <1>2, <1>3 DEF Bounded
<1>5. <<disk, t>> \in anchors[ds]
  BY <1>1, <1>3 DEF Steady, Anchored, Receiving
<1>6. t \in Marks(ds)
  BY <1>1, <1>4, <1>5 DEF Marks
<1>7. pt \in Snaps(ds)
  <2>1. <<disk, pt>> \in points[ds]
    BY DEF Taken
  <2>2. pt \in 0..txg
    BY DEF Fresh
  <2> QED
    BY <1>1, <2>1, <2>2 DEF Snaps
<1>8. t = pt \/ pt > t
  BY <1>4
<1> QED
  BY <1>3, <1>6, <1>7, <1>8

LEMMA ContinuesStep ==
  ASSUME Inv, Steady, Bounded, Taken, Continues, [Next]_vars
  PROVE  Continues'
<1> USE EngineAssumption DEF Continues, DropMemory, EnterUndo, Forget
<1>1. CASE UNCHANGED vars
  BY <1>1 DEF Spared
<1>2. CASE Fault
  BY <1>2 DEF Fault, Abort, Signal, Kill, Unverified
<1>3. CASE Between
  BY <1>3 DEF Between, Start, PruneOrigin, PruneUnowned, Touch, Exclude, DrivePrune
<1>4. CASE Sanoid
  <2>1. UNCHANGED <<phase, disk, skip, plan>> /\ mishaps \subseteq mishaps'
    BY <1>4 DEF Sanoid, SanoidTake, SanoidPrune
  <2> QED
    BY <2>1 DEF Spared
<1>5. CASE Survey
  <2>1. PICK cut : plan' = PlanWith(cut)
    BY <1>5 DEF Survey
  <2>2. phase = "taken" /\ UNCHANGED <<disk, skip, mishaps>>
    BY <1>5 DEF Survey
  <2>3. ASSUME Spared(disk), NEW ds \in Rpool, ds \notin skip
        PROVE  PlanWith(cut)[ds] \notin {"ROLLBACK", "DIVERGED"}
    <3> DEFINE o == OriginOf(ds)
               d == [DestOf(disk, ds) EXCEPT !.token = cut[ds]]
    <3>1. d.snaps = held[disk][ds] /\ o.snaps = Snaps(ds) /\ o.marks = Marks(ds)
      BY DEF DestOf, OriginOf
    <3>2. PlanWith(cut)[ds] = PlanDataset(o, d, PointOf(ds))
      BY <2>3 DEF PlanWith, DS
    <3> HIDE DEF o, d
    <3> QED
      BY <2>2, <2>3, <3>1, <3>2, NewestKnown, PlanContinues
  <2> QED
    BY <2>1, <2>2, <2>3 DEF Spared
<1>6. CASE \/ TakeRpool \/ TakeBpool \/ Decide \/ BeginRound \/ EndRound \/ Verify \/ EndAnchors
           \/ AnchorHeld \/ DropCheck \/ Finish \/ UndoRead \/ UndoBlind \/ UndoEnd
  BY <1>6 DEF TakeRpool, TakeBpool, TakeOn, Decide, BeginRound, EndRound, Verify, EndAnchors,
              AnchorHeld, DropCheck, Finish, UndoRead, UndoBlind, UndoEnd
<1>7. ASSUME NEW x \in DS, TransferOk(x) \/ TransferCut(x) \/ ResumeOk(x) \/ ResumeFails(x)
                             \/ AnchorOk(x) \/ AnchorFails(x) \/ UndoRemove(x)
      PROVE  Continues'
  BY <1>7 DEF TransferOk, TransferCut, ResumeOk, ResumeFails, AnchorOk, AnchorFails, UndoRemove
<1>8. ASSUME NEW v \in verdicts, Drop(v) \/ DropFails(v) PROVE Continues'
  BY <1>8 DEF Drop, DropFails
<1> QED
  BY <1>1, <1>2, <1>3, <1>4, <1>5, <1>6, <1>7, <1>8 DEF Next, RunStep

(* What a written copy needs once its partial receive is given up is no    *)
(* rollback either.                                                        *)
LEMMA AfterContinues ==
  ASSUME SteadyInv, phase = "decide", Spared(disk), NEW ds \in Rpool, ds \notin skip
  PROVE  PlanAfter(OriginOf(ds), DestOf(disk, ds), PointOf(ds)) \notin {"ROLLBACK", "DIVERGED"}
<1> DEFINE o == OriginOf(ds)
           d == [DestOf(disk, ds) EXCEPT !.token = 0]
<1>1. d.snaps = held[disk][ds] /\ o.snaps = Snaps(ds) /\ o.marks = Marks(ds)
  BY DEF DestOf, OriginOf
<1>2. PlanAfter(OriginOf(ds), DestOf(disk, ds), PointOf(ds)) = PlanUnwritten(o, d, PointOf(ds))
  BY DEF PlanAfter
<1> HIDE DEF o, d
<1> QED
  BY <1>1, <1>2, NewestKnown, PlanContinues DEF SteadyInv

(* NoRollback for every instance: however a drive's transfers were cut,    *)
(* whatever sanoid and zark prune removed and other drives' runs did, a    *)
(* drive whose runs met no mishap is never asked to roll back or resend an *)
(* rpool dataset.                                                          *)
THEOREM Continued == Spec => []NoRollback
<1>1. Init => SteadyInv
  <2>1. Init => Steady /\ Begun /\ Bounded /\ Taken /\ Continues
    BY DEF Init, Steady, Anchored, Begun, Bounded, Taken, Continues, DS
  <2> QED
    BY <2>1, InitInv DEF SteadyInv
<1>2. SteadyInv /\ [Next]_vars => SteadyInv'
  BY InvStep, SteadyStep, BegunStep, BoundedStep, TakenStep, ContinuesStep DEF SteadyInv
<1>3. SteadyInv => NoRollback
  BY AfterContinues DEF SteadyInv, NoRollback, Continues, Spared, Wanted
<1> QED
  BY <1>1, <1>2, <1>3, PTL DEF Spec
-----------------------------------------------------------------------------
(* The phases of a run that goes well.                                     *)
Normal == {"paused", "rpool", "taken", "decide", "round", "transfer", "verify",
           "anchor", "held", "check", "drop"}

(* Only a copy that holds something was written to.                        *)
Heads == \A d \in Drives, ds \in DS : <<d, ds>> \in written => held[d][ds] # {}

(* No round before the decisions.                                          *)
Unbegun == phase \in {"idle", "paused", "rpool", "taken", "decide"} => round = 0

(* The point of the run is there, as a snapshot, until it is anchored.     *)
PointThere ==
  /\ phase \in {"rpool", "taken", "decide", "round", "transfer", "verify"} =>
       \A ds \in Rpool : ds \notin skip => <<disk, pt>> \in points[ds]
  /\ phase \in {"taken", "decide", "round", "transfer", "verify"} =>
       \A ds \in Wanted : <<disk, pt>> \in points[ds]

(* What a survey of this state says of a dataset.                          *)
Now(ds) == PlanDataset(OriginOf(ds), DestOf(disk, ds), PointOf(ds))

Based == {"INCREMENTAL", "VIA_BOOKMARK"}

(* The decisions are about the state the survey left, in which every       *)
(* partial receive to resume can.                                          *)
Decided ==
  phase = "decide" =>
    \A ds \in Wanted : plan[ds] = Now(ds) /\ (Now(ds) = "RESUME" => CanResume(disk, ds))

(* After the decisions every dataset can be transferred; after a round in  *)
(* which one was resumed, what is left are incrementals.                   *)
Ready ==
  phase = "round" =>
    /\ round \in {0, 1}
    /\ \A ds \in Wanted :
         \/ Now(ds) \in Based \cup {"AT_POINT"}
         \/ round = 0 /\ Now(ds) = "NEW"
         \/ round = 0 /\ Now(ds) = "RESUME" /\ CanResume(disk, ds)

(* Within a round, what was sent is at the point, or was a resume.         *)
Sending ==
  phase = "transfer" =>
    /\ round \in {1, 2} /\ (again => round = 1)
    /\ todo \subseteq Wanted
    /\ \A ds \in todo :
         /\ plan[ds] = Now(ds)
         /\ \/ Now(ds) \in Based
            \/ round = 1 /\ Now(ds) = "NEW"
            \/ round = 1 /\ Now(ds) = "RESUME" /\ CanResume(disk, ds)
    /\ \A ds \in Wanted \ todo : Now(ds) = "AT_POINT" \/ (again /\ Now(ds) \in Based)

Sent == phase = "verify" => \A ds \in Wanted : Now(ds) = "AT_POINT"

(* From the verification on, every expected dataset is at the point, and   *)
(* once it was its turn, anchored there under the point's name.            *)
Ending == {"anchor", "held", "check", "drop"}

AtThePoint ==
  phase \in Ending =>
    /\ Reached(plan)
    /\ \A ds \in Wanted :
         /\ token[disk][ds] = 0 /\ pt \in held[disk][ds]
         /\ ds \in named \/ (phase = "anchor" /\ ds \in todo)

(* What is still to go from origin has its verdict, and what is released   *)
(* is another drive's.                                                     *)
Judged ==
  phase = "drop" =>
    /\ \A v \in verdicts : v.release /\ v.ds \in Wanted => v.drive # disk
    /\ \A ds \in Wanted :
         /\ \A p \in points[ds] : \E v \in verdicts :
              v.kind = "point" /\ v.ds = ds /\ <<v.drive, v.t>> = p
         /\ \A a \in anchors[ds] : a[1] = disk /\ a # <<disk, pt>> => \E v \in verdicts :
              v.kind = "anchor" /\ v.ds = ds /\ <<v.drive, v.t>> = a

(* Where a run that goes well is.                                          *)
OnItsWay == PointThere /\ Decided /\ Ready /\ Sending /\ Sent /\ AtThePoint /\ Judged

(* sanoid's timer is stopped all along such a run.                         *)
Smoothly == smooth => phase \in Normal /\ paused /\ OnItsWay

SmoothInv == Inv /\ Bounded /\ Heads /\ Unbegun /\ Smoothly

(* What a run that leaves a partial receive knows of it: it sends over     *)
(* none, has the datasets it anchors or names whole or at the point,       *)
Unsent == phase = "transfer" => \A ds \in todo : plan[ds] # "RESUME" => token[disk][ds] = 0

Uncut(ds) == token[disk][ds] = 0

Anchoring ==
  /\ phase \in {"anchor", "undoAnchor"} => \A ds \in todo : Uncut(ds)
  /\ \A ds \in named : Uncut(ds) \/ (ds \in Rpool /\ IsNewest(pt, held[disk][ds]))

(* lets no point of a cut dataset go, and an anchor once a new one is made,*)
Going ==
  phase = "drop" => \A v \in verdicts :
    /\ v.kind = "point" /\ v.ds \in Wanted => Uncut(v.ds)
    /\ v.kind = "anchor" => ~v.release /\ v.ds \in named

(* keeps its point in the cleanup where something was cut,                 *)
Undoing ==
  /\ phase \in {"undoAnchor", "undoHeld"} => \A ds \in Wanted : Uncut(ds) \/ ds \in kept
  /\ phase = "undoDrop" => \A ds \in todo : ds \in Wanted /\ (Uncut(ds) \/ ds \notin started)

(* and has cut its own point's receive only where one began.               *)
CutHere == phase # "idle" => \A ds \in DS : token[disk][ds] = pt => ds \in started

Sparing == Unsent /\ Anchoring /\ Going /\ Undoing /\ CutHere

-----------------------------------------------------------------------------
(* The planner.                                                            *)

LEMMA PlanBased ==
  ASSUME NEW o, NEW d, NEW p, d.token = 0, ~d.written,
         NEW t \in d.snaps, IsNewest(t, d.snaps),
         t \in o.snaps \/ (t \in o.marks /\ \E u \in o.snaps : u > t)
  PROVE  PlanDataset(o, d, p) \in Based \cup {"AT_POINT"}
<1>1. PlanUnwritten(o, d, p) \in Based \cup {"AT_POINT"}
  BY DEF PlanUnwritten, Based
<1>2. PlanDataset(o, d, p) = PlanUnwritten(o, d, p)
  BY DEF PlanDataset, IsPartialModified
<1> QED
  BY <1>1, <1>2

LEMMA PlanAtPoint ==
  ASSUME NEW o, NEW d, NEW p, d.token = 0, p \in d.snaps, IsNewest(p, d.snaps), p \in o.snaps
  PROVE  PlanDataset(o, d, p) = "AT_POINT"
<1>1. PlanUnwritten(o, d, p) = "AT_POINT"
  BY DEF PlanUnwritten
<1> QED
  BY <1>1 DEF PlanDataset, IsPartialModified

(* What each state says of the dataset it was planned for.                 *)
LEMMA PlanSays ==
  ASSUME NEW o, NEW d, NEW p
  PROVE  /\ PlanDataset(o, d, p) \in State \ {"EXCLUDED"}
         /\ PlanDataset(o, d, p) = "NEW" => d.token = 0 /\ d.snaps = {}
         /\ PlanDataset(o, d, p) = "RESUME" => d.token # 0 /\ (~d.written \/ d.snaps = {})
         /\ PlanDataset(o, d, p) = "AT_POINT" =>
              d.token = 0 /\ IsNewest(p, d.snaps) /\ p \in o.snaps
         /\ PlanDataset(o, d, p) \in Based =>
              /\ d.token = 0 /\ ~d.written /\ d.snaps # {}
              /\ ~(IsNewest(p, d.snaps) /\ p \in o.snaps)
         /\ PlanDataset(o, d, p) = "MODIFIED" =>
              \/ d.token # 0 /\ d.snaps # {}
              \/ PlanUnwritten(o, d, p) \in Based
         /\ PlanDataset(o, d, p) = "ROLLBACK" =>
              /\ d.token = 0 /\ d.snaps # {}
              /\ \E c \in Common(o, d) : ~IsNewest(c, d.snaps)
              /\ \A t \in d.snaps : IsNewest(t, d.snaps) =>
                   /\ t \notin o.snaps
                   /\ t \in o.marks => \A u \in o.snaps : ~(u > t)
         /\ PlanDataset(o, d, p) = "DIVERGED" => d.token = 0
<1> DEFINE u == PlanUnwritten(o, d, p)
<1>1. u \in State \ {"EXCLUDED", "MODIFIED"}
  BY DEF PlanUnwritten, State
<1>2. PlanDataset(o, d, p) = u \/ PlanDataset(o, d, p) = "MODIFIED"
  BY DEF PlanDataset
<1>3. PlanDataset(o, d, p) # "MODIFIED" =>
        ~IsPartialModified(d) /\ ~(d.written /\ u \in {"INCREMENTAL", "VIA_BOOKMARK"})
  BY DEF PlanDataset
<1>4. PlanDataset(o, d, p) = "MODIFIED" =>
        (d.token # 0 /\ d.snaps # {}) \/ u \in {"INCREMENTAL", "VIA_BOOKMARK"}
  BY <1>1 DEF PlanDataset, IsPartialModified
<1>5. /\ u = "NEW" => d.token = 0 /\ d.snaps = {}
      /\ u = "RESUME" => d.token # 0
      /\ u = "AT_POINT" => d.token = 0 /\ IsNewest(p, d.snaps) /\ p \in o.snaps
  BY DEF PlanUnwritten
<1>6. u \in {"INCREMENTAL", "VIA_BOOKMARK"} =>
        d.token = 0 /\ d.snaps # {} /\ ~(IsNewest(p, d.snaps) /\ p \in o.snaps)
  BY DEF PlanUnwritten, IsNewest
<1>7. u = "ROLLBACK" =>
        /\ d.token = 0 /\ d.snaps # {}
        /\ \E c \in Common(o, d) : ~IsNewest(c, d.snaps)
        /\ \A t \in d.snaps : IsNewest(t, d.snaps) =>
             t \notin o.snaps /\ (t \in o.marks => \A w \in o.snaps : ~(w > t))
  <2> SUFFICES ASSUME u = "ROLLBACK"
               PROVE  /\ d.token = 0 /\ d.snaps # {}
                      /\ \E c \in Common(o, d) : ~IsNewest(c, d.snaps)
                      /\ \A t \in d.snaps : IsNewest(t, d.snaps) =>
                           t \notin o.snaps /\ (t \in o.marks => \A w \in o.snaps : ~(w > t))
    OBVIOUS
  <2> DEFINE newest == {t \in d.snaps : IsNewest(t, d.snaps)}
  <2>1. d.token = 0 /\ d.snaps # {} /\ newest \cap o.snaps = {}
        /\ ~(\E t \in newest \cap o.marks : \E s \in o.snaps : s > t)
        /\ Common(o, d) \ newest # {}
    BY DEF PlanUnwritten
  <2>2. Common(o, d) \subseteq d.snaps
    BY DEF Common
  <2> QED
    BY <2>1, <2>2
<1>8. u = "DIVERGED" => d.token = 0
  BY DEF PlanUnwritten
<1> HIDE DEF u
<1>9. PlanDataset(o, d, p) \in State \ {"EXCLUDED"}
  BY <1>1, <1>2 DEF State
<1>10. PlanDataset(o, d, p) = "RESUME" => ~d.written \/ d.snaps = {}
  BY <1>2, <1>3, <1>5 DEF IsPartialModified
<1> QED
  BY <1>1, <1>2, <1>3, <1>4, <1>5, <1>6, <1>7, <1>8, <1>9, <1>10 DEF Based, u

-----------------------------------------------------------------------------
(* What the run's flags say of its steps.                                  *)

LEMMA Troubled == ASSUME Wrong \/ Doomed \/ Forget PROVE ~smooth'
BY Zenon DEF Wrong, Doomed, Forget

LEMMA Calm == ASSUME smooth', UNCHANGED smooth \/ Fine PROVE smooth
BY Zenon DEF Fine

(* The steps of a run that goes well.                                      *)
GoodStep ==
  \/ TakeRpool \/ TakeBpool \/ Survey \/ Decide \/ BeginRound \/ EndRound
  \/ Verify \/ EndAnchors \/ AnchorHeld \/ DropCheck
  \/ \E ds \in DS : TransferOk(ds) \/ ResumeOk(ds) \/ AnchorOk(ds)
  \/ \E v \in verdicts : Drop(v)

(* A run goes well after such a step only, or has just begun.              *)
LEMMA Well ==
  ASSUME smooth => phase \in Normal /\ paused, [Next]_vars, smooth'
  PROVE  UNCHANGED vars \/ (\E d \in Drives : Start(d)) \/ (smooth /\ GoodStep)
<1>1. CASE UNCHANGED vars
  BY <1>1
<1>2. CASE Fault
  <2>1. Wrong
    BY <1>2 DEF Fault, Abort, Signal, Kill, Unverified
  <2> QED
    BY <2>1, Troubled
<1>3. CASE Sanoid
  <2>1. ~paused /\ UNCHANGED smooth
    BY <1>3 DEF Sanoid, SanoidTake, SanoidPrune
  <2> QED
    BY <2>1, Calm
<1>4. CASE Between
  <2>1. CASE \E d \in Drives : Start(d)
    BY <2>1
  <2>2. ASSUME NEW ds \in DS, PruneUnowned(ds) PROVE FALSE
    <3>1. Wrong
      BY <2>2 DEF PruneUnowned
    <3> QED
      BY <3>1, Troubled
  <2>3. CASE \/ \E ds \in DS : PruneOrigin(ds)
             \/ \E c \in Mounted : Touch(c[1], c[2])
             \/ \E ds \in Excludable : Exclude(ds)
             \/ \E c \in Prunable : DrivePrune(c[1], c[2])
    <3>1. phase = "idle" /\ UNCHANGED smooth
      BY <2>3 DEF PruneOrigin, Touch, Exclude, DrivePrune
    <3>2. smooth
      BY <3>1, Calm
    <3> QED
      BY <3>1, <3>2 DEF Normal
  <2> QED
    BY <1>4, <2>1, <2>2, <2>3 DEF Between
<1>5. CASE TakeRpool \/ TakeBpool \/ BeginRound \/ EndRound \/ Verify \/ EndAnchors
  <2>1. UNCHANGED smooth
    BY <1>5 DEF TakeRpool, TakeBpool, TakeOn, BeginRound, EndRound, Verify, EndAnchors
  <2> QED
    BY <1>5, <2>1, Calm DEF GoodStep
<1>6. CASE Survey \/ Decide \/ DropCheck \/ AnchorHeld
  <2>1. Fine \/ Wrong \/ Doomed
    <3>1. CASE Survey
      BY <3>1, Zenon DEF Survey
    <3>2. CASE Decide
      BY <3>2, Zenon DEF Decide
    <3>3. CASE DropCheck
      BY <3>3, Zenon DEF DropCheck
    <3>4. CASE AnchorHeld
      BY <3>4, Zenon DEF AnchorHeld
    <3> QED
      BY <1>6, <3>1, <3>2, <3>3, <3>4
  <2> QED
    BY <1>6, <2>1, Troubled, Calm DEF GoodStep
<1>7. CASE Finish \/ UndoEnd
  <2>1. Forget
    BY <1>7 DEF Finish, UndoEnd
  <2> QED
    BY <2>1, Troubled
<1>8. CASE UndoRead \/ UndoBlind
  <2>1. phase = "undo" /\ (UNCHANGED smooth \/ Wrong)
    BY <1>8 DEF UndoRead, UndoBlind
  <2>2. smooth
    BY <2>1, Troubled, Calm
  <2> QED
    BY <2>1, <2>2 DEF Normal
<1>9. ASSUME NEW ds \in DS, TransferOk(ds) \/ ResumeOk(ds) \/ AnchorOk(ds)
      PROVE  smooth /\ GoodStep
  <2>1. UNCHANGED smooth
    BY <1>9 DEF TransferOk, ResumeOk, AnchorOk
  <2> QED
    BY <1>9, <2>1, Calm DEF GoodStep
<1>10. ASSUME NEW ds \in DS, TransferCut(ds) \/ ResumeFails(ds) \/ AnchorFails(ds)
       PROVE  FALSE
  <2>1. Wrong \/ Doomed
    <3>1. CASE TransferCut(ds)
      BY <3>1, Zenon DEF TransferCut
    <3>2. CASE ResumeFails(ds)
      BY <3>2, Zenon DEF ResumeFails
    <3>3. CASE AnchorFails(ds)
      BY <3>3, Zenon DEF AnchorFails
    <3> QED
      BY <1>10, <3>1, <3>2, <3>3
  <2> QED
    BY <2>1, Troubled
<1>11. ASSUME NEW ds \in DS, UndoRemove(ds) PROVE FALSE
  <2>1. phase = "undoDrop" /\ (Fine \/ Wrong)
    BY <1>11, Zenon DEF UndoRemove
  <2>2. smooth
    BY <2>1, Troubled, Calm
  <2> QED
    BY <2>1, <2>2 DEF Normal
<1>12. ASSUME NEW v \in verdicts, Drop(v) PROVE smooth /\ GoodStep
  <2>1. Fine \/ Wrong
    BY <1>12, Zenon DEF Drop
  <2> QED
    BY <1>12, <2>1, Troubled, Calm DEF GoodStep
<1>13. ASSUME NEW v \in verdicts, DropFails(v) PROVE FALSE
  <2>1. Wrong
    BY <1>13 DEF DropFails
  <2> QED
    BY <2>1, Troubled
<1> QED
  BY <1>1, <1>2, <1>3, <1>4, <1>5, <1>6, <1>7, <1>8, <1>9, <1>10, <1>11, <1>12, <1>13
  DEF Next, RunStep

-----------------------------------------------------------------------------
(* What holds of every run.                                                *)

LEMMA UnbegunStep == ASSUME Unbegun, [Next]_vars PROVE Unbegun'
<1> USE DEF Unbegun, DropMemory, EnterUndo, Forget
<1>1. CASE UNCHANGED vars
  BY <1>1
<1>2. CASE Fault
  BY <1>2 DEF Fault, Abort, Signal, Kill, Unverified
<1>3. CASE Sanoid
  BY <1>3 DEF Sanoid, SanoidTake, SanoidPrune
<1>4. CASE Between
  BY <1>4 DEF Between, Start, PruneOrigin, PruneUnowned, Touch, Exclude, DrivePrune
<1>5. CASE \/ TakeRpool \/ TakeBpool \/ Survey \/ Decide \/ BeginRound \/ EndRound
           \/ Verify \/ EndAnchors
  BY <1>5 DEF TakeRpool, TakeBpool, TakeOn, Survey, Decide, BeginRound, EndRound,
              Verify, EndAnchors
<1>6. CASE AnchorHeld \/ DropCheck \/ Finish \/ UndoRead \/ UndoBlind \/ UndoEnd
  BY <1>6 DEF AnchorHeld, DropCheck, Finish, UndoRead, UndoBlind, UndoEnd
<1>7. ASSUME NEW ds \in DS, \/ TransferOk(ds) \/ TransferCut(ds) \/ ResumeOk(ds) \/ ResumeFails(ds)
                            \/ AnchorOk(ds) \/ AnchorFails(ds) \/ UndoRemove(ds)
      PROVE  Unbegun'
  BY <1>7 DEF TransferOk, TransferCut, ResumeOk, ResumeFails, AnchorOk, AnchorFails, UndoRemove
<1>8. ASSUME NEW v \in verdicts, Drop(v) \/ DropFails(v) PROVE Unbegun'
  BY <1>8 DEF Drop, DropFails
<1> QED
  BY <1>1, <1>2, <1>3, <1>4, <1>5, <1>6, <1>7, <1>8 DEF Next, RunStep

LEMMA HeadsStep == ASSUME Inv, Heads, [Next]_vars PROVE Heads'
<1> USE EngineAssumption DEF Inv, Typed, Snapshots, Heads
<1>1. CASE UNCHANGED <<held, written>>
  BY <1>1
<1>2. CASE \/ UNCHANGED vars \/ Fault \/ Sanoid \/ TakeRpool \/ TakeBpool \/ Survey \/ BeginRound
           \/ EndRound \/ Verify \/ EndAnchors \/ AnchorHeld \/ DropCheck \/ Finish
           \/ UndoRead \/ UndoBlind \/ UndoEnd
  <2>1. UNCHANGED <<held, written>>
    BY <1>2 DEF Fault, Abort, Signal, Kill, Unverified, Sanoid, SanoidTake, SanoidPrune,
       TakeRpool, TakeBpool, TakeOn, Survey, BeginRound, EndRound, Verify, EndAnchors,
       AnchorHeld, DropCheck, Finish, UndoRead, UndoBlind, UndoEnd
  <2> QED
    BY <1>1, <2>1
<1>3. CASE Between
  <2>1. CASE \/ \E d \in Drives : Start(d)
             \/ \E ds \in DS : PruneOrigin(ds) \/ PruneUnowned(ds)
             \/ \E ds \in Excludable : Exclude(ds)
    <3>1. UNCHANGED <<held, written>>
      BY <2>1 DEF Start, PruneOrigin, PruneUnowned, Exclude
    <3> QED
      BY <1>1, <3>1
  <2>2. ASSUME NEW c \in Mounted, Touch(c[1], c[2]) PROVE Heads'
    BY <2>2 DEF Touch
  <2>3. ASSUME NEW c \in Prunable, DrivePrune(c[1], c[2]) PROVE Heads'
    <3>1. UNCHANGED written
      BY <2>3 DEF DrivePrune
    <3>2. PICK t \in held[c[1]][c[2]], u \in held[c[1]][c[2]] :
            /\ t # u
            /\ held'[c[1]][c[2]] = held[c[1]][c[2]] \ {t}
            /\ \A d \in Drives, ds \in DS :
                 d # c[1] \/ ds # c[2] => held'[d][ds] = held[d][ds]
      BY <2>3, Pruned
    <3>3. ASSUME NEW d \in Drives, NEW ds \in DS, held[d][ds] # {} PROVE held'[d][ds] # {}
      <4>1. CASE d = c[1] /\ ds = c[2]
        <5>1. u \in held'[c[1]][c[2]]
          BY <3>2
        <5> QED
          BY <4>1, <5>1
      <4>2. CASE d # c[1] \/ ds # c[2]
        BY <3>2, <3>3, <4>2
      <4> QED
        BY <4>1, <4>2
    <3> QED
      BY <3>1, <3>3
  <2> QED
    BY <1>3, <2>1, <2>2, <2>3 DEF Between
<1>4. CASE Decide
  <2> SUFFICES ASSUME NEW d \in Drives, NEW ds \in DS, <<d, ds>> \in written'
               PROVE  held'[d][ds] # {}
    OBVIOUS
  <2>1. disk \in Drives /\ <<d, ds>> \in written
    BY <1>4 DEF Decide
  <2>2. CASE d # disk
    BY <1>4, <2>1, <2>2 DEF Decide
  <2>3. CASE d = disk
    <3>1. held'[disk][ds] = held[disk][ds]
      BY <1>4, <2>1, <2>3 DEF Decide
    <3> QED
      BY <2>1, <2>3, <3>1
  <2> QED
    BY <2>2, <2>3
<1>5. ASSUME NEW ds \in DS, \/ TransferOk(ds) \/ TransferCut(ds) \/ ResumeOk(ds) \/ ResumeFails(ds)
                            \/ AnchorOk(ds) \/ AnchorFails(ds) \/ UndoRemove(ds)
      PROVE  Heads'
  <2>1. UNCHANGED written
    BY <1>5 DEF TransferOk, TransferCut, ResumeOk, ResumeFails, AnchorOk, AnchorFails, UndoRemove
  <2>2. \A d \in Drives, x \in DS : held[d][x] \subseteq held'[d][x]
    <3>1. CASE UNCHANGED held
      BY <3>1
    <3>2. CASE \E S : held' = [held EXCEPT ![disk][ds] = @ \cup S]
      BY <3>2
    <3>3. CASE TransferCut(ds)
      <4>1. PICK u \in Stream(ds) :
              held' = [held EXCEPT ![disk][ds] = @ \cup {t \in Stream(ds) : t < u}]
        BY <3>3, Zenon DEF TransferCut
      <4> QED
        BY <3>2, <4>1
    <3>4. CASE TransferOk(ds) \/ ResumeOk(ds)
      <4>1. \/ held' = [held EXCEPT ![disk][ds] = @ \cup Stream(ds)]
            \/ held' = [held EXCEPT ![disk][ds] = @ \cup {token[disk][ds]}]
        BY <3>4 DEF TransferOk, ResumeOk
      <4> QED
        BY <3>2, <4>1
    <3>5. CASE ResumeFails(ds) \/ AnchorOk(ds) \/ AnchorFails(ds) \/ UndoRemove(ds)
      BY <3>1, <3>5 DEF ResumeFails, AnchorOk, AnchorFails, UndoRemove
    <3> QED
      BY <1>5, <3>3, <3>4, <3>5
  <2> QED
    BY <2>1, <2>2
<1>6. ASSUME NEW v \in verdicts, Drop(v) \/ DropFails(v) PROVE Heads'
  BY <1>6 DEF Drop, DropFails
<1> QED
  BY <1>2, <1>3, <1>4, <1>5, <1>6 DEF Next, RunStep

-----------------------------------------------------------------------------
(* What a survey of the drive finds.                                       *)

LEMMA PlanNow ==
  ASSUME NEW ds \in DS
  PROVE  /\ ds \in Wanted => PlanWith(token[disk])[ds] = Now(ds)
         /\ ds \notin Wanted => PlanWith(token[disk])[ds] = "EXCLUDED"
<1>1. [DestOf(disk, ds) EXCEPT !.token = token[disk][ds]] = DestOf(disk, ds)
  BY DEF DestOf
<1> QED
  BY <1>1 DEF PlanWith, Now, Wanted

LEMMA SameNow ==
  ASSUME NEW ds \in DS, UNCHANGED <<txg, autos, disk, pt>>,
         points'[ds] = points[ds], anchors'[ds] = anchors[ds],
         held'[disk][ds] = held[disk][ds], token'[disk][ds] = token[disk][ds],
         <<disk, ds>> \in written' <=> <<disk, ds>> \in written
  PROVE  /\ Now(ds)' = Now(ds)
         /\ CanResume(disk, ds)' <=> CanResume(disk, ds)
         /\ OriginOf(ds)' = OriginOf(ds) /\ PointOf(ds)' = PointOf(ds)
<1>1. OriginOf(ds)' = OriginOf(ds) /\ Snaps(ds)' = Snaps(ds)
  BY DEF OriginOf, Snaps, Marks
<1>2. PointOf(ds)' = PointOf(ds)
  BY DEF PointOf
<1>3. DestOf(disk, ds)' = DestOf(disk, ds)
  BY DEF DestOf
<1>4. Now(ds)' = Now(ds)
  BY <1>1, <1>2, <1>3, Zenon DEF Now
<1>5. CanResume(disk, ds)' <=> CanResume(disk, ds)
  BY <1>1, Zenon DEF CanResume
<1> QED
  BY <1>1, <1>2, <1>4, <1>5

LEMMA NowSays ==
  ASSUME NEW ds \in DS
  PROVE  /\ Now(ds) \in State \ {"EXCLUDED"}
         /\ Now(ds) = "NEW" => token[disk][ds] = 0 /\ held[disk][ds] = {}
         /\ Now(ds) = "RESUME" => /\ token[disk][ds] # 0
                                  /\ <<disk, ds>> \notin written \/ held[disk][ds] = {}
         /\ Now(ds) = "AT_POINT" => /\ token[disk][ds] = 0
                                    /\ IsNewest(PointOf(ds), held[disk][ds])
         /\ Now(ds) \in Based => /\ token[disk][ds] = 0 /\ <<disk, ds>> \notin written
                                 /\ ~(IsNewest(PointOf(ds), held[disk][ds])
                                      /\ PointOf(ds) \in Snaps(ds))
         /\ Now(ds) = "ROLLBACK" => token[disk][ds] = 0 /\ held[disk][ds] # {}
         /\ Now(ds) = "DIVERGED" => token[disk][ds] = 0
<1> DEFINE d == DestOf(disk, ds)
<1>1. /\ d.token = token[disk][ds] /\ d.snaps = held[disk][ds]
      /\ d.written <=> <<disk, ds>> \in written
  BY DEF DestOf
<1>2. OriginOf(ds).snaps = Snaps(ds)
  BY DEF OriginOf
<1> HIDE DEF d
<1> QED
  BY <1>1, <1>2, PlanSays DEF Now, d

(* The run's point is a snapshot of origin.                                *)
LEMMA PointListed ==
  ASSUME Inv, phase # "idle", NEW ds \in DS, <<disk, pt>> \in points[ds]
  PROVE  disk \in Drives /\ pt \in Nat /\ pt # 0 /\ PointOf(ds) = pt /\ pt \in Snaps(ds)
<1>1. disk \in Drives /\ pt \in Nat
  BY DEF Inv, Typed
<1>2. pt \in Snaps(ds)
  BY <1>1, SnapsOf DEF Inv, Carries
<1> QED
  BY <1>1, <1>2 DEF PointOf, Inv, OwnPoint

(* A step that leaves origin alone brings a dataset to the point when it   *)
(* then holds it, and one whose newest snapshot origin knows continues.    *)
LEMMA Arrived ==
  ASSUME Inv, Bounded', phase # "idle", phase' # "idle", NEW ds \in DS,
         <<disk, pt>> \in points[ds], UNCHANGED <<txg, autos, points, disk, pt>>,
         anchors'[ds] = anchors[ds], token'[disk][ds] = 0, pt \in held'[disk][ds]
  PROVE  Now(ds)' = "AT_POINT"
<1> DEFINE d == DestOf(disk, ds)'
<1>1. d.token = 0 /\ d.snaps = held'[disk][ds]
  BY DEF DestOf
<1>2. PointOf(ds)' = pt /\ pt \in Snaps(ds)
  BY PointListed DEF PointOf
<1>3. IsNewest(pt, held'[disk][ds])
  BY DEF IsNewest, Bounded
<1>4. OriginOf(ds)'.snaps = Snaps(ds)
  BY DEF OriginOf, Snaps
<1>5. PlanDataset(OriginOf(ds)', d, PointOf(ds)') = "AT_POINT"
  <2> HIDE DEF d
  <2> QED
    BY <1>1, <1>2, <1>3, <1>4, PlanAtPoint
<1> QED
  BY <1>5, Zenon DEF Now

LEMMA OnBase ==
  ASSUME Inv, Bounded', phase # "idle", phase' # "idle", NEW ds \in DS,
         <<disk, pt>> \in points[ds], UNCHANGED <<txg, autos, points, disk, pt>>,
         anchors'[ds] = anchors[ds], token'[disk][ds] = 0, <<disk, ds>> \notin written',
         NEW t \in held'[disk][ds], IsNewest(t, held'[disk][ds]), t \in Nat,
         t \in Known(OriginOf(ds))
  PROVE  Now(ds)' \in Based \cup {"AT_POINT"}
<1> DEFINE d == DestOf(disk, ds)'
           o == OriginOf(ds)'
<1>1. d.token = 0 /\ d.snaps = held'[disk][ds] /\ ~d.written
  BY DEF DestOf
<1>2. pt \in Snaps(ds) /\ pt \in Nat /\ disk \in Drives
  BY PointListed
<1>3. t <= pt
  BY <1>2 DEF Bounded
<1>4. o = OriginOf(ds) /\ o.snaps = Snaps(ds)
  BY DEF OriginOf, Snaps, Marks
<1>5. t \in o.snaps \/ (t \in o.marks /\ \E u \in o.snaps : u > t)
  <2> HIDE DEF o
  <2> QED
    BY <1>2, <1>3, <1>4 DEF Known
<1>6. PlanDataset(o, d, PointOf(ds)') \in Based \cup {"AT_POINT"}
  <2> HIDE DEF d, o
  <2> QED
    BY <1>1, <1>5, PlanBased
<1> QED
  BY <1>6, Zenon DEF Now

-----------------------------------------------------------------------------
(* Each step of a run that goes well keeps it on its way.                  *)

LEMMA TakeOnItsWay ==
  ASSUME Inv, OnItsWay, TakeRpool \/ TakeBpool
  PROVE  phase' \in Normal /\ OnItsWay'
<1> USE EngineAssumption DEF Inv, Typed, OnItsWay, PointThere, Wanted, DS
<1>1. CASE TakeRpool
  <2>1. phase' = "rpool" /\ UNCHANGED <<disk, pt, skip>>
    BY <1>1 DEF TakeRpool, TakeOn
  <2>2. \A ds \in Rpool : ds \notin skip => <<disk, pt>> \in points'[ds]
    BY <1>1 DEF TakeRpool, TakeOn
  <2> QED
    BY <2>1, <2>2 DEF Normal, Decided, Ready, Sending, Sent, AtThePoint, Ending, Judged
<1>2. CASE TakeBpool
  <2>1. phase = "rpool" /\ phase' = "taken" /\ UNCHANGED <<disk, pt, skip>>
    BY <1>2 DEF TakeBpool, TakeOn
  <2>2. \A ds \in DS : ds \notin skip => <<disk, pt>> \in points'[ds]
    BY <1>2, <2>1 DEF TakeBpool, TakeOn
  <2> QED
    BY <2>1, <2>2 DEF Normal, Decided, Ready, Sending, Sent, AtThePoint, Ending, Judged
<1> QED
  BY <1>1, <1>2

LEMMA SurveyOnItsWay ==
  ASSUME Inv, OnItsWay, Survey, smooth'
  PROVE  phase' \in Normal /\ OnItsWay'
<1> USE DEF Inv, Typed
<1>1. /\ phase = "taken" /\ phase' = "decide" /\ disk \in Drives
      /\ UNCHANGED <<txg, autos, points, anchors, skip, held, written, disk, pt>>
  BY DEF Survey
<1>2. PICK gone \in SUBSET StalePartials :
        /\ token' = [token EXCEPT ![disk] =
                       [ds \in DS |-> IF ds \in gone THEN 0 ELSE token[disk][ds]]]
        /\ plan' = PlanWith([ds \in DS |-> IF ds \in gone THEN 0 ELSE token[disk][ds]])
        /\ IF gone = StalePartials THEN Fine ELSE Wrong
  BY Zenon DEF Survey
<1>3. gone = StalePartials
  BY <1>2, Troubled
<1>4. token'[disk] = [ds \in DS |-> IF ds \in gone THEN 0 ELSE token[disk][ds]]
  BY <1>1, <1>2
<1>5. plan' = PlanWith(token'[disk])
  BY <1>2, <1>4
<1>6. ASSUME NEW ds \in Wanted'
      PROVE  plan'[ds] = Now(ds)' /\ (Now(ds)' = "RESUME" => CanResume(disk, ds)')
  <2>1. ds \in Wanted /\ ds \in DS /\ ds \notin skip
    BY <1>1, <1>6 DEF Wanted
  <2>2. plan'[ds] = PlanDataset(OriginOf(ds), [DestOf(disk, ds) EXCEPT !.token = token'[disk][ds]],
                                PointOf(ds))
    BY <1>5, <2>1 DEF PlanWith
  <2>3. [DestOf(disk, ds) EXCEPT !.token = token'[disk][ds]] = DestOf(disk, ds)'
    BY <1>1 DEF DestOf
  <2>4. OriginOf(ds)' = OriginOf(ds) /\ PointOf(ds)' = PointOf(ds)
    BY <1>1 DEF OriginOf, Snaps, Marks, PointOf
  <2>5. plan'[ds] = Now(ds)'
    BY <1>1, <2>2, <2>3, <2>4, Zenon DEF Now
  <2>6. ASSUME Now(ds)' = "RESUME" PROVE CanResume(disk, ds)'
    <3>1. DestOf(disk, ds)'.token = token'[disk][ds]
      BY <1>1 DEF DestOf
    <3>2. token'[disk][ds] # 0
      BY <1>1, <2>6, <3>1, PlanSays DEF Now
    <3>3. ds \notin gone /\ token'[disk][ds] = token[disk][ds]
      BY <1>4, <2>1, <3>2
    <3>4. Now(ds)' = Now(ds) /\ (CanResume(disk, ds)' <=> CanResume(disk, ds))
      BY <1>1, <2>1, <3>3, SameNow
    <3>5. PlanWith(token[disk])[ds] = "RESUME"
      BY <2>1, <2>6, <3>4, PlanNow
    <3>6. CanResume(disk, ds)
      BY <1>3, <2>1, <3>3, <3>5 DEF StalePartials
    <3> QED
      BY <3>4, <3>6
  <2> QED
    BY <2>5, <2>6
<1>7. Decided'
  BY <1>1, <1>6 DEF Decided
<1>8. PointThere'
  BY <1>1 DEF OnItsWay, PointThere, Wanted
<1> QED
  BY <1>1, <1>7, <1>8 DEF OnItsWay, Normal, Ready, Sending, Sent, AtThePoint, Ending, Judged

(* The decisions, all accepted, leave every dataset one that can be        *)
(* transferred.                                                            *)
LEMMA DecideReady ==
  ASSUME Inv, Bounded', OnItsWay, Decide, smooth', NEW ds \in Wanted
  PROVE  \/ Now(ds)' \in Based \cup {"AT_POINT", "NEW"}
         \/ Now(ds)' = "RESUME" /\ CanResume(disk, ds)'
<1>1. /\ phase = "decide" /\ phase' = "round" /\ disk \in Drives
      /\ ds \in DS /\ ds \notin skip
      /\ UNCHANGED <<txg, autos, points, skip, disk, pt>>
  BY DEF Decide, Wanted, Inv, Typed
<1>2. PICK done \in SUBSET (Asked \cup HeldExcluded), cut \in SUBSET Partials,
           aside \in SUBSET Planned({"ROLLBACK"}), free \in BOOLEAN :
        /\ done \cap Partials \subseteq cut
        /\ aside \cap done = {}
        /\ held' = [held EXCEPT ![disk] = [x \in DS |->
              IF x \in (done \cap (Planned({"DIVERGED"}) \cup HeldExcluded)) \cup aside THEN {}
              ELSE IF x \in (done \cap Planned({"ROLLBACK"})) \ aside THEN UpToCommon(x)
              ELSE held[disk][x]]]
        /\ token' = [token EXCEPT ![disk] = [x \in DS |->
              IF x \in ((done \cap (Planned({"DIVERGED"}) \cup HeldExcluded)) \cup aside) \cup cut
              THEN 0 ELSE token[disk][x]]]
        /\ written' = written \ {<<disk, x>> : x \in done \cup aside}
        /\ anchors' = [x \in DS |-> IF free /\ x \in done \cap HeldExcluded
                                    THEN {a \in anchors[x] : a[1] # disk} ELSE anchors[x]]
        /\ IF ~(Asked \subseteq done) THEN Wrong ELSE IF AskedOnce THEN Fine ELSE Doomed
  BY Zenon DEF Decide
<1>3. Asked \subseteq done /\ AskedOnce
  BY <1>2, Troubled
<1>4. held'[disk][ds] = IF ds \in (done \cap (Planned({"DIVERGED"}) \cup HeldExcluded)) \cup aside
                        THEN {}
                        ELSE IF ds \in (done \cap Planned({"ROLLBACK"})) \ aside THEN UpToCommon(ds)
                        ELSE held[disk][ds]
  BY <1>1, <1>2 DEF Inv, Typed
<1>5. token'[disk][ds] =
        IF ds \in ((done \cap (Planned({"DIVERGED"}) \cup HeldExcluded)) \cup aside) \cup cut
        THEN 0 ELSE token[disk][ds]
  BY <1>1, <1>2 DEF Inv, Typed
<1>6. <<disk, ds>> \in written' <=> <<disk, ds>> \in written /\ ds \notin done \cup aside
  BY <1>2
<1>7. ds \notin HeldExcluded /\ anchors'[ds] = anchors[ds]
  BY <1>1, <1>2 DEF HeldExcluded
<1>8. /\ plan[ds] = Now(ds) /\ (Now(ds) = "RESUME" => CanResume(disk, ds))
      /\ <<disk, pt>> \in points[ds]
  BY <1>1 DEF OnItsWay, Decided, PointThere
<1>9. /\ ds \in aside => Now(ds) = "ROLLBACK"
      /\ ds \in cut => Now(ds) = "MODIFIED"
      /\ ds \in done => Now(ds) \in {"MODIFIED", "ROLLBACK", "DIVERGED"}
      /\ Now(ds) \in {"MODIFIED", "ROLLBACK", "DIVERGED"} => ds \in done /\ ds \notin aside
      /\ \A s \in State : ds \in Planned({s}) <=> Now(ds) = s
  BY <1>1, <1>2, <1>3, <1>7, <1>8 DEF Asked, Planned, Partials
<1>10. CASE Now(ds) \notin {"MODIFIED", "ROLLBACK", "DIVERGED"}
  <2>1. ds \notin done /\ ds \notin aside /\ ds \notin cut
    BY <1>9, <1>10
  <2>2. Now(ds)' = Now(ds) /\ (CanResume(disk, ds)' <=> CanResume(disk, ds))
    BY <1>1, <1>4, <1>5, <1>6, <1>7, <2>1, SameNow
  <2>3. Now(ds) \in Based \cup {"AT_POINT", "NEW", "RESUME"}
    BY <1>1, <1>10, NowSays DEF State, Based
  <2> QED
    BY <1>8, <2>2, <2>3
<1>11. CASE Now(ds) = "DIVERGED"
  <2>1. held'[disk][ds] = {} /\ token'[disk][ds] = 0
    BY <1>4, <1>5, <1>9, <1>11 DEF State
  <2>2. DestOf(disk, ds)'.token = 0 /\ DestOf(disk, ds)'.snaps = {}
    BY <1>1, <2>1 DEF DestOf
  <2>3. PlanUnwritten(OriginOf(ds)', DestOf(disk, ds)', PointOf(ds)') = "NEW"
    BY <2>2 DEF PlanUnwritten
  <2>4. Now(ds)' = "NEW"
    BY <1>1, <2>2, <2>3 DEF Now, PlanDataset, IsPartialModified
  <2> QED
    BY <2>4
<1>12. CASE Now(ds) = "MODIFIED"
  <2>1. /\ held'[disk][ds] = held[disk][ds] /\ <<disk, ds>> \notin written'
        /\ ds \notin aside /\ ds \in done
    BY <1>4, <1>6, <1>7, <1>9, <1>12 DEF State
  <2>2. token'[disk][ds] = 0
    <3>1. CASE token[disk][ds] = 0
      BY <1>5, <3>1
    <3>2. CASE token[disk][ds] # 0
      <4>1. ds \in Partials
        BY <1>9, <1>12, <3>2 DEF Partials, State
      <4> QED
        BY <1>2, <1>5, <2>1, <4>1
    <3> QED
      BY <3>1, <3>2
  <2>3. PlanAfter(OriginOf(ds), DestOf(disk, ds), PointOf(ds)) \in Based \cup {"AT_POINT"}
    <3> DEFINE o == OriginOf(ds)
               d == DestOf(disk, ds)
               e == [d EXCEPT !.token = 0]
    <3>1. /\ d.token = token[disk][ds] /\ d.snaps = held[disk][ds]
          /\ e.token = 0 /\ e.snaps = d.snaps
      BY DEF DestOf
    <3>2. PlanDataset(o, d, PointOf(ds)) = "MODIFIED"
      BY <1>12 DEF Now
    <3>3. CASE token[disk][ds] = 0
      <4>1. e = d
        BY <3>1, <3>3 DEF DestOf
      <4> HIDE DEF o, d, e
      <4>2. PlanUnwritten(o, d, PointOf(ds)) \in Based
        BY <3>1, <3>2, <3>3, PlanSays
      <4>3. PlanUnwritten(o, e, PointOf(ds)) \in Based
        BY <4>1, <4>2
      <4> QED
        BY <4>3 DEF PlanAfter, o, d, e
    <3>4. CASE token[disk][ds] # 0
      <4>1. ds \in Partials
        BY <1>9, <1>12, <3>4 DEF Partials, State
      <4>2. PlanAfter(o, d, PointOf(ds)) \notin {"ROLLBACK", "DIVERGED"}
        BY <1>3, <4>1 DEF AskedOnce
      <4> HIDE DEF o, d, e
      <4>3. d.snaps # {}
        BY <3>1, <3>2, <3>4 DEF PlanDataset, PlanUnwritten, IsPartialModified
      <4>4. PlanUnwritten(o, e, PointOf(ds)) \in Based \cup {"AT_POINT", "ROLLBACK", "DIVERGED"}
        BY <3>1, <4>3 DEF PlanUnwritten, Based
      <4> QED
        BY <4>2, <4>4 DEF PlanAfter, o, d, e
    <3> QED
      BY <3>3, <3>4
  <2> DEFINE e == DestOf(disk, ds)'
             d == [DestOf(disk, ds) EXCEPT !.token = 0]
  <2>4. /\ e.token = 0 /\ e.snaps = held[disk][ds] /\ ~e.written
        /\ d.token = 0 /\ d.snaps = held[disk][ds]
    BY <1>1, <2>1, <2>2 DEF DestOf
  <2>5. OriginOf(ds)' = OriginOf(ds) /\ PointOf(ds)' = PointOf(ds)
    BY <1>1, <1>7 DEF OriginOf, Snaps, Marks, PointOf
  <2>6. PlanDataset(OriginOf(ds), e, PointOf(ds)) = PlanUnwritten(OriginOf(ds), d, PointOf(ds))
    <3> HIDE DEF e, d
    <3> QED
      BY <2>4 DEF PlanDataset, PlanUnwritten, IsPartialModified, Common
  <2>7. Now(ds)' = PlanDataset(OriginOf(ds), e, PointOf(ds))
    BY <2>5, Zenon DEF Now
  <2> QED
    BY <2>3, <2>6, <2>7 DEF PlanAfter
<1>13. CASE Now(ds) = "ROLLBACK"
  <2>1. /\ ds \in done /\ ds \notin aside /\ ds \notin cut
        /\ ds \notin Planned({"DIVERGED"}) /\ ds \in Planned({"ROLLBACK"})
    BY <1>9, <1>13 DEF State
  <2>2. /\ held'[disk][ds] = UpToCommon(ds) /\ <<disk, ds>> \notin written'
        /\ token'[disk][ds] = 0
    BY <1>1, <1>4, <1>5, <1>6, <1>7, <1>13, <2>1, NowSays
  <2> DEFINE common == Common(OriginOf(ds), DestOf(disk, ds))
  <2>3. common \subseteq held[disk][ds]
    BY DEF Common, DestOf
  <2>4. held[disk][ds] \in SUBSET Nat /\ \A t \in held[disk][ds] : t <= txg
    BY <1>1 DEF Inv, Typed, Snapshots, Fresh
  <2>5. common # {}
    <3>1. PlanDataset(OriginOf(ds), DestOf(disk, ds), PointOf(ds)) = "ROLLBACK"
      BY <1>13 DEF Now
    <3> QED
      BY <3>1, PlanSays
  <2>6. PICK c \in common : IsNewest(c, common)
    <3>1. txg \in Nat
      BY DEF Inv, Typed
    <3> HIDE DEF common
    <3> QED
      BY <2>3, <2>4, <2>5, <3>1, NewestExists
  <2>7. c \in UpToCommon(ds) /\ IsNewest(c, UpToCommon(ds)) /\ c \in Nat
    BY <2>3, <2>4, <2>6 DEF UpToCommon, IsNewest
  <2>8. c \in Known(OriginOf(ds))
    BY <2>6 DEF Common
  <2>9. Now(ds)' \in Based \cup {"AT_POINT"}
    BY <1>1, <1>7, <1>8, <2>2, <2>7, <2>8, OnBase
  <2> QED
    BY <2>9
<1> QED
  BY <1>10, <1>11, <1>12, <1>13

LEMMA DecideOnItsWay ==
  ASSUME Inv, Bounded', Unbegun, OnItsWay, Decide, smooth'
  PROVE  phase' \in Normal /\ OnItsWay'
<1>1. phase = "decide" /\ phase' = "round" /\ UNCHANGED <<points, skip, disk, pt, round>>
  BY DEF Decide
<1>2. Wanted' = Wanted /\ round' = 0
  BY <1>1 DEF Wanted, Unbegun
<1>3. Ready'
  BY <1>1, <1>2, DecideReady DEF Ready
<1>4. PointThere'
  BY <1>1 DEF OnItsWay, PointThere, Wanted
<1> QED
  BY <1>1, <1>3, <1>4 DEF OnItsWay, Normal, Decided, Sending, Sent, AtThePoint, Ending, Judged

LEMMA BeginOnItsWay ==
  ASSUME Inv, OnItsWay, BeginRound
  PROVE  phase' \in Normal /\ OnItsWay'
<1>1. /\ phase = "round" /\ round' = round + 1 /\ again' = FALSE
      /\ UNCHANGED <<originVars, driveVars, disk, pt>>
      /\ plan' = PlanWith(token[disk])
      /\ todo' = {ds \in DS : plan'[ds] \in TRANSFERABLE \ {"AT_POINT"}}
      /\ phase' = IF todo' = {} THEN "verify" ELSE "transfer"
  BY DEF BeginRound
<1>2. Wanted' = Wanted /\ Wanted \subseteq DS
  BY <1>1 DEF Wanted
<1>3. ASSUME NEW ds \in DS
      PROVE  Now(ds)' = Now(ds) /\ (CanResume(disk, ds)' <=> CanResume(disk, ds))
  BY <1>1, SameNow
<1>4. /\ \A ds \in Wanted : plan'[ds] = Now(ds)
      /\ todo' = {ds \in Wanted : Now(ds) \in TRANSFERABLE \ {"AT_POINT"}}
  <2>1. \A ds \in DS : /\ ds \in Wanted => plan'[ds] = Now(ds)
                       /\ ds \notin Wanted => plan'[ds] = "EXCLUDED"
    BY <1>1, PlanNow
  <2> QED
    BY <1>1, <1>2, <2>1 DEF TRANSFERABLE
<1>5. /\ round \in {0, 1}
      /\ \A ds \in Wanted :
           \/ Now(ds) \in Based \cup {"AT_POINT"}
           \/ round = 0 /\ Now(ds) = "NEW"
           \/ round = 0 /\ Now(ds) = "RESUME" /\ CanResume(disk, ds)
  BY <1>1 DEF OnItsWay, Ready
<1>6. PointThere'
  BY <1>1 DEF OnItsWay, PointThere, Wanted
<1>7. ASSUME NEW ds \in Wanted, ds \notin todo' PROVE Now(ds)' = "AT_POINT"
  BY <1>2, <1>3, <1>4, <1>5, <1>7 DEF TRANSFERABLE, Based
<1>8. CASE todo' = {}
  <2>1. Sent'
    BY <1>2, <1>7, <1>8 DEF Sent
  <2> QED
    BY <1>1, <1>6, <1>8, <2>1
    DEF OnItsWay, Normal, Decided, Ready, Sending, AtThePoint, Ending, Judged
<1>9. CASE todo' # {}
  <2>1. \A ds \in todo' : /\ ds \in Wanted /\ plan'[ds] = Now(ds)'
                          /\ \/ Now(ds)' \in Based
                             \/ round' = 1 /\ Now(ds)' = "NEW"
                             \/ round' = 1 /\ Now(ds)' = "RESUME" /\ CanResume(disk, ds)'
    <3> SUFFICES ASSUME NEW ds \in todo'
                 PROVE  /\ ds \in Wanted /\ plan'[ds] = Now(ds)'
                        /\ \/ Now(ds)' \in Based
                           \/ round' = 1 /\ Now(ds)' = "NEW"
                           \/ round' = 1 /\ Now(ds)' = "RESUME" /\ CanResume(disk, ds)'
      OBVIOUS
    <3>1. ds \in Wanted /\ ds \in DS /\ Now(ds) # "AT_POINT" /\ plan'[ds] = Now(ds)
      BY <1>2, <1>4
    <3>2. Now(ds)' = Now(ds) /\ (CanResume(disk, ds)' <=> CanResume(disk, ds))
      BY <1>3, <3>1
    <3> QED
      BY <1>1, <1>5, <3>1, <3>2
  <2>2. round' \in {1, 2} /\ todo' \subseteq Wanted' /\ ~again'
    BY <1>1, <1>2, <1>5, <2>1
  <2>3. Sending'
    BY <1>1, <1>2, <1>7, <2>1, <2>2 DEF Sending
  <2> QED
    BY <1>1, <1>6, <1>9, <2>3
    DEF OnItsWay, Normal, Decided, Ready, Sent, AtThePoint, Ending, Judged
<1> QED
  BY <1>8, <1>9

(* A transfer touches its own dataset only.                                *)
LEMMA OthersAsBefore ==
  ASSUME Inv, NEW ds \in DS, TransferOk(ds) \/ ResumeOk(ds), NEW x \in DS, x # ds
  PROVE  Now(x)' = Now(x) /\ (CanResume(disk, x)' <=> CanResume(disk, x))
<1>1. UNCHANGED <<txg, autos, disk, pt, points, anchors, written>> /\ disk \in Drives
  BY DEF TransferOk, ResumeOk, Inv, Typed
<1>2. held'[disk][x] = held[disk][x]
  BY <1>1 DEF TransferOk, ResumeOk, Inv, Typed
<1>3. token'[disk][x] = token[disk][x]
  BY <1>1 DEF TransferOk, ResumeOk, Inv, Typed
<1> QED
  BY <1>1, <1>2, <1>3, SameNow

LEMMA TransferOnItsWay ==
  ASSUME Inv, Bounded, Bounded', OnItsWay, NEW ds \in DS, TransferOk(ds)
  PROVE  phase' \in Normal /\ OnItsWay'
<1>1. /\ phase = "transfer" /\ phase' = "transfer" /\ disk \in Drives
      /\ ds \in todo /\ plan[ds] # "RESUME" /\ todo' = todo \ {ds}
      /\ UNCHANGED <<txg, autos, points, anchors, skip, token, written, disk, pt, plan, round, again>>
      /\ held' = [held EXCEPT ![disk][ds] = @ \cup Stream(ds)]
  BY DEF TransferOk, Inv, Typed
<1>2. /\ round \in {1, 2} /\ (again => round = 1) /\ todo \subseteq Wanted
      /\ \A x \in todo : /\ plan[x] = Now(x)
                         /\ \/ Now(x) \in Based
                            \/ round = 1 /\ Now(x) = "NEW"
                            \/ round = 1 /\ Now(x) = "RESUME" /\ CanResume(disk, x)
      /\ \A x \in Wanted \ todo : Now(x) = "AT_POINT" \/ (again /\ Now(x) \in Based)
  BY <1>1 DEF OnItsWay, Sending
<1>3. Wanted' = Wanted /\ Wanted \subseteq DS
  BY <1>1 DEF Wanted
<1>4. <<disk, pt>> \in points[ds] /\ pt \in Snaps(ds) /\ PointOf(ds) = pt /\ pt \in Nat
  <2>1. <<disk, pt>> \in points[ds]
    BY <1>1, <1>2 DEF OnItsWay, PointThere
  <2> QED
    BY <1>1, <2>1, PointListed
<1>5. pt \in Stream(ds)
  <2>1. CASE Now(ds) = "NEW"
    BY <1>1, <1>2, <1>4, <2>1 DEF Stream
  <2>2. CASE Now(ds) \in Based
    <3>1. ~IsNewest(pt, held[disk][ds]) /\ plan[ds] # "NEW"
      BY <1>1, <1>2, <1>4, <2>2, NowSays DEF Based
    <3>2. \A u \in held[disk][ds] : u <= pt /\ u \in Nat
      BY <1>1 DEF Bounded, Inv, Typed, Snapshots
    <3>3. \A u \in held[disk][ds] : u < pt
      BY <1>4, <3>1, <3>2 DEF IsNewest
    <3> QED
      BY <1>4, <3>1, <3>3 DEF Stream
  <2> QED
    BY <1>1, <1>2, <2>1, <2>2
<1>6. Now(ds)' = "AT_POINT"
  <2>1. token[disk][ds] = 0
    BY <1>1, <1>2, NowSays
  <2>2. pt \in held'[disk][ds]
    BY <1>1, <1>5 DEF Inv, Typed
  <2> QED
    BY <1>1, <1>4, <2>1, <2>2, Arrived
<1>7. Sending'
  <2>1. \A x \in DS \ {ds} : Now(x)' = Now(x) /\ (CanResume(disk, x)' <=> CanResume(disk, x))
    BY OthersAsBefore
  <2>2. \A x \in todo' : /\ plan'[x] = Now(x)'
                         /\ \/ Now(x)' \in Based
                            \/ round' = 1 /\ Now(x)' = "NEW"
                            \/ round' = 1 /\ Now(x)' = "RESUME" /\ CanResume(disk, x)'
    BY <1>1, <1>2, <1>3, <2>1
  <2>3. \A x \in Wanted \ todo' : Now(x)' = "AT_POINT" \/ (again /\ Now(x)' \in Based)
    BY <1>1, <1>2, <1>3, <1>6, <2>1
  <2>4. again' = again
    BY <1>1
  <2> QED
    BY <1>1, <1>2, <1>3, <2>2, <2>3, <2>4 DEF Sending
<1>8. PointThere'
  BY <1>1 DEF OnItsWay, PointThere, Wanted
<1> QED
  BY <1>1, <1>7, <1>8 DEF OnItsWay, Normal, Decided, Ready, Sent, AtThePoint, Ending, Judged

LEMMA ResumeOnItsWay ==
  ASSUME Inv, Bounded, Bounded', Heads, OnItsWay, NEW ds \in DS, ResumeOk(ds)
  PROVE  phase' \in Normal /\ OnItsWay'
<1>1. /\ phase = "transfer" /\ phase' = "transfer" /\ disk \in Drives
      /\ ds \in todo /\ plan[ds] = "RESUME" /\ todo' = todo \ {ds} /\ again' = TRUE
      /\ UNCHANGED <<txg, autos, points, anchors, skip, written, disk, pt, plan, round>>
      /\ CanResume(disk, ds)
      /\ held' = [held EXCEPT ![disk][ds] = @ \cup {token[disk][ds]}]
      /\ token' = [token EXCEPT ![disk][ds] = 0]
  BY DEF ResumeOk, Inv, Typed
<1>2. /\ round \in {1, 2} /\ (again => round = 1) /\ todo \subseteq Wanted
      /\ \A x \in todo : /\ plan[x] = Now(x)
                         /\ \/ Now(x) \in Based
                            \/ round = 1 /\ Now(x) = "NEW"
                            \/ round = 1 /\ Now(x) = "RESUME" /\ CanResume(disk, x)
      /\ \A x \in Wanted \ todo : Now(x) = "AT_POINT" \/ (again /\ Now(x) \in Based)
  BY <1>1 DEF OnItsWay, Sending
<1>3. Wanted' = Wanted /\ Wanted \subseteq DS
  BY <1>1 DEF Wanted
<1>4. <<disk, pt>> \in points[ds]
  BY <1>1, <1>2 DEF OnItsWay, PointThere
<1>5. Now(ds) = "RESUME" /\ round = 1
  BY <1>1, <1>2 DEF Based
<1>6. Now(ds)' \in Based \cup {"AT_POINT"}
  <2>1. <<disk, ds>> \notin written'
    BY <1>1, <1>5, NowSays DEF Heads
  <2> DEFINE u == token[disk][ds]
             H == held[disk][ds]
  <2>2. held'[disk][ds] = H \cup {u} /\ token'[disk][ds] = 0
    BY <1>1 DEF Inv, Typed
  <2>3. txg \in Nat /\ u \in Nat /\ H \in SUBSET Nat /\ u <= txg /\ \A t \in H : t <= txg
    BY <1>1 DEF Inv, Typed, Snapshots, Fresh
  <2>4. u \in Known(OriginOf(ds)) /\ \A t \in H : IsNewest(t, H) => t \in Known(OriginOf(ds))
    BY <1>1 DEF CanResume, Known, OriginOf
  <2> HIDE DEF u, H
  <2>5. PICK t \in H \cup {u} : IsNewest(t, H \cup {u})
    <3>1. H \cup {u} \in SUBSET Nat /\ H \cup {u} # {} /\ \A t \in H \cup {u} : t <= txg
      BY <2>3
    <3> QED
      BY <2>3, <3>1, NewestExists
  <2>6. t \in Known(OriginOf(ds))
    BY <2>4, <2>5 DEF IsNewest
  <2> QED
    BY <1>1, <1>4, <2>1, <2>2, <2>3, <2>5, <2>6, OnBase
<1>7. Sending'
  <2>1. \A x \in DS \ {ds} : Now(x)' = Now(x) /\ (CanResume(disk, x)' <=> CanResume(disk, x))
    BY OthersAsBefore
  <2>2. \A x \in todo' : /\ plan'[x] = Now(x)'
                         /\ \/ Now(x)' \in Based
                            \/ round' = 1 /\ Now(x)' = "NEW"
                            \/ round' = 1 /\ Now(x)' = "RESUME" /\ CanResume(disk, x)'
    BY <1>1, <1>2, <1>3, <2>1
  <2>3. \A x \in Wanted \ todo' : Now(x)' = "AT_POINT" \/ Now(x)' \in Based
    BY <1>1, <1>2, <1>3, <1>6, <2>1
  <2>4. round' = 1 /\ again'
    BY <1>1, <1>5
  <2>5. todo' \subseteq Wanted'
    BY <1>1, <1>2, <1>3
  <2> QED
    BY <1>1, <1>3, <2>2, <2>3, <2>4, <2>5 DEF Sending
<1>8. PointThere'
  BY <1>1 DEF OnItsWay, PointThere, Wanted
<1> QED
  BY <1>1, <1>7, <1>8 DEF OnItsWay, Normal, Decided, Ready, Sent, AtThePoint, Ending, Judged

LEMMA EndRoundOnItsWay ==
  ASSUME Inv, OnItsWay, EndRound
  PROVE  phase' \in Normal /\ OnItsWay'
<1>1. /\ phase = "transfer" /\ todo = {}
      /\ phase' = IF again /\ round < MAX_ROUNDS THEN "round" ELSE "verify"
      /\ UNCHANGED <<originVars, driveVars, disk, pt, round>>
  BY DEF EndRound
<1>2. /\ round \in {1, 2} /\ (again => round = 1)
      /\ \A ds \in Wanted : Now(ds) = "AT_POINT" \/ (again /\ Now(ds) \in Based)
  BY <1>1 DEF OnItsWay, Sending
<1>3. Wanted' = Wanted /\ Wanted \subseteq DS
  BY <1>1 DEF Wanted
<1>4. \A ds \in DS : Now(ds)' = Now(ds)
  BY <1>1, SameNow
<1>5. PointThere'
  BY <1>1 DEF OnItsWay, PointThere, Wanted
<1>6. CASE again
  <2>1. phase' = "round"
    BY <1>1, <1>2, <1>6 DEF MAX_ROUNDS
  <2>2. Ready'
    BY <1>1, <1>2, <1>3, <1>4, <1>6 DEF Ready
  <2> QED
    BY <1>5, <2>1, <2>2 DEF OnItsWay, Normal, Decided, Sending, Sent, AtThePoint, Ending, Judged
<1>7. CASE ~again
  <2>1. phase' = "verify"
    BY <1>1, <1>7
  <2>2. Sent'
    BY <1>2, <1>3, <1>4, <1>7 DEF Sent
  <2> QED
    BY <1>5, <2>1, <2>2 DEF OnItsWay, Normal, Decided, Ready, Sending, AtThePoint, Ending, Judged
<1> QED
  BY <1>6, <1>7

LEMMA VerifyOnItsWay ==
  ASSUME Inv, OnItsWay, Verify
  PROVE  phase' \in Normal /\ OnItsWay'
<1>1. /\ phase = "verify" /\ phase' = "anchor" /\ plan' = PlanWith(token[disk])
      /\ todo' = {ds \in DS : plan'[ds] = "AT_POINT"}
      /\ UNCHANGED <<originVars, driveVars, disk, pt, named>>
  BY DEF Verify
<1>2. Wanted' = Wanted /\ Wanted \subseteq DS
  BY <1>1 DEF Wanted
<1>3. ASSUME NEW ds \in DS PROVE plan'[ds] = IF ds \in Wanted THEN "AT_POINT" ELSE "EXCLUDED"
  BY <1>1, PlanNow DEF OnItsWay, Sent
<1>4. Reached(plan')
  <2>1. DOMAIN plan' = DS
    BY <1>1 DEF PlanWith
  <2> QED
    BY <1>3, <2>1 DEF Reached
<1>5. \A ds \in Wanted : token[disk][ds] = 0 /\ pt \in held[disk][ds]
  <2> SUFFICES ASSUME NEW ds \in Wanted PROVE token[disk][ds] = 0 /\ pt \in held[disk][ds]
    OBVIOUS
  <2>1. Now(ds) = "AT_POINT" /\ <<disk, pt>> \in points[ds] /\ ds \in DS
    BY <1>1, <1>2 DEF OnItsWay, Sent, PointThere
  <2>2. PointOf(ds) = pt
    BY <1>1, <2>1, PointListed
  <2> QED
    BY <2>1, <2>2, NowSays DEF IsNewest
<1>6. AtThePoint'
  BY <1>1, <1>2, <1>3, <1>4, <1>5 DEF AtThePoint
<1> QED
  BY <1>1, <1>6 DEF OnItsWay, Normal, PointThere, Decided, Ready, Sending, Sent, Judged

LEMMA AnchorsOnItsWay ==
  ASSUME Inv, OnItsWay, smooth => phase \in Normal, smooth,
         EndAnchors \/ AnchorHeld \/ \E ds \in DS : AnchorOk(ds)
  PROVE  phase' \in Normal /\ OnItsWay'
<1> USE DEF OnItsWay, Normal, PointThere, Decided, Ready, Sending, Sent, Judged
<1>1. CASE EndAnchors
  <2>1. phase = "anchor" /\ phase' = "held" /\ todo = {}
        /\ UNCHANGED <<skip, held, token, disk, pt, plan, named>>
    BY <1>1 DEF EndAnchors
  <2>2. AtThePoint'
    BY <2>1 DEF AtThePoint, Ending, Wanted
  <2> QED
    BY <2>1, <2>2
<1>2. CASE AnchorHeld
  <2>1. phase = "held" /\ phase' = "check" /\ named \subseteq named'
        /\ UNCHANGED <<skip, held, token, disk, pt, plan>>
    BY <1>2 DEF AnchorHeld
  <2>2. AtThePoint'
    BY <2>1 DEF AtThePoint, Ending, Wanted
  <2> QED
    BY <2>1, <2>2
<1>3. ASSUME NEW ds \in DS, AnchorOk(ds) PROVE phase' \in Normal /\ OnItsWay'
  <2>1. phase = "anchor" /\ phase' = "anchor" /\ todo' = todo \ {ds} /\ named' = named \cup {ds}
        /\ UNCHANGED <<skip, held, token, disk, pt, plan>>
    BY <1>3 DEF AnchorOk
  <2>2. AtThePoint'
    BY <2>1 DEF AtThePoint, Ending, Wanted
  <2> QED
    BY <2>1, <2>2
<1> QED
  BY <1>1, <1>2, <1>3

(* Every point, and every older anchor of the drive, gets its verdict.     *)
LEMMA CheckOnItsWay ==
  ASSUME Inv, OnItsWay, DropCheck, smooth'
  PROVE  phase' \in Normal /\ OnItsWay'
<1>1. /\ phase = "check" /\ phase' = "drop"
      /\ UNCHANGED <<originVars, driveVars, disk, pt, plan, todo, named>>
  BY DEF DropCheck
<1>2. verdicts' = Verdicts
  <2>1. PICK readable \in BOOLEAN : /\ verdicts' = IF readable THEN Verdicts ELSE {}
                                    /\ IF readable THEN Fine ELSE Wrong
    BY Zenon DEF DropCheck
  <2> QED
    BY <2>1, Troubled
<1>3. Wanted' = Wanted /\ Wanted \subseteq DS
  BY <1>1 DEF Wanted
<1>4. \A ds \in Wanted : token[disk][ds] = 0 /\ Verified(ds)
  BY <1>1 DEF OnItsWay, AtThePoint, Ending, Verified
<1>5. \A v \in Verdicts : v.release /\ v.ds \in Wanted => v.drive # disk
  BY DEF Verdicts, Releases
<1>6. ASSUME NEW ds \in Wanted, NEW p \in points[ds]
      PROVE  \E v \in Verdicts : v.kind = "point" /\ v.ds = ds /\ <<v.drive, v.t>> = p
  <2>1. p \in Drives \X Nat
    BY <1>3 DEF Inv, Typed, Owned
  <2>2. p = <<p[1], p[2]>> /\ p[1] \in Drives /\ p[2] \in Nat
    BY <2>1
  <2>3. p[2] \in 0..txg
    BY <1>3, <2>2 DEF Inv, Typed, Fresh
  <2>4. PointGoes(ds, p) /\ Releases(ds, p) \in BOOLEAN
    BY <1>4 DEF PointGoes, Releases
  <2> DEFINE v == [ds |-> ds, kind |-> "point", drive |-> p[1], t |-> p[2],
                   release |-> Releases(ds, p)]
  <2>5. v \in [ds : DS, kind : {"point", "anchor"}, drive : Drives, t : 0..txg, release : BOOLEAN]
    BY <1>3, <2>2, <2>3, <2>4
  <2>6. v \in Verdicts
    BY <2>2, <2>4, <2>5 DEF Verdicts
  <2> QED
    BY <2>2, <2>6
<1>7. ASSUME NEW ds \in Wanted, NEW a \in anchors[ds], a[1] = disk, a # <<disk, pt>>
      PROVE  \E v \in Verdicts : v.kind = "anchor" /\ v.ds = ds /\ <<v.drive, v.t>> = a
  <2>1. a \in Drives \X Nat
    BY <1>3 DEF Inv, Typed, Owned
  <2>2. a = <<a[1], a[2]>> /\ a[1] \in Drives /\ a[2] \in Nat
    BY <2>1
  <2>3. a[2] \in 0..txg
    BY <1>3, <2>2 DEF Inv, Typed, Fresh
  <2>4. AnchorGoes(ds, a)
    BY <1>4, <1>7 DEF AnchorGoes
  <2> DEFINE v == [ds |-> ds, kind |-> "anchor", drive |-> a[1], t |-> a[2], release |-> FALSE]
  <2>5. v \in [ds : DS, kind : {"point", "anchor"}, drive : Drives, t : 0..txg, release : BOOLEAN]
    BY <1>3, <2>2, <2>3
  <2>6. v \in Verdicts
    BY <2>2, <2>4, <2>5 DEF Verdicts
  <2> QED
    BY <2>2, <2>6
<1>8. Judged'
  BY <1>1, <1>2, <1>3, <1>5, <1>6, <1>7 DEF Judged
<1>9. AtThePoint'
  BY <1>1, <1>3 DEF OnItsWay, AtThePoint, Ending
<1> QED
  BY <1>1, <1>8, <1>9 DEF OnItsWay, Normal, PointThere, Decided, Ready, Sending, Sent

(* Every point goes with its verdict, and every older anchor.              *)
LEMMA DropOnItsWay ==
  ASSUME Inv, OnItsWay, NEW v \in verdicts, Drop(v), smooth'
  PROVE  phase' \in Normal /\ OnItsWay'
<1>1. /\ phase = "drop" /\ phase' = "drop" /\ verdicts' = verdicts \ {v}
      /\ UNCHANGED <<skip, held, token, disk, pt, plan, todo, named>>
  BY DEF Drop
<1>2. Wanted' = Wanted /\ Wanted \subseteq DS
  BY <1>1 DEF Wanted
<1>3. v.kind = "point" => points' # points
  <2>1. IF v.kind = "point" /\ points' = points THEN Wrong ELSE Fine
    BY DEF Drop
  <2> QED
    BY <2>1, Troubled
<1>4. /\ \A w \in verdicts : w.release /\ w.ds \in Wanted => w.drive # disk
      /\ \A ds \in Wanted :
           /\ \A p \in points[ds] : \E w \in verdicts :
                w.kind = "point" /\ w.ds = ds /\ <<w.drive, w.t>> = p
           /\ \A a \in anchors[ds] : a[1] = disk /\ a # <<disk, pt>> => \E w \in verdicts :
                w.kind = "anchor" /\ w.ds = ds /\ <<w.drive, w.t>> = a
  BY <1>1 DEF OnItsWay, Judged
<1>5. v.ds \in DS /\ v.drive \in Drives /\ v.t \in Nat /\ <<v.drive, v.t>> \in Drives \X Nat
  BY VerdictType DEF Inv
<1>6. v.kind = "point" => <<v.drive, v.t>> \notin points'[v.ds]
  <2>1. CASE v.release
    <3>1. Release(v.ds, <<v.drive, v.t>>)
      BY <2>1 DEF Drop
    <3>2. points' = points \/ points' = [points EXCEPT ![v.ds] = @ \ {<<v.drive, v.t>>}]
      BY <3>1 DEF Release
    <3> QED
      BY <1>3, <1>5, <3>2 DEF Inv, Typed
  <2>2. CASE ~v.release
    BY <1>5, <2>2, Destroyed DEF Inv
  <2> QED
    BY <2>1, <2>2
<1>7. ASSUME NEW ds \in DS
      PROVE  /\ points'[ds] \subseteq points[ds]
             /\ ds = v.ds /\ v.kind # "point" /\ ~v.release
                  => anchors'[ds] = anchors[ds] \ {<<v.drive, v.t>>}
             /\ anchors'[ds] \subseteq anchors[ds]
                  \/ (v.release /\ ds = v.ds /\ anchors'[ds] = anchors[ds] \cup {<<v.drive, v.t>>})
  <2>1. CASE v.release
    <3>1. Release(v.ds, <<v.drive, v.t>>)
      BY <2>1 DEF Drop
    <3>2. /\ anchors'[ds] = IF ds = v.ds THEN anchors[ds] \cup {<<v.drive, v.t>>} ELSE anchors[ds]
          /\ points'[ds] = points[ds]
             \/ (ds = v.ds /\ points'[ds] = points[ds] \ {<<v.drive, v.t>>})
      BY ZenonT(40), <1>5, <3>1, Released DEF Inv
    <3>3. points'[ds] \subseteq points[ds]
      BY <3>2
    <3>4. \/ anchors'[ds] \subseteq anchors[ds]
          \/ ds = v.ds /\ anchors'[ds] = anchors[ds] \cup {<<v.drive, v.t>>}
      BY <3>2
    <3> QED
      BY <2>1, <3>3, <3>4
  <2>2. CASE ~v.release
    BY <2>2, Destroyed DEF Inv
  <2> QED
    BY <2>1, <2>2
<1>8. ASSUME NEW ds \in Wanted, NEW p \in points'[ds]
      PROVE  \E w \in verdicts' : w.kind = "point" /\ w.ds = ds /\ <<w.drive, w.t>> = p
  <2>1. p \in points[ds]
    BY <1>2, <1>7
  <2>2. PICK w \in verdicts : w.kind = "point" /\ w.ds = ds /\ <<w.drive, w.t>> = p
    BY <1>4, <2>1
  <2>3. w # v
    BY <1>6, <1>8, <2>2
  <2> QED
    BY <1>1, <2>2, <2>3
<1>9. ASSUME NEW ds \in Wanted, NEW a \in anchors'[ds], a[1] = disk, a # <<disk, pt>>
      PROVE  \E w \in verdicts' : w.kind = "anchor" /\ w.ds = ds /\ <<w.drive, w.t>> = a
  <2>1. a \in anchors[ds]
    <3>1. CASE anchors'[ds] \subseteq anchors[ds]
      BY <1>9, <3>1
    <3>2. CASE v.release /\ ds = v.ds /\ anchors'[ds] = anchors[ds] \cup {<<v.drive, v.t>>}
      <4>1. v.drive # disk
        BY <1>4, <3>2
      <4>2. a # <<v.drive, v.t>>
        BY <1>9, <4>1
      <4> QED
        BY <1>9, <3>2, <4>2
    <3> QED
      BY <1>2, <1>7, <3>1, <3>2
  <2>2. PICK w \in verdicts : w.kind = "anchor" /\ w.ds = ds /\ <<w.drive, w.t>> = a
    BY <1>4, <1>9, <2>1
  <2>3. w # v
    <3>1. SUFFICES ASSUME w = v PROVE FALSE
      OBVIOUS
    <3>2. ds = v.ds /\ v.kind # "point" /\ <<v.drive, v.t>> = a /\ v.drive = disk
      BY <1>9, <2>2, <3>1
    <3>3. ~v.release
      BY <1>4, <3>2
    <3>4. anchors'[ds] = anchors[ds] \ {<<v.drive, v.t>>}
      BY <1>2, <1>7, <3>2, <3>3
    <3> QED
      BY <1>9, <3>2, <3>4
  <2> QED
    BY <1>1, <2>2, <2>3
<1>10. Judged'
  BY <1>1, <1>2, <1>4, <1>8, <1>9 DEF Judged
<1>11. AtThePoint'
  BY <1>1, <1>2 DEF OnItsWay, AtThePoint, Ending
<1> QED
  BY <1>1, <1>10, <1>11 DEF OnItsWay, Normal, PointThere, Decided, Ready, Sending, Sent

LEMMA SmoothlyStep ==
  ASSUME Inv, Bounded, Bounded', Heads, Unbegun, Smoothly, [Next]_vars
  PROVE  Smoothly'
<1> SUFFICES ASSUME smooth' PROVE phase' \in Normal /\ paused' /\ OnItsWay'
  BY DEF Smoothly
<1>1. UNCHANGED vars \/ (\E d \in Drives : Start(d)) \/ (smooth /\ GoodStep)
  BY Well DEF Smoothly
<1>2. CASE UNCHANGED vars
  <2>1. smooth
    BY <1>2, Calm
  <2>2. phase \in Normal /\ paused /\ OnItsWay
    BY <2>1 DEF Smoothly
  <2>3. OnItsWay'
    <3>1. \A ds \in DS : Now(ds)' = Now(ds) /\ (CanResume(disk, ds)' <=> CanResume(disk, ds))
      BY <1>2, SameNow
    <3>2. Wanted' = Wanted /\ Wanted \subseteq DS
      BY <1>2 DEF Wanted
    <3>3. PointThere' /\ AtThePoint' /\ Judged'
      BY <1>2, <2>2, <3>2 DEF OnItsWay, PointThere, AtThePoint, Judged
    <3>4. Decided' /\ Ready' /\ Sent'
      BY <1>2, <2>2, <3>1, <3>2 DEF OnItsWay, Decided, Ready, Sent
    <3>5. Sending'
      <4>1. again' = again /\ todo' = todo /\ round' = round /\ plan' = plan /\ phase' = phase
        BY <1>2
      <4> QED
        BY <1>2, <2>2, <3>1, <3>2, <4>1 DEF OnItsWay, Sending
    <3> QED
      BY <3>3, <3>4, <3>5 DEF OnItsWay
  <2>4. phase' = phase /\ paused' = paused
    BY <1>2
  <2> QED
    BY <2>2, <2>3, <2>4
<1>3. CASE \E d \in Drives : Start(d)
  <2>1. phase' = "paused" /\ paused' = TRUE
    BY <1>3 DEF Start
  <2> QED
    BY <2>1 DEF OnItsWay, Normal, PointThere, Decided, Ready, Sending, Sent, AtThePoint,
                Ending, Judged
<1>4. CASE smooth /\ GoodStep
  <2>1. phase \in Normal /\ paused /\ OnItsWay
    BY <1>4 DEF Smoothly
  <2>2. phase' \in Normal /\ OnItsWay'
    <3>1. CASE TakeRpool \/ TakeBpool
      BY <2>1, <3>1, TakeOnItsWay
    <3>2. CASE Survey
      BY <2>1, <3>2, SurveyOnItsWay
    <3>3. CASE Decide
      BY <2>1, <3>3, DecideOnItsWay
    <3>4. CASE BeginRound
      BY <2>1, <3>4, BeginOnItsWay
    <3>5. CASE EndRound
      BY <2>1, <3>5, EndRoundOnItsWay
    <3>6. CASE Verify
      BY <2>1, <3>6, VerifyOnItsWay
    <3>7. CASE EndAnchors \/ AnchorHeld \/ \E ds \in DS : AnchorOk(ds)
      BY <1>4, <2>1, <3>7, AnchorsOnItsWay
    <3>8. CASE DropCheck
      BY <2>1, <3>8, CheckOnItsWay
    <3>9. ASSUME NEW ds \in DS, TransferOk(ds) PROVE phase' \in Normal /\ OnItsWay'
      BY <2>1, <3>9, TransferOnItsWay
    <3>10. ASSUME NEW ds \in DS, ResumeOk(ds) PROVE phase' \in Normal /\ OnItsWay'
      BY <2>1, <3>10, ResumeOnItsWay
    <3>11. ASSUME NEW v \in verdicts, Drop(v) PROVE phase' \in Normal /\ OnItsWay'
      BY <2>1, <3>11, DropOnItsWay
    <3> QED
      BY <1>4, <3>1, <3>2, <3>3, <3>4, <3>5, <3>6, <3>7, <3>8, <3>9, <3>10, <3>11 DEF GoodStep
  <2>3. UNCHANGED paused
    BY <1>4 DEF GoodStep, TakeRpool, TakeBpool, TakeOn, Survey, Decide, BeginRound, EndRound,
       Verify, EndAnchors, AnchorHeld, DropCheck, TransferOk, ResumeOk, AnchorOk, Drop
  <2> QED
    BY <2>1, <2>2, <2>3
<1> QED
  BY <1>1, <1>2, <1>3, <1>4

(* Untroubled for every instance: a run in which nothing fails and nothing *)
(* is declined reaches its point on every expected dataset, in the rounds  *)
(* it is given, and leaves no point in origin and no anchor of its drive   *)
(* but the new one, whatever earlier runs and drives left.                 *)
THEOREM Smooth == Spec => []Untroubled
<1>1. Init => SmoothInv
  <2>1. Init => Bounded /\ Heads /\ Unbegun
    BY DEF Init, Bounded, Heads, Unbegun
  <2>2. Init => Smoothly
    BY Zenon DEF Init, Smoothly
  <2> QED
    BY <2>1, <2>2, InitInv DEF SmoothInv
<1>2. SmoothInv /\ [Next]_vars => SmoothInv'
  <2> SUFFICES ASSUME SmoothInv, [Next]_vars PROVE SmoothInv'
    OBVIOUS
  <2>1. Inv' /\ Bounded' /\ Heads' /\ Unbegun'
    BY InvStep, BoundedStep, HeadsStep, UnbegunStep DEF SmoothInv
  <2>2. Smoothly'
    BY <2>1, SmoothlyStep DEF SmoothInv
  <2> QED
    BY <2>1, <2>2 DEF SmoothInv
<1>3. SmoothInv => Untroubled
  <2> SUFFICES ASSUME SmoothInv PROVE Untroubled
    OBVIOUS
  <2>1. SmoothReaches
    BY DEF SmoothInv, Smoothly, OnItsWay, AtThePoint, Ending, SmoothReaches
  <2>2. ASSUME phase = "drop", verdicts = {}, smooth, NEW ds \in Wanted
        PROVE  points[ds] = {} /\ {a \in anchors[ds] : a[1] = disk} = {<<disk, pt>>}
    <3>1. Judged /\ AtThePoint
      BY <2>2 DEF SmoothInv, Smoothly, OnItsWay
    <3>2. points[ds] = {} /\ \A a \in anchors[ds] : ~(a[1] = disk /\ a # <<disk, pt>>)
      BY <2>2, <3>1 DEF Judged
    <3>3. <<disk, pt>> \in anchors[ds]
      BY <2>2, <3>1 DEF AtThePoint, Ending, SmoothInv, Inv, Names
    <3> QED
      BY <3>2, <3>3
  <2> QED
    BY <2>1, <2>2 DEF Untroubled, SmoothCleans
<1> QED
  BY <1>1, <1>2, <1>3, PTL DEF Spec

-----------------------------------------------------------------------------
(* What a run leaves to resume can.                                        *)

LEMMA UnsentStep == ASSUME Inv, Unsent, [Next]_vars PROVE Unsent'
<1> USE DEF Unsent, Inv, Typed, DropMemory, EnterUndo, Forget
<1>1. CASE phase' # "transfer"
  BY <1>1
<1>2. CASE BeginRound
  <2>1. /\ plan' = PlanWith(token[disk]) /\ UNCHANGED <<token, disk>>
        /\ todo' = {ds \in DS : plan'[ds] \in TRANSFERABLE \ {"AT_POINT"}}
    BY <1>2 DEF BeginRound
  <2>2. ASSUME NEW ds \in todo', plan'[ds] # "RESUME" PROVE token'[disk'][ds] = 0
    <3>1. ds \in DS /\ plan'[ds] = Now(ds) /\ Now(ds) \in TRANSFERABLE
      BY <2>1, <2>2, PlanNow DEF TRANSFERABLE
    <3> QED
      BY <2>1, <2>2, <3>1, NowSays DEF TRANSFERABLE, Based
  <2> QED
    BY <2>2
<1>3. ASSUME NEW x \in DS, TransferOk(x) \/ TransferCut(x) \/ ResumeOk(x) \/ ResumeFails(x)
      PROVE  Unsent'
  <2>1. /\ phase = "transfer" /\ UNCHANGED <<plan, disk>> /\ disk \in Drives
        /\ todo' \subseteq todo \ {x}
    BY <1>3 DEF TransferOk, TransferCut, ResumeOk, ResumeFails, Failed
  <2>2. \A ds \in DS \ {x} : token'[disk][ds] = token[disk][ds]
    BY <1>3, <2>1 DEF TransferOk, TransferCut, ResumeOk, ResumeFails
  <2> QED
    BY <2>1, <2>2
<1>4. CASE phase' = "transfer" /\ ~BeginRound
           /\ \A x \in DS : ~TransferOk(x) /\ ~TransferCut(x) /\ ~ResumeOk(x) /\ ~ResumeFails(x)
  <2>1. UNCHANGED <<phase, todo, plan, token, disk>>
    <3>1. CASE UNCHANGED vars
      BY <3>1
    <3>2. CASE Fault
      BY <1>4, <3>2 DEF Fault, Abort, Signal, Kill, Unverified
    <3>3. CASE Sanoid
      BY <1>4, <3>3 DEF Sanoid, SanoidTake, SanoidPrune
    <3>4. CASE Between
      BY <1>4, <3>4 DEF Between, Start, PruneOrigin, PruneUnowned, Touch, Exclude, DrivePrune
    <3>5. CASE \/ TakeRpool \/ TakeBpool \/ Survey \/ Decide \/ EndRound
               \/ Verify \/ EndAnchors \/ AnchorHeld \/ DropCheck
      BY <1>4, <3>5 DEF TakeRpool, TakeBpool, TakeOn, Survey, Decide, EndRound, Verify,
                        EndAnchors, AnchorHeld, DropCheck
    <3>6. CASE Finish \/ UndoRead \/ UndoBlind \/ UndoEnd
      BY <1>4, <3>6 DEF Finish, UndoRead, UndoBlind, UndoEnd
    <3>7. ASSUME NEW x \in DS, AnchorOk(x) \/ AnchorFails(x) \/ UndoRemove(x) PROVE FALSE
      BY <1>4, <3>7 DEF AnchorOk, AnchorFails, UndoRemove
    <3>8. ASSUME NEW v \in verdicts, Drop(v) \/ DropFails(v) PROVE FALSE
      BY <1>4, <3>8 DEF Drop, DropFails
    <3> QED
      BY <1>4, <3>1, <3>2, <3>3, <3>4, <3>5, <3>6, <3>7, <3>8 DEF Next, RunStep
  <2> QED
    BY <2>1
<1> QED
  BY <1>1, <1>2, <1>3, <1>4

(* The drive is written to before the anchors are made only.               *)
LEMMA DriveRests ==
  ASSUME Inv, [Next]_vars,
         phase \notin {"idle", "taken", "decide", "transfer"}
  PROVE  UNCHANGED <<held, token>> /\ (phase' # "idle" => UNCHANGED <<disk, pt, skip>>)
<1> USE DEF DropMemory, EnterUndo, Forget
<1>1. CASE UNCHANGED vars
  BY <1>1
<1>2. CASE Fault
  BY <1>2 DEF Fault, Abort, Signal, Kill, Unverified
<1>3. CASE Sanoid
  BY <1>3 DEF Sanoid, SanoidTake, SanoidPrune
<1>4. CASE Between
  BY <1>4 DEF Between, Start, PruneOrigin, PruneUnowned, Touch, Exclude, DrivePrune
<1>5. CASE \/ TakeRpool \/ TakeBpool \/ Survey \/ Decide \/ BeginRound \/ EndRound
           \/ Verify \/ EndAnchors
  BY <1>5 DEF TakeRpool, TakeBpool, TakeOn, Survey, Decide, BeginRound, EndRound, Verify,
              EndAnchors
<1>6. CASE AnchorHeld \/ DropCheck \/ Finish \/ UndoRead \/ UndoBlind \/ UndoEnd
  BY <1>6 DEF AnchorHeld, DropCheck, Finish, UndoRead, UndoBlind, UndoEnd
<1>7. ASSUME NEW x \in DS, \/ TransferOk(x) \/ TransferCut(x) \/ ResumeOk(x) \/ ResumeFails(x)
                           \/ AnchorOk(x) \/ AnchorFails(x) \/ UndoRemove(x)
      PROVE  UNCHANGED <<held, token, disk, pt, skip>>
  BY <1>7 DEF TransferOk, TransferCut, ResumeOk, ResumeFails, AnchorOk, AnchorFails, UndoRemove
<1>8. ASSUME NEW v \in verdicts, Drop(v) \/ DropFails(v)
      PROVE  UNCHANGED <<held, token, disk, pt, skip>>
  BY <1>8 DEF Drop, DropFails
<1> QED
  BY <1>1, <1>2, <1>3, <1>4, <1>5, <1>6, <1>7, <1>8 DEF Next, RunStep

(* From there no step leads to the anchors, the drops or the cleanup's own.*)
LEMMA DriveWorks ==
  ASSUME Inv, [Next]_vars, phase \in {"idle", "taken", "decide", "transfer"}
  PROVE  /\ phase' \notin {"anchor", "held", "check", "drop", "undoAnchor", "undoHeld", "undoDrop"}
         /\ named' = {}
<1> USE DEF DropMemory, EnterUndo, Forget
<1>0. named = {}
  BY DEF Inv, Names
<1>1. CASE UNCHANGED vars
  BY <1>0, <1>1
<1>2. CASE Fault
  BY <1>0, <1>2 DEF Fault, Abort, Signal, Kill, Unverified
<1>3. CASE Sanoid
  BY <1>0, <1>3 DEF Sanoid, SanoidTake, SanoidPrune
<1>4. CASE Between
  BY <1>0, <1>4 DEF Between, Start, PruneOrigin, PruneUnowned, Touch, Exclude, DrivePrune
<1>5. CASE \/ TakeRpool \/ TakeBpool \/ Survey \/ Decide \/ BeginRound \/ EndRound
           \/ Verify \/ EndAnchors
  BY <1>0, <1>5 DEF TakeRpool, TakeBpool, TakeOn, Survey, Decide, BeginRound, EndRound, Verify,
              EndAnchors
<1>6. CASE AnchorHeld \/ DropCheck \/ Finish \/ UndoRead \/ UndoBlind \/ UndoEnd
  BY <1>6 DEF AnchorHeld, DropCheck, Finish, UndoRead, UndoBlind, UndoEnd
<1>7. ASSUME NEW x \in DS, \/ TransferOk(x) \/ TransferCut(x) \/ ResumeOk(x) \/ ResumeFails(x)
                           \/ AnchorOk(x) \/ AnchorFails(x) \/ UndoRemove(x)
      PROVE  phase' = "transfer" /\ named' = named
  BY <1>7 DEF TransferOk, TransferCut, ResumeOk, ResumeFails, AnchorOk, AnchorFails, UndoRemove
<1>8. ASSUME NEW v \in verdicts, Drop(v) \/ DropFails(v) PROVE FALSE
  BY <1>8 DEF Drop, DropFails
<1> QED
  BY <1>0, <1>1, <1>2, <1>3, <1>4, <1>5, <1>6, <1>7, <1>8 DEF Next, RunStep

LEMMA AnchoringStep == ASSUME Inv, Anchoring, [Next]_vars PROVE Anchoring'
<1> USE DEF DropMemory, EnterUndo, Forget
<1>1. CASE phase \in {"idle", "taken", "decide", "transfer"}
  BY <1>1, DriveWorks DEF Anchoring
<1>2. CASE phase \notin {"idle", "taken", "decide", "transfer"}
  <2>1. UNCHANGED <<held, token>> /\ (phase' # "idle" => UNCHANGED <<disk, pt, skip>>)
    BY <1>2, DriveRests
  <2> SUFFICES /\ \A ds \in todo' : phase' \in {"anchor", "undoAnchor"} => token[disk][ds] = 0
               /\ \A ds \in named' : \/ token[disk][ds] = 0
                                     \/ ds \in Rpool /\ IsNewest(pt, held[disk][ds])
               /\ phase' = "idle" => named' = {}
    BY <2>1 DEF Anchoring, Uncut
  <2> USE DEF Anchoring, Uncut
  <2>2. CASE UNCHANGED vars
    BY <2>2, <1>2
  <2>3. CASE Fault
    BY <2>3, <1>2 DEF Fault, Abort, Signal, Kill, Unverified
  <2>4. CASE Sanoid
    BY <2>4, <1>2 DEF Sanoid, SanoidTake, SanoidPrune
  <2>5. CASE Between
    BY <2>5, <1>2 DEF Between, Start, PruneOrigin, PruneUnowned, Touch, Exclude, DrivePrune
  <2>6. CASE \/ TakeRpool \/ TakeBpool \/ Survey \/ Decide \/ BeginRound \/ EndRound
             \/ EndAnchors \/ DropCheck \/ Finish \/ UndoBlind \/ UndoEnd
    BY <2>6, <1>2 DEF TakeRpool, TakeBpool, TakeOn, Survey, Decide, BeginRound, EndRound,
       EndAnchors, DropCheck, Finish, UndoBlind, UndoEnd
  <2>7. CASE Verify
    <3>1. /\ plan' = PlanWith(token[disk]) /\ UNCHANGED named /\ phase' = "anchor"
          /\ todo' = {ds \in DS : plan'[ds] = "AT_POINT"}
      BY <2>7 DEF Verify
    <3>2. \A ds \in todo' : token[disk][ds] = 0
      <4> SUFFICES ASSUME NEW ds \in todo' PROVE token[disk][ds] = 0
        OBVIOUS
      <4>1. ds \in DS /\ Now(ds) = "AT_POINT"
        BY <3>1, PlanNow
      <4> QED
        BY <4>1, NowSays
    <3> QED
      BY <3>1, <3>2
  <2>8. CASE UndoRead
    BY <2>8 DEF UndoRead
  <2>9. CASE AnchorHeld
    <3>1. phase' \in {"check", "undoDrop"}
      BY <2>9 DEF AnchorHeld
    <3>2. \A ds \in named' : ds \in named \/ pt \in Unanchored(ds)
      BY <2>9 DEF AnchorHeld
    <3>3. \A ds \in named' : \/ token[disk][ds] = 0
                             \/ ds \in Rpool /\ IsNewest(pt, held[disk][ds])
      BY <3>2 DEF Unanchored
    <3> QED
      BY <3>1, <3>3
  <2>10. ASSUME NEW x \in DS, TransferOk(x) \/ TransferCut(x) \/ ResumeOk(x) \/ ResumeFails(x)
         PROVE  FALSE
    BY <2>10, <1>2 DEF TransferOk, TransferCut, ResumeOk, ResumeFails
  <2>11. ASSUME NEW x \in DS, AnchorOk(x) \/ AnchorFails(x) \/ UndoRemove(x)
         PROVE  /\ \A ds \in todo' : phase' \in {"anchor", "undoAnchor"} => token[disk][ds] = 0
                /\ \A ds \in named' : \/ token[disk][ds] = 0
                                      \/ ds \in Rpool /\ IsNewest(pt, held[disk][ds])
                /\ phase' # "idle"
    BY <2>11 DEF AnchorOk, AnchorFails, UndoRemove
  <2>12. ASSUME NEW v \in verdicts, Drop(v) \/ DropFails(v)
         PROVE  UNCHANGED named /\ phase' = "drop"
    BY <2>12 DEF Drop, DropFails
  <2> QED
    BY <2>2, <2>3, <2>4, <2>5, <2>6, <2>7, <2>8, <2>9, <2>10, <2>11, <2>12 DEF Next, RunStep
<1> QED
  BY <1>1, <1>2

LEMMA GoingStep == ASSUME Inv, Going, [Next]_vars PROVE Going'
<1> USE DEF Going, Uncut, DropMemory, EnterUndo, Forget
<1> SUFFICES ASSUME phase' = "drop" PROVE Going'
  OBVIOUS
<1>1. phase \in {"check", "drop"} /\ (phase = "check" => DropCheck)
  <2>1. CASE UNCHANGED vars
    BY <2>1
  <2>2. CASE Fault
    BY <2>2 DEF Fault, Abort, Signal, Kill, Unverified
  <2>3. CASE Sanoid
    BY <2>3, DriveWorks DEF Sanoid, SanoidTake, SanoidPrune, Inv, Allowances
  <2>4. CASE Between
    BY <2>4, DriveWorks DEF Between, Start, PruneOrigin, PruneUnowned, Touch, Exclude, DrivePrune
  <2>5. CASE \/ TakeRpool \/ TakeBpool \/ Survey \/ Decide \/ BeginRound \/ EndRound
             \/ Verify \/ EndAnchors
    BY <2>5 DEF TakeRpool, TakeBpool, TakeOn, Survey, Decide, BeginRound, EndRound, Verify,
                EndAnchors
  <2>6. CASE AnchorHeld \/ DropCheck \/ Finish \/ UndoRead \/ UndoBlind \/ UndoEnd
    BY <2>6 DEF AnchorHeld, DropCheck, Finish, UndoRead, UndoBlind, UndoEnd
  <2>7. ASSUME NEW x \in DS, \/ TransferOk(x) \/ TransferCut(x) \/ ResumeOk(x) \/ ResumeFails(x)
                             \/ AnchorOk(x) \/ AnchorFails(x) \/ UndoRemove(x)
        PROVE  FALSE
    BY <2>7 DEF TransferOk, TransferCut, ResumeOk, ResumeFails, AnchorOk, AnchorFails, UndoRemove
  <2>8. ASSUME NEW v \in verdicts, Drop(v) \/ DropFails(v) PROVE phase = "drop"
    BY <2>8 DEF Drop, DropFails
  <2> QED
    BY <2>1, <2>2, <2>3, <2>4, <2>5, <2>6, <2>7, <2>8 DEF Next, RunStep
<1>2. UNCHANGED <<token, disk, skip>>
  BY <1>1, DriveRests
<1>3. CASE DropCheck
  <2>1. verdicts' \subseteq Verdicts /\ UNCHANGED named
    BY <1>3 DEF DropCheck
  <2>2. \A v \in Verdicts : /\ v.kind = "point" /\ v.ds \in Wanted =>
                                 token[disk][v.ds] = 0
                            /\ v.kind = "anchor" => ~v.release /\ v.ds \in named
    BY DEF Verdicts, PointGoes, AnchorGoes, Verified
  <2> QED
    BY <1>2, <2>1, <2>2 DEF Wanted
<1>4. CASE phase = "drop"
  <2>1. verdicts' \subseteq verdicts /\ UNCHANGED named
    <3>1. CASE UNCHANGED vars
      BY <3>1
    <3>2. CASE Fault
      BY <3>2 DEF Fault, Abort, Signal, Kill, Unverified
    <3>3. CASE Sanoid
      BY <3>3 DEF Sanoid, SanoidTake, SanoidPrune
    <3>4. CASE Between
      BY <1>4, <3>4 DEF Between, Start, PruneOrigin, PruneUnowned, Touch, Exclude, DrivePrune
    <3>5. CASE \/ TakeRpool \/ TakeBpool \/ Survey \/ Decide \/ BeginRound \/ EndRound
               \/ Verify \/ EndAnchors
      BY <1>4, <3>5 DEF TakeRpool, TakeBpool, TakeOn, Survey, Decide, BeginRound, EndRound, Verify,
                  EndAnchors
    <3>6. CASE AnchorHeld \/ DropCheck \/ Finish \/ UndoRead \/ UndoBlind \/ UndoEnd
      BY <1>4, <3>6 DEF AnchorHeld, DropCheck, Finish, UndoRead, UndoBlind, UndoEnd
    <3>7. ASSUME NEW x \in DS, \/ TransferOk(x) \/ TransferCut(x) \/ ResumeOk(x) \/ ResumeFails(x)
                               \/ AnchorOk(x) \/ AnchorFails(x) \/ UndoRemove(x)
          PROVE  FALSE
      BY <1>4, <3>7 DEF TransferOk, TransferCut, ResumeOk, ResumeFails, AnchorOk, AnchorFails,
                        UndoRemove
    <3>8. ASSUME NEW v \in verdicts, Drop(v) \/ DropFails(v)
          PROVE  verdicts' \subseteq verdicts /\ UNCHANGED named
      BY <3>8 DEF Drop, DropFails
    <3> QED
      BY <3>1, <3>2, <3>3, <3>4, <3>5, <3>6, <3>7, <3>8 DEF Next, RunStep
  <2> QED
    BY <1>2, <1>4, <2>1 DEF Wanted
<1> QED
  BY <1>1, <1>3, <1>4

LEMMA UndoingStep == ASSUME Inv, Undoing, [Next]_vars PROVE Undoing'
<1> USE DEF Undoing, Uncut, DropMemory, EnterUndo, Forget
<1> SUFFICES ASSUME phase' \in {"undoAnchor", "undoHeld", "undoDrop"} PROVE Undoing'
  OBVIOUS
<1>1. phase \notin {"idle", "taken", "decide", "transfer"}
  BY DriveWorks
<1>2. UNCHANGED <<held, token, disk, pt, skip>> /\ Wanted' = Wanted
  BY <1>1, DriveRests DEF Wanted
<1>3. CASE UndoRead
  <2>1. phase' = "undoAnchor" /\ kept' = {ds \in Wanted : token[disk][ds] # 0}
    BY <1>3 DEF UndoRead
  <2> QED
    BY <1>2, <2>1
<1>4. CASE UndoBlind
  <2>1. /\ phase' = "undoDrop" /\ started' = started
        /\ todo' = {ds \in Wanted \ started : <<disk, pt>> \in points[ds]}
    BY <1>4 DEF UndoBlind
  <2> QED
    BY <1>2, <2>1
<1>5. CASE AnchorHeld
  <2>1. phase = "undoHeld" /\ phase' = "undoDrop" /\ UNCHANGED <<kept, started>>
        /\ todo' = {ds \in Wanted \ kept : <<disk, pt>> \in points[ds]}
    BY <1>5 DEF AnchorHeld
  <2> QED
    BY <1>2, <2>1
<1>6. CASE EndAnchors
  <2>1. phase = "undoAnchor" /\ phase' = "undoHeld" /\ UNCHANGED kept
    BY <1>6 DEF EndAnchors
  <2> QED
    BY <1>2, <2>1
<1>7. ASSUME NEW x \in DS, AnchorOk(x) \/ AnchorFails(x) PROVE Undoing'
  <2>1. phase' = phase /\ kept \subseteq kept' /\ phase \in {"anchor", "undoAnchor"}
    BY <1>7 DEF AnchorOk, AnchorFails
  <2> QED
    BY <1>2, <2>1
<1>8. ASSUME NEW x \in DS, UndoRemove(x) PROVE Undoing'
  <2>1. phase' = phase /\ phase = "undoDrop" /\ todo' \subseteq todo /\ UNCHANGED started
    BY <1>8 DEF UndoRemove
  <2> QED
    BY <1>2, <2>1
<1>9. CASE UNCHANGED <<phase, kept, todo, started>>
  BY <1>2, <1>9
<1>10. CASE UNCHANGED vars
  BY <1>9, <1>10
<1>11. CASE Sanoid
  BY <1>9, <1>11 DEF Sanoid, SanoidTake, SanoidPrune
<1>12. CASE Fault
  BY <1>12 DEF Fault, Abort, Signal, Kill, Unverified
<1>13. CASE Between
  BY <1>1, <1>13 DEF Between, Start, PruneOrigin, PruneUnowned, Touch, Exclude, DrivePrune
<1>14. CASE \/ TakeRpool \/ TakeBpool \/ Survey \/ Decide \/ BeginRound \/ EndRound
            \/ Verify \/ DropCheck \/ Finish \/ UndoEnd
  BY <1>14 DEF TakeRpool, TakeBpool, TakeOn, Survey, Decide, BeginRound, EndRound, Verify,
               DropCheck, Finish, UndoEnd
<1>15. ASSUME NEW x \in DS, TransferOk(x) \/ TransferCut(x) \/ ResumeOk(x) \/ ResumeFails(x)
       PROVE  FALSE
  BY <1>1, <1>15 DEF TransferOk, TransferCut, ResumeOk, ResumeFails
<1>16. ASSUME NEW v \in verdicts, Drop(v) \/ DropFails(v) PROVE FALSE
  BY <1>16 DEF Drop, DropFails
<1> QED
  BY <1>3, <1>4, <1>5, <1>6, <1>7, <1>8, <1>10, <1>11, <1>12, <1>13, <1>14, <1>15, <1>16
  DEF Next, RunStep

LEMMA CutHereStep == ASSUME Inv, CutHere, [Next]_vars PROVE CutHere'
<1> USE DEF CutHere, Inv, Typed, DropMemory, EnterUndo, Forget
<1>1. CASE UNCHANGED vars
  BY <1>1
<1>2. CASE Fault
  BY <1>2 DEF Fault, Abort, Signal, Kill, Unverified, Undoable
<1>3. CASE Sanoid
  BY <1>3 DEF Sanoid, SanoidTake, SanoidPrune
<1>4. CASE Between
  <2>1. ASSUME NEW d \in Drives, Start(d) PROVE CutHere'
    <3>1. /\ pt' = txg + 1 /\ disk' = d /\ UNCHANGED token
      BY <2>1 DEF Start
    <3>2. \A ds \in DS : token[d][ds] <= txg /\ token[d][ds] \in Nat
      BY DEF Fresh
    <3> QED
      BY <3>1, <3>2
  <2> QED
    BY <1>4, <2>1 DEF Between, PruneOrigin, PruneUnowned, Touch, Exclude, DrivePrune
<1>5. CASE Survey
  <2>1. /\ UNCHANGED <<disk, pt, started>> /\ disk \in Drives /\ pt # 0 /\ phase # "idle"
        /\ \A ds \in DS : token'[disk][ds] \in {token[disk][ds], 0}
    BY <1>5 DEF Survey, OwnPoint
  <2> QED
    BY <2>1
<1>6. CASE Decide
  <2>1. /\ UNCHANGED <<disk, pt, started>> /\ disk \in Drives /\ pt # 0 /\ phase # "idle"
        /\ \A ds \in DS : token'[disk][ds] \in {token[disk][ds], 0}
    BY <1>6 DEF Decide, OwnPoint
  <2> QED
    BY <2>1
<1>7. ASSUME NEW x \in DS, TransferOk(x) \/ TransferCut(x) \/ ResumeOk(x) \/ ResumeFails(x)
      PROVE  CutHere'
  <2>1. UNCHANGED <<disk, pt>> /\ disk \in Drives /\ phase # "idle" /\ started' = started \cup {x}
    BY <1>7 DEF TransferOk, TransferCut, ResumeOk, ResumeFails, Failed
  <2>2. \A ds \in DS \ {x} : token'[disk][ds] = token[disk][ds]
    BY <1>7, <2>1 DEF TransferOk, TransferCut, ResumeOk, ResumeFails
  <2> QED
    BY <2>1, <2>2
<1>8. CASE \/ TakeRpool \/ TakeBpool \/ BeginRound \/ EndRound \/ Verify \/ EndAnchors
  BY <1>8 DEF TakeRpool, TakeBpool, TakeOn, BeginRound, EndRound, Verify, EndAnchors
<1>9. CASE AnchorHeld \/ DropCheck \/ Finish \/ UndoRead \/ UndoBlind \/ UndoEnd
  BY <1>9 DEF AnchorHeld, DropCheck, Finish, UndoRead, UndoBlind, UndoEnd
<1>10. ASSUME NEW x \in DS, AnchorOk(x) \/ AnchorFails(x) \/ UndoRemove(x) PROVE CutHere'
  BY <1>10 DEF AnchorOk, AnchorFails, UndoRemove
<1>11. ASSUME NEW v \in verdicts, Drop(v) \/ DropFails(v) PROVE CutHere'
  BY <1>11 DEF Drop, DropFails
<1> QED
  BY <1>1, <1>2, <1>3, <1>4, <1>5, <1>6, <1>7, <1>8, <1>9, <1>10, <1>11 DEF Next, RunStep

(* What a partial receive needs is there as long as its snapshot and the   *)
(* drive's newest one keep their names.                                    *)
LEMMA ResumesStill ==
  ASSUME Inv, NEW d \in Drives, NEW ds \in DS, CanResume(d, ds),
         token'[d][ds] = token[d][ds], held'[d][ds] = held[d][ds],
         UNCHANGED autos, txg' \in Nat, txg <= txg',
         \A e \in Drives : Carries(ds, e, token[d][ds]) => Carries(ds, e, token[d][ds])',
         \A t \in held[d][ds] : IsNewest(t, held[d][ds]) =>
           \A e \in Drives : /\ <<e, t>> \in points[ds] => <<e, t>> \in points'[ds]
                             /\ <<e, t>> \in anchors[ds] => <<e, t>> \in anchors'[ds]
  PROVE  CanResume(d, ds)'
<1>1. txg \in Nat /\ 0..txg \subseteq 0..txg'
  BY DEF Inv, Typed
<1>2. token[d][ds] \in Snaps(ds)'
  <2>1. token[d][ds] \in Snaps(ds)
    BY DEF CanResume
  <2> QED
    BY <1>1, <2>1 DEF Snaps, Carries
<1>3. ASSUME NEW t \in held[d][ds], IsNewest(t, held[d][ds])
      PROVE  t \in Known(OriginOf(ds))'
  <2>1. t \in Snaps(ds) \cup Marks(ds)
    BY <1>3 DEF CanResume, Known, OriginOf
  <2>2. \A e \in Drives : /\ <<e, t>> \in points[ds] => <<e, t>> \in points'[ds]
                          /\ <<e, t>> \in anchors[ds] => <<e, t>> \in anchors'[ds]
    BY <1>3
  <2>3. t \in Snaps(ds)' \cup Marks(ds)'
    BY <1>1, <2>1, <2>2 DEF Snaps, Marks
  <2> QED
    BY <2>3 DEF Known, OriginOf
<1> QED
  BY <1>2, <1>3 DEF CanResume

(* Where nothing of origin goes, it is.                                    *)
LEMMA ResumesWell ==
  ASSUME Inv, NEW d \in Drives, NEW ds \in DS, CanResume(d, ds),
         token'[d][ds] = token[d][ds], held'[d][ds] = held[d][ds],
         UNCHANGED <<txg, autos>>,
         points[ds] \subseteq points'[ds], anchors[ds] \subseteq anchors'[ds]
  PROVE  CanResume(d, ds)'
<1>1. txg' \in Nat /\ txg <= txg'
  BY DEF Inv, Typed
<1> QED
  BY <1>1, ResumesStill DEF Carries

(* A verdict on a dataset that can resume is about an anchor its newest    *)
(* snapshot does without.                                                  *)
LEMMA DropResumes ==
  ASSUME Inv, Sparing, NEW ds \in Wanted, NEW d \in Drives, d = disk, CanResume(d, ds),
         token[d][ds] # 0, NEW v \in verdicts, Drop(v)
  PROVE  CanResume(d, ds)'
<1>1. /\ phase = "drop" /\ ds \in DS /\ UNCHANGED <<txg, autos, held, token>>
  BY DEF Drop, Wanted
<1>2. v.ds \in DS /\ v.kind \in {"point", "anchor"} /\ <<v.drive, v.t>> \in Drives \X Nat
  BY VerdictType DEF Inv, Typed, Verdict
<1>3. CASE v.ds # ds
  <2>1. points'[ds] = points[ds] /\ anchors'[ds] = anchors[ds]
    <3>1. CASE v.release
      <4>1. Release(v.ds, <<v.drive, v.t>>)
        BY <3>1 DEF Drop
      <4>2. /\ anchors' = [anchors EXCEPT ![v.ds] = @ \cup {<<v.drive, v.t>>}]
            /\ \/ points' = [points EXCEPT ![v.ds] = @ \ {<<v.drive, v.t>>}]
               \/ points' = points
        BY <4>1 DEF Release
      <4> QED
        BY <1>1, <1>3, <4>2 DEF Inv, Typed
    <3>2. CASE ~v.release
      BY <1>1, <1>3, <3>2, Destroyed DEF Inv
    <3> QED
      BY <3>1, <3>2
  <2> QED
    BY <1>1, <2>1, ResumesWell
<1>4. CASE v.ds = ds
  <2>1. v.kind = "anchor" /\ ~v.release /\ ds \in named
    BY <1>1, <1>2, <1>4 DEF Sparing, Going, Uncut
  <2>2. ds \in Rpool /\ IsNewest(pt, held[disk][ds])
    BY <2>1 DEF Sparing, Anchoring, Uncut
  <2>3. v.t # pt
    BY <2>1 DEF Inv, Allowances, Allowed
  <2>4. points'[ds] = points[ds] /\ anchors'[ds] = anchors[ds] \ {<<v.drive, v.t>>}
    BY <1>1, <1>4, <2>1, Destroyed DEF Inv
  <2>5. ds \notin Bpool
    BY <2>2, EngineAssumption
  <2>6. \A t \in held[d][ds] : IsNewest(t, held[d][ds]) => t = pt
    <3>1. \A t \in held[d][ds] : t \in Nat
      BY <1>1 DEF Inv, Typed, Snapshots
    <3> QED
      BY <2>2, <3>1 DEF IsNewest
  <2>7. \A e \in Drives : /\ <<e, pt>> \in points[ds] => <<e, pt>> \in points'[ds]
                          /\ <<e, pt>> \in anchors[ds] => <<e, pt>> \in anchors'[ds]
    BY <2>3, <2>4
  <2>8. txg' \in Nat /\ txg <= txg'
    BY <1>1 DEF Inv, Typed
  <2>9. \A e \in Drives : Carries(ds, e, token[d][ds]) => Carries(ds, e, token[d][ds])'
    BY <1>1, <2>4, <2>5 DEF Carries
  <2> QED
    BY <1>1, <2>6, <2>7, <2>8, <2>9, ResumesStill
<1> QED
  BY <1>3, <1>4

(* The cleanup removes the run's point where nothing was received of it.   *)
LEMMA UndoResumes ==
  ASSUME Inv, Sparing, NEW ds \in Wanted, NEW d \in Drives, d = disk, CanResume(d, ds),
         token[d][ds] # 0, NEW x \in DS, UndoRemove(x)
  PROVE  CanResume(d, ds)'
<1>1. /\ phase = "undoDrop" /\ ds \in DS /\ x \in todo
      /\ UNCHANGED <<txg, autos, anchors, held, token>>
  BY DEF UndoRemove, Wanted
<1>2. points'[ds] = points[ds] \/ (ds = x /\ points'[ds] = points[ds] \ {<<disk, pt>>})
  BY <1>1, UndoRemoved DEF Inv
<1>3. CASE points'[ds] = points[ds]
  BY <1>1, <1>3, ResumesWell
<1>4. CASE ds = x /\ points'[ds] = points[ds] \ {<<disk, pt>>}
  <2>1. ds \notin started
    BY <1>1, <1>4 DEF Sparing, Undoing, Uncut
  <2>2. token[d][ds] # pt /\ pt \notin held[d][ds]
    BY <1>1, <2>1 DEF Sparing, CutHere, Inv, OwnPoint
  <2>3. txg' \in Nat /\ txg <= txg'
    BY <1>1 DEF Inv, Typed
  <2>4. \A t : t # pt => \A e \in Drives : <<e, t>> \in points[ds] => <<e, t>> \in points'[ds]
    BY <1>4
  <2>5. \A e \in Drives : Carries(ds, e, token[d][ds]) => Carries(ds, e, token[d][ds])'
    BY <1>1, <2>2, <2>4 DEF Carries
  <2> QED
    BY <1>1, <2>2, <2>3, <2>4, <2>5, ResumesStill
<1> QED
  BY <1>2, <1>3, <1>4

LEMMA ResumesStep ==
  ASSUME Inv, Idle, Sparing, Next, NEW ds \in Wanted, NEW d \in Drives, d = disk,
         CanResume(d, ds), autos' = autos, token[d][ds] # 0, token'[d][ds] = token[d][ds]
  PROVE  CanResume(d, ds)'
<1> USE DEF DropMemory, EnterUndo, Forget
<1>1. phase # "idle" /\ ds \in DS /\ ds \notin skip
  BY EngineAssumption DEF Idle, Wanted
<1>2. ASSUME UNCHANGED <<txg, held>>,
             points[ds] \subseteq points'[ds], anchors[ds] \subseteq anchors'[ds]
      PROVE  CanResume(d, ds)'
  BY <1>1, <1>2, ResumesWell
<1>3. CASE Fault
  BY <1>2, <1>3 DEF Fault, Abort, Signal, Kill, Unverified
<1>4. CASE Sanoid
  <2>1. CASE SanoidTake
    <3>1. UNCHANGED <<held, points, anchors>> /\ txg' = txg + 1
      BY <2>1 DEF SanoidTake
    <3>2. txg' \in Nat /\ txg <= txg'
      BY <3>1 DEF Inv, Typed
    <3> QED
      BY <1>1, <3>1, <3>2, ResumesStill DEF Carries
  <2>2. CASE \E x \in DS : SanoidPrune(x)
    BY <1>2, <2>2 DEF SanoidPrune
  <2> QED
    BY <1>4, <2>1, <2>2 DEF Sanoid
<1>5. ~Between
  BY <1>1 DEF Between, Start, PruneOrigin, PruneUnowned, Touch, Exclude, DrivePrune
<1>6. CASE TakeRpool \/ TakeBpool
  <2>1. UNCHANGED <<txg, held, anchors>>
    BY <1>6 DEF TakeRpool, TakeBpool, TakeOn
  <2>2. points[ds] \subseteq points'[ds]
    BY <1>1, <1>6 DEF TakeRpool, TakeBpool, TakeOn
  <2> QED
    BY <1>2, <2>1, <2>2
<1>7. CASE \/ Survey \/ BeginRound \/ EndRound \/ Verify \/ EndAnchors \/ DropCheck \/ Finish
           \/ UndoRead \/ UndoBlind \/ UndoEnd
  BY <1>2, <1>7 DEF Survey, BeginRound, EndRound, Verify, EndAnchors, DropCheck, Finish,
                    UndoRead, UndoBlind, UndoEnd
<1>8. CASE Decide
  <2>1. phase = "decide" /\ UNCHANGED <<txg, autos, points>>
    BY <1>8 DEF Decide
  <2>2. anchors'[ds] = anchors[ds]
    BY <1>1, <1>8 DEF Decide, HeldExcluded
  <2>3. held'[d][ds] = held[d][ds]
    <3>1. plan[ds] # "ROLLBACK"
      BY <1>1, <2>1 DEF Inv, Plans
    <3> QED
      BY <1>1, <1>8, <3>1 DEF Decide, Planned, Inv, Typed
  <2> QED
    BY <1>1, <2>1, <2>2, <2>3, ResumesWell
<1>9. ASSUME NEW x \in DS, TransferOk(x) \/ TransferCut(x) \/ ResumeOk(x) \/ ResumeFails(x)
      PROVE  CanResume(d, ds)'
  <2>1. phase = "transfer" /\ UNCHANGED <<txg, points, anchors>> /\ x \in todo
    BY <1>9 DEF TransferOk, TransferCut, ResumeOk, ResumeFails
  <2>2. CASE x # ds
    <3>1. held'[d][ds] = held[d][ds]
      BY <1>1, <1>9, <2>2 DEF TransferOk, TransferCut, ResumeOk, ResumeFails, Inv, Typed
    <3> QED
      BY <1>1, <2>1, <3>1, ResumesWell
  <2>3. CASE x = ds
    <3>1. plan[ds] = "RESUME"
      BY <2>1, <2>3 DEF Sparing, Unsent
    <3>2. ~ResumeOk(ds)
      BY <1>1 DEF ResumeOk, Inv, Typed
    <3>3. ResumeFails(ds)
      BY <1>9, <2>3, <3>1, <3>2 DEF TransferOk, TransferCut
    <3>4. UNCHANGED held
      BY <3>3 DEF ResumeFails
    <3> QED
      BY <1>1, <2>1, <3>4, ResumesWell
  <2> QED
    BY <2>2, <2>3
<1>10. ASSUME NEW x \in DS, AnchorOk(x) \/ AnchorFails(x) PROVE CanResume(d, ds)'
  <2>1. CASE AnchorOk(x)
    <3>1. /\ phase \in {"anchor", "undoAnchor"} /\ x \in todo /\ UNCHANGED <<txg, held>>
          /\ AnchorFor(x, <<disk, pt>>)
      BY <2>1 DEF AnchorOk
    <3>2. x # ds
      BY <3>1 DEF Sparing, Anchoring, Uncut
    <3>3. points'[ds] = points[ds] /\ anchors'[ds] = anchors[ds]
      BY <1>1, <3>1, <3>2 DEF AnchorFor, Inv, Typed
    <3> QED
      BY <1>2, <3>1, <3>3
  <2>2. CASE AnchorFails(x)
    BY <1>2, <2>2 DEF AnchorFails
  <2> QED
    BY <1>10, <2>1, <2>2
<1>11. CASE AnchorHeld
  <2>1. UNCHANGED <<txg, points, held>>
    BY <1>11 DEF AnchorHeld
  <2>2. anchors[ds] \subseteq anchors'[ds]
    BY <1>1, <1>11 DEF AnchorHeld
  <2> QED
    BY <1>2, <2>1, <2>2
<1>12. ASSUME NEW x \in DS, UndoRemove(x) PROVE CanResume(d, ds)'
  BY <1>12, UndoResumes
<1>13. ASSUME NEW v \in verdicts, Drop(v) PROVE CanResume(d, ds)'
  BY <1>13, DropResumes
<1>14. ASSUME NEW v \in verdicts, DropFails(v) PROVE CanResume(d, ds)'
  BY <1>2, <1>14 DEF DropFails
<1> QED
  BY <1>3, <1>4, <1>5, <1>6, <1>7, <1>8, <1>9, <1>10, <1>11, <1>12, <1>13, <1>14
  DEF Next, RunStep

(* ResumeKept for every instance: while a run leaves a partial receive of  *)
(* an expected dataset on its drive, drop_check and undo_point remove no   *)
(* snapshot and no bookmark it needs to resume.                            *)
THEOREM Resumes == Spec => ResumeKept
<1>1. Spec => [](Inv /\ Idle /\ Sparing)
  <2>1. Init => Idle /\ Sparing
    BY DEF Init, Idle, Sparing, Unsent, Anchoring, Going, Undoing, CutHere
  <2>2. Inv /\ Idle /\ Sparing /\ [Next]_vars => Idle' /\ Sparing'
    BY IdleStep, UnsentStep, AnchoringStep, GoingStep, UndoingStep, CutHereStep DEF Sparing
  <2> QED
    BY <2>1, <2>2, InitInv, InvStep, PTL DEF Spec
<1>2. Inv /\ Idle /\ Sparing /\ [Next]_vars
        => [\A ds \in Wanted, d \in Drives :
              /\ d = disk /\ CanResume(d, ds) /\ autos' = autos
              /\ token[d][ds] # 0
              /\ token'[d][ds] = token[d][ds]
              => CanResume(d, ds)']_vars
  BY ResumesStep
<1> QED
  BY <1>1, <1>2, PTL DEF Spec, ResumeKept
-----------------------------------------------------------------------------
(* The timer a run holds stopped (Sanoid), for any number of runs,         *)
(* signals, kills, reboots and hands on the timer.                         *)

(* TimerKept: the marker of a timer that zark stopped is there, and the    *)
(* two commands that remove a marker come to it with a timer that zark no  *)
(* longer holds: nobody but a run at "stop" makes it zark's again, and the *)
(* lock keeps that run away.                                               *)
TimerKept ==
  /\ Recoverable
  /\ pc \in {"unlink", "cleanUnlink"} => stopper # "zark"

(* TimerCalm: no step of the run found the timer where it cannot hold it.  *)
TimerCalm == troubles \cap {"stop failed", "user started"} = {}

(* TimerHeld: from the stop on the timer is off, and so nothing fires once *)
(* the wait has seen sanoid end.                                           *)
TimerHeld ==
  /\ pc = "wait" /\ TimerCalm => ~timer
  /\ pc = "run" /\ TimerCalm => ~timer /\ ~service

(* A step of a run, or of zark clean, keeps the marker where it is owed.   *)
LEMMA TimerKeptStep == TimerKept /\ [TimerNext]_timerVars => TimerKept'
<1> SUFFICES ASSUME TimerKept, [TimerNext]_timerVars PROVE TimerKept'
  OBVIOUS
<1> USE DEF TimerKept, Recoverable, TimerOn, Gone, Return, Trouble, procVars
<1>1. CASE ReadTimer
  BY <1>1 DEF ReadTimer
<1>2. CASE WriteMarker
  BY <1>2 DEF WriteMarker
<1>3. CASE StopTimer
  BY <1>3 DEF StopTimer
<1>4. CASE WaitService
  BY <1>4 DEF WaitService
<1>5. CASE EndRun
  BY <1>5 DEF EndRun
<1>6. CASE Untrack
  BY <1>6 DEF Untrack
<1>7. CASE ClearFlag
  BY <1>7 DEF ClearFlag
<1>8. CASE StartTimer
  BY <1>8 DEF StartTimer
<1>9. CASE UnlinkMarker
  BY <1>9 DEF UnlinkMarker
<1>10. CASE CleanStart
  BY <1>10 DEF CleanStart
<1>11. CASE CleanUnlink
  BY <1>11 DEF CleanUnlink
<1>12. CASE Execute
  BY <1>12 DEF Execute
<1>13. CASE CleanAsk
  BY <1>13 DEF CleanAsk
<1>14. CASE SignalInRun
  BY <1>14 DEF SignalInRun
<1>15. CASE SignalInFinally
  BY <1>15 DEF SignalInFinally
<1>16. CASE KillHolder
  BY <1>16 DEF KillHolder
<1>17. CASE Reboot
  BY <1>17 DEF Reboot
<1>18. CASE Fire
  BY <1>18 DEF Fire
<1>19. CASE ServiceEnds
  BY <1>19 DEF ServiceEnds
<1>20. CASE UserStarts
  BY <1>20 DEF UserStarts
<1>21. CASE UserStops
  BY <1>21 DEF UserStops
<1>22. CASE UNCHANGED timerVars
  BY <1>22 DEF timerVars
<1>23. QED
  BY <1>1, <1>2, <1>3, <1>4, <1>5, <1>6, <1>7, <1>8, <1>9, <1>10, <1>11,
     <1>12, <1>13, <1>14, <1>15, <1>16, <1>17, <1>18, <1>19, <1>20, <1>21,
     <1>22 DEF TimerNext, Step

(* Only the wait's end leads to the run, and only a stop, or a timer read  *)
(* as inactive, leads to the wait.                                         *)
LEMMA TimerHeldStep == TimerHeld /\ [TimerNext]_timerVars => TimerHeld'
<1> SUFFICES ASSUME TimerHeld, [TimerNext]_timerVars PROVE TimerHeld'
  OBVIOUS
<1> USE DEF TimerHeld, TimerCalm, TimerOn, Gone, Return, Trouble, procVars
<1>1. CASE ReadTimer
  BY <1>1 DEF ReadTimer
<1>2. CASE WriteMarker
  BY <1>2 DEF WriteMarker
<1>3. CASE StopTimer
  <2>1. pc' = "wait"
    BY <1>3 DEF StopTimer
  <2>2. timer' = FALSE \/ "stop failed" \in troubles'
    BY <1>3 DEF StopTimer
  <2>3. QED
    BY <2>1, <2>2
<1>4. CASE WaitService
  <2>1. UNCHANGED <<timer, service, troubles>> /\ pc = "wait"
    BY <1>4 DEF WaitService
  <2>2. pc' = "release" \/ (pc' = "run" /\ ~service)
    BY <1>4 DEF WaitService
  <2>3. QED
    BY <2>1, <2>2
<1>5. CASE EndRun
  <2>1. pc' \in {"release", "resume"}
    BY <1>5 DEF EndRun
  <2>2. QED
    BY <2>1
<1>6. CASE Untrack
  BY <1>6 DEF Untrack
<1>7. CASE ClearFlag
  BY <1>7 DEF ClearFlag
<1>8. CASE StartTimer
  BY <1>8 DEF StartTimer
<1>9. CASE UnlinkMarker
  BY <1>9 DEF UnlinkMarker
<1>10. CASE CleanStart
  BY <1>10 DEF CleanStart
<1>11. CASE CleanUnlink
  BY <1>11 DEF CleanUnlink
<1>12. CASE Execute
  BY <1>12 DEF Execute
<1>13. CASE CleanAsk
  BY <1>13 DEF CleanAsk
<1>14. CASE SignalInRun
  BY <1>14 DEF SignalInRun
<1>15. CASE SignalInFinally
  BY <1>15 DEF SignalInFinally
<1>16. CASE KillHolder
  BY <1>16 DEF KillHolder
<1>17. CASE Reboot
  BY <1>17 DEF Reboot
<1>18. CASE Fire
  BY <1>18 DEF Fire
<1>19. CASE ServiceEnds
  BY <1>19 DEF ServiceEnds
<1>20. CASE UserStarts
  BY <1>20 DEF UserStarts
<1>21. CASE UserStops
  BY <1>21 DEF UserStops
<1>22. CASE UNCHANGED timerVars
  BY <1>22 DEF timerVars
<1>23. QED
  BY <1>1, <1>2, <1>3, <1>4, <1>5, <1>6, <1>7, <1>8, <1>9, <1>10, <1>11,
     <1>12, <1>13, <1>14, <1>15, <1>16, <1>17, <1>18, <1>19, <1>20, <1>21,
     <1>22 DEF TimerNext, Step

(* A timer a run stopped is never left without its marker: resume_sanoid   *)
(* and zark clean remove it only after a start that succeeded.             *)
THEOREM Recovers == TimerSpec => []Recoverable
<1>1. TimerInit => TimerKept
  BY DEF TimerInit, TimerKept, Recoverable
<1>2. TimerKept => Recoverable
  BY DEF TimerKept
<1>3. QED
  BY <1>1, <1>2, TimerKeptStep, PTL DEF TimerSpec

(* No sanoid unit runs between pause_sanoid's return and the end of        *)
(* replicate, in any run that stopped the timer and was left alone.        *)
THEOREM Quiet == TimerSpec => []QuietRun
<1>1. TimerInit => TimerHeld
  BY DEF TimerInit, TimerHeld
<1>2. TimerHeld => QuietRun
  BY DEF TimerHeld, QuietRun, TimerCalm
<1>3. QED
  BY <1>1, <1>2, TimerHeldStep, PTL DEF TimerSpec
=============================================================================
