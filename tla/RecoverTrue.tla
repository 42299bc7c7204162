---------------------------- MODULE RecoverTrue ----------------------------
(***************************************************************************)
(* What recover promises, for every drive and any number of faults: the    *)
(* disk is erased only when it can be filled, no zvol is there while keys  *)
(* change, and how a run ends is true of what it leaves.                   *)
(***************************************************************************)
EXTENDS Recover, SequenceTheorems, TLAPS

(* The steps of a run, from the last to the first. *)
Closing == {"mount", "chain", "verdict"}
AfterKeystore == {"export2", "prepared"} \cup Closing
AfterBpool == {"keystore"} \cup AfterKeystore
AfterExcluded == {"reimport", "retrack", "bpool"} \cup AfterBpool
AfterAnchor == {"export1", "export1b", "keys", "excluded"} \cup AfterExcluded
AfterErase == {"pools", "btrack", "rpool", "rtrack", "receive"} \cup AfterAnchor
AfterCheck == {"confirm", "erase"} \cup AfterErase

(* The run is at one of these steps, or went through them all. *)
Past(steps) == pc \in steps \/ verdict = "complete"

(* COMPLETE is said of a run without an error line, and only at its end. *)
Ended ==
    /\ pc \in Steps => verdict = "none"
    /\ verdict = "complete" => errs = {} /\ pc \in {"cleanup", "idle"}

(* What the plan and the pre-flight refused is not gone on with. *)
Checked ==
    /\ Past({"target"} \cup AfterCheck) => ~Unrecoverable(drive)
    /\ Past(AfterCheck) => PreflightOK(drive)

(* The pools of the live session, up to the erase and without the drive. *)
Attached ==
    /\ pc \in {"track", "unlock", "kept", "plan", "target", "confirm", "erase"}
         => "zark" \in live.imported
    /\ pc \in {"confirm", "erase"} => live.imported \cap {"rpool", "bpool"} = {}
    /\ pc \in {"keys", "excluded", "prepared"} \cup Closing
         => "zark" \notin live.imported

(* The restored keystore is the last dataset to arrive. *)
KeystoreLast ==
    /\ pc \in AfterErase \ AfterKeystore => ~sys.keystore
    /\ Past(AfterKeystore) => sys.keystore

(* Without an error line, each part of the plan is done once it is past. *)
RowsDue ==
    pc = "receive" /\ errs = {} =>
        \A r \in RowsOf(drive) :
            sys.got[r] = "goal" \/ \E i \in 1..Len(left) : left[i] = r

RowsDone ==
    Past(AfterAnchor) /\ errs = {} =>
        \A r \in RowsOf(drive) : sys.got[r] = "goal" /\ r \in sys.anchored

ExcludedDone ==
    Past(AfterExcluded) /\ errs = {} =>
        /\ sys.made = EmptyRows(drive)
        /\ sys.unsnapped = {r \in drive.unsnapped : Restored(drive, r)}

SourceDone ==
    Past(AfterBpool) /\ errs = {} =>
        sys.got[Source] = "goal" /\ Source \in sys.anchored

ChainDone ==
    Past({"verdict"}) /\ errs = {} => sys.boot = "filled" /\ sys.chain

(* What is imported is tracked, said to be stuck, or about to be tracked. *)
Loose ==
    /\ live.imported \ live.tracked \subseteq
         live.stuck \cup (IF pc \in Steps THEN Untracked(pc) ELSE {})
    /\ pc = "idle" => live.tracked = {}
    /\ pc \in {"unlock", "kept"} => "zark" \in live.tracked

RecoverInv ==
    /\ TypeOK /\ Ended /\ Checked /\ ErasedToFill /\ Attached /\ KeystoreLast
    /\ RowsDue /\ RowsDone /\ ExcludedDone /\ SourceDone /\ ChainDone
    /\ Loose /\ KeyGone
-----------------------------------------------------------------------------
(* Types. *)

Errors == {"receive", "anchor", "key", "empty", "bpool", "kernels", "copy", "chain", "flag"}

(* The rows of a plan are rows under rpool, and every restored one is there. *)
LEMMA PlannedRows ==
  ASSUME NEW d \in DriveType
  PROVE  /\ Planned(d) \in Seq(RpoolRows)
         /\ \A r \in RowsOf(d) : \E i \in 1..Len(Planned(d)) : Planned(d)[i] = r
<1> DEFINE one(r) == IF Restored(d, r) THEN <<r>> ELSE <<>>
<1>1. ASSUME NEW r \in RpoolRows PROVE one(r) \in Seq(RpoolRows)
  <2>1. <<r>> \in Seq(RpoolRows) /\ <<>> \in Seq(RpoolRows)
    OBVIOUS
  <2> QED BY <2>1
<1>2. ASSUME NEW s \in Seq(RpoolRows), NEW r \in RpoolRows
      PROVE  /\ s \o one(r) \in Seq(RpoolRows)
             /\ \A i \in 1..Len(s) : i \in 1..Len(s \o one(r)) /\ (s \o one(r))[i] = s[i]
             /\ Restored(d, r) => \E i \in 1..Len(s \o one(r)) : (s \o one(r))[i] = r
  <2>1. CASE Restored(d, r)
    <3>1. one(r) = <<r>> BY <2>1
    <3>2. s \o <<r>> \in Seq(RpoolRows) /\ Len(s \o <<r>>) = Len(s) + 1
          /\ \A i \in 1..Len(s) : (s \o <<r>>)[i] = s[i]
      OBVIOUS
    <3>3. (s \o <<r>>)[Len(s) + 1] = r
      OBVIOUS
    <3> QED BY <3>1, <3>2, <3>3
  <2>2. CASE ~Restored(d, r)
    <3>1. s \o one(r) = s
      BY <2>2, ConcatEmptySeq
    <3> QED BY <2>2, <3>1
  <2> QED BY <2>1, <2>2
<1> DEFINE s1 == one("be")
           s2 == s1 \o one("copy")
           s3 == s2 \o one("var")
           s4 == s3 \o one("data")
           s5 == s4 \o one("tmp")
           In(r, s) == \E i \in 1..Len(s) : s[i] = r
<1>3. s1 \in Seq(RpoolRows) /\ (Restored(d, "be") => In("be", s1))
  <2>1. s1 \in Seq(RpoolRows)
    BY <1>1 DEF RpoolRows
  <2>2. ASSUME Restored(d, "be") PROVE In("be", s1)
    <3>1. s1 = <<"be">> BY <2>2
    <3>2. In("be", <<"be">>) OBVIOUS
    <3> QED BY <3>1, <3>2
  <2> QED BY <2>1, <2>2
<1> HIDE DEF one
<1>4. s2 \in Seq(RpoolRows) /\ (Restored(d, "copy") => In("copy", s2))
      /\ \A r : In(r, s1) => In(r, s2)
  <2> HIDE DEF s1
  <2> QED BY ZenonT(40), <1>2, <1>3 DEF RpoolRows
<1>5. s3 \in Seq(RpoolRows) /\ (Restored(d, "var") => In("var", s3))
      /\ \A r : In(r, s2) => In(r, s3)
  <2> HIDE DEF s2
  <2> QED BY ZenonT(40), <1>2, <1>4 DEF RpoolRows
<1>6. s4 \in Seq(RpoolRows) /\ (Restored(d, "data") => In("data", s4))
      /\ \A r : In(r, s3) => In(r, s4)
  <2> HIDE DEF s3
  <2> QED BY ZenonT(40), <1>2, <1>5 DEF RpoolRows
<1>7. s5 \in Seq(RpoolRows) /\ (Restored(d, "tmp") => In("tmp", s5))
      /\ \A r : In(r, s4) => In(r, s5)
  <2> HIDE DEF s4
  <2> QED BY <1>2, <1>6 DEF RpoolRows
<1>8. Planned(d) = s5
  BY DEF Planned, one
<1> HIDE DEF s1, s2, s3, s4, s5
<1>9. ASSUME NEW r \in RowsOf(d) PROVE In(r, s5)
  <2>1. r \in RpoolRows /\ Restored(d, r)
    BY DEF RowsOf
  <2> HIDE DEF In
  <2> QED BY <2>1, <1>3, <1>4, <1>5, <1>6, <1>7 DEF RpoolRows
<1> QED BY <1>7, <1>8, <1>9

LEMMA DriveHas ==
  ASSUME drive \in Drives
  PROVE  /\ drive \in DriveType
         /\ drive.excluded \subseteq Rows /\ drive.unsnapped \subseteq Rows
  BY DrivesAssumption DEF DriveType, Rows, RpoolRows

LEMMA TypeInit == Init => TypeOK
<1> SUFFICES ASSUME Init PROVE TypeOK
  OBVIOUS
<1>1. live \in LiveType
  BY DEF Init, NoSession, LiveType
<1>2. sys \in SysType
  BY DEF Init, NoSystem, SysType
<1>3. left \in Seq(RpoolRows)
  <2>1. left = <<>> BY DEF Init
  <2> QED BY <2>1, EmptySeq
<1>4. faults \in 0..MaxFaults
  <2>1. faults = 0 BY DEF Init
  <2> QED BY <2>1, FaultsAssumption
<1> QED BY <1>1, <1>2, <1>3, <1>4 DEF Init, TypeOK, Verdicts

(* Where a run goes and what it says, whichever step it takes. *)
LEMMA TypeCourse ==
  ASSUME TypeOK, [Next]_vars
  PROVE  /\ pc' \in Steps \cup {"idle", "cleanup"} /\ drive' \in Drives
         /\ disk' \in {"old", "erased", "laid"} /\ verdict' \in Verdicts
         /\ cut' \in Steps \cup {"", "cleanup"}
<1> USE DEF TypeOK, At, To, Exit, Verdicts, Endings
<1>0. /\ pc \in Steps \cup {"idle", "cleanup"} /\ drive \in Drives
      /\ disk \in {"old", "erased", "laid"} /\ verdict \in Verdicts
      /\ cut \in Steps \cup {"", "cleanup"}
  BY Zenon
<1>1. CASE Read
  <2>1. CASE Scan \/ ImportDrive \/ TrackDrive \/ OpenKeystore
    BY <2>1 DEF Scan, ImportDrive, Import, TrackDrive, OpenKeystore, Steps
  <2>2. CASE KeepKey \/ Plan \/ Preflight \/ Confirm
    BY <2>2 DEF KeepKey, Plan, Preflight, Confirm, Steps
  <2> QED BY <1>1, <2>1, <2>2 DEF Read
<1>2. CASE Erase \/ CreateBpool \/ CreateRpool
  <2>1. CASE Erase
    BY ZenonT(40), <2>1 DEF Erase, Steps
  <2>2. CASE CreateBpool \/ CreateRpool
    BY ZenonT(40), <2>2 DEF CreateBpool, CreateRpool, Create, Track, Steps
  <2> QED BY <1>2, <2>1, <2>2
<1>3. CASE Receive \/ Anchor
  <2>1. UNCHANGED <<drive, disk, cut>> /\ pc' \in {"receive", "export1", "cleanup"}
        /\ verdict' \in {verdict, "fatal"}
    <3>1. CASE Receive BY <3>1 DEF Receive
    <3>2. CASE Anchor BY <3>2 DEF Anchor
    <3> QED BY <1>3, <3>1, <3>2
  <2>2. pc' \in Steps \cup {"idle", "cleanup"} BY <2>1 DEF Steps
  <2>3. verdict' \in Verdicts BY <2>1
  <2> QED BY <2>1, <2>2, <2>3
<1>4. CASE CloseKeystore \/ ExportDrive \/ Rekey \/ CreateExcluded \/ Reimport
  <2>1. CASE CloseKeystore \/ ExportDrive
    BY <2>1 DEF CloseKeystore, ExportDrive, ExportVerified, Steps
  <2>2. CASE Rekey \/ CreateExcluded
    <3>1. pc' = IF pc = "keys" THEN "excluded" ELSE "reimport"
      BY <2>2, Zenon DEF Rekey, CreateExcluded
    <3>2. UNCHANGED <<drive, disk, verdict, cut>>
      BY <2>2, Zenon DEF Rekey, CreateExcluded
    <3>3. pc' \in Steps \cup {"idle", "cleanup"} /\ verdict' \in Verdicts
      <4> HIDE DEF TypeOK
      <4> QED BY <1>0, <3>1, <3>2 DEF Steps
    <3> QED BY <1>0, <3>2, <3>3, Zenon
  <2>3. CASE Reimport
    BY <2>3 DEF Reimport, Import, Track, Steps
  <2> QED BY <1>4, <2>1, <2>2, <2>3
<1>5. CASE RestoreBpool \/ RestoreKeystore \/ ExportFinal
  <2>1. CASE RestoreBpool
    BY ZenonT(40), <2>1 DEF RestoreBpool, Steps
  <2>2. CASE RestoreKeystore \/ ExportFinal
    BY <2>2 DEF RestoreKeystore, ExportFinal, ExportVerified, Steps
  <2> QED BY <1>5, <2>1, <2>2
<1>6. CASE MountSystem \/ BootChain \/ Judge \/ CleanUp
  <2>1. CASE MountSystem \/ BootChain
    <3>1. pc' \in {"cleanup", "chain", "verdict"} /\ verdict' \in {verdict, "fatal"}
      BY <2>1, Zenon DEF MountSystem, BootChain
    <3>2. UNCHANGED <<drive, disk, cut>>
      BY <2>1, Zenon DEF MountSystem, BootChain
    <3>3. pc' \in Steps \cup {"idle", "cleanup"} /\ verdict' \in Verdicts
      <4> HIDE DEF TypeOK
      <4> QED BY <1>0, <3>1, <3>2 DEF Steps
    <3> QED BY <1>0, <3>2, <3>3, Zenon
  <2>2. CASE Judge \/ CleanUp
    BY <2>2 DEF Judge, CleanUp, Steps
  <2> QED BY <1>6, <2>1, <2>2
<1>7. CASE Interrupt \/ Kill \/ Reboot
  BY <1>7 DEF Interrupt, Kill, Reboot
<1>8. CASE Done \/ UNCHANGED vars
  BY <1>8 DEF Done, vars
<1> QED BY <1>1, <1>2, <1>3, <1>4, <1>5, <1>6, <1>7, <1>8 DEF Next, Write

LEMMA TypeLive ==
  ASSUME TypeOK, [Next]_vars
  PROVE  live' \in LiveType
<1>1. live \in LiveType
  BY DEF TypeOK
<1> USE DEF LiveType, Pools
<1>2. CASE Scan \/ Plan \/ Preflight \/ Confirm \/ Erase \/ Receive \/ Anchor \/ Rekey
           \/ CreateExcluded \/ RestoreBpool \/ RestoreKeystore \/ BootChain \/ Judge
           \/ Done \/ UNCHANGED vars
  BY <1>1, <1>2 DEF Scan, Plan, Preflight, Confirm, Erase, Receive, Anchor, Rekey,
     CreateExcluded, RestoreBpool, RestoreKeystore, BootChain, Judge, Done, vars
<1>3. CASE ImportDrive \/ TrackDrive \/ OpenKeystore \/ KeepKey
  <2>1. CASE ImportDrive BY <1>1, <2>1 DEF ImportDrive, Import
  <2>2. CASE TrackDrive BY <1>1, <2>2 DEF TrackDrive
  <2>3. CASE OpenKeystore BY <1>1, <2>3 DEF OpenKeystore
  <2>4. CASE KeepKey BY <1>1, <2>4 DEF KeepKey
  <2> QED BY <1>3, <2>1, <2>2, <2>3, <2>4
<1>4. CASE CreateBpool \/ CreateRpool \/ CloseKeystore
  BY <1>1, <1>4 DEF CreateBpool, CreateRpool, Create, Track, CloseKeystore
<1>5. CASE ExportDrive \/ Reimport \/ ExportFinal \/ MountSystem
  <2>5. ASSUME NEW to, ExportVerified(to) PROVE live' \in LiveType
    <3>1. live.imported \ {"zark"} \in SUBSET Pools /\ live.tracked \ {"zark"} \in SUBSET Pools
      BY <1>1
    <3>2. CASE UNCHANGED live
      BY <1>1, <3>2
    <3>3. CASE live' = [live EXCEPT !.imported = @ \ {"zark"}, !.tracked = @ \ {"zark"}]
      BY <1>1, <3>1, <3>3
    <3> QED BY <2>5, <3>2, <3>3 DEF ExportVerified
  <2>1. CASE ExportDrive BY <2>1, <2>5 DEF ExportDrive
  <2>2. CASE Reimport BY <1>1, <2>2 DEF Reimport, Import, Track
  <2>3. CASE ExportFinal BY <1>1, <2>3, <2>5 DEF ExportFinal
  <2>4. CASE MountSystem BY <1>1, <2>4 DEF MountSystem
  <2> QED BY <1>5, <2>1, <2>2, <2>3, <2>4
<1>6. CASE CleanUp
  <2>1. PICK failed \in SUBSET (live.tracked \cap live.imported) : live' = Released(failed)
    BY <1>6 DEF CleanUp
  <2> QED BY <1>1, <2>1 DEF Released
<1>7. CASE Interrupt
  BY <1>1, <1>7 DEF Interrupt, Untracked
<1>8. CASE Kill
  BY <1>1, <1>8 DEF Kill
<1>9. CASE Reboot
  BY <1>9 DEF Reboot, NoSession
<1> QED BY <1>2, <1>3, <1>4, <1>5, <1>6, <1>7, <1>8, <1>9 DEF Next, Read, Write

LEMMA TypeSys ==
  ASSUME TypeOK, [Next]_vars
  PROVE  sys' \in SysType
<1>1. sys \in SysType /\ drive \in Drives
  BY DEF TypeOK
<1> USE DEF SysType
<1>2. CASE \/ Read \/ CreateBpool \/ CreateRpool \/ CloseKeystore \/ ExportDrive \/ Reimport
           \/ Judge \/ CleanUp \/ Interrupt \/ Kill \/ Reboot \/ Done \/ UNCHANGED vars
  BY <1>1, <1>2 DEF Read, Scan, ImportDrive, TrackDrive, OpenKeystore, KeepKey, Plan,
     Preflight, Confirm, CreateBpool, CreateRpool, Create, Track, CloseKeystore, ExportDrive,
     Reimport, Judge, CleanUp, Interrupt, Kill, Reboot, Done, vars
<1>3. CASE Erase
  BY <1>3 DEF Erase, NoSystem
<1>4. CASE Receive
  <2>1. left \in Seq(RpoolRows) /\ left # <<>>
    BY <1>4 DEF TypeOK, Receive
  <2>2. Head(left) \in Rows
    BY <2>1 DEF Rows
  <2>3. PICK at \in ReceiveRow(Head(left)) : sys' = Arrived(Head(left), at)
    BY <1>4 DEF Receive
  <2>4. at \in {"none", "base", "goal"}
    BY <2>3 DEF ReceiveRow
  <2> QED BY <1>1, <2>2, <2>3, <2>4 DEF Arrived
<1>5. CASE Anchor
  <2>1. PICK a \in SUBSET RpoolRows : sys' = [sys EXCEPT !.anchored = a]
    BY <1>5 DEF Anchor
  <2> QED BY <1>1, <2>1 DEF Rows
<1>6. CASE Rekey
  BY <1>1, <1>6 DEF Rekey
<1>7. CASE CreateExcluded
  <2>1. PICK m \in SUBSET Rows, f \in SUBSET Rows :
           sys' = [sys EXCEPT !.made = m, !.unsnapped = f]
    BY <1>1, <1>7, DriveHas DEF CreateExcluded, EmptyRows
  <2> QED BY <1>1, <2>1
<1>8. CASE RestoreBpool
  <2>1. CASE UNCHANGED sys
    BY <1>1, <2>1
  <2>2. CASE ~UNCHANGED sys
    <3>1. PICK at \in ReceiveRow("boot"), kept \in BOOLEAN :
             sys' = [sys EXCEPT !.got["boot"] = at,
                                !.anchored = IF kept THEN @ \cup {"boot"} ELSE @]
      BY <1>8, <2>2 DEF RestoreBpool
    <3>2. at \in {"none", "base", "goal"}
      BY <3>1 DEF ReceiveRow
    <3> QED BY <1>1, <3>1, <3>2 DEF Rows
  <2> QED BY <2>1, <2>2
<1>9. CASE RestoreKeystore \/ ExportFinal \/ BootChain
  <2>1. CASE RestoreKeystore
    BY <1>1, <2>1 DEF RestoreKeystore
  <2>2. CASE ExportFinal
    BY <1>1, <2>2 DEF ExportFinal
  <2>3. CASE BootChain
    BY <1>1, <2>3 DEF BootChain
  <2> QED BY <1>9, <2>1, <2>2, <2>3
<1>10. CASE MountSystem
  BY ZenonT(40), <1>1, <1>10 DEF MountSystem
<1> QED BY <1>2, <1>3, <1>4, <1>5, <1>6, <1>7, <1>8, <1>9, <1>10 DEF Next, Write

LEMMA TypeRest ==
  ASSUME TypeOK, [Next]_vars
  PROVE  /\ bases' \in BOOLEAN /\ left' \in Seq(RpoolRows)
         /\ errs' \subseteq Errors /\ faults' \in 0..MaxFaults
<1>1. bases \in BOOLEAN /\ left \in Seq(RpoolRows) /\ errs \subseteq Errors
      /\ faults \in 0..MaxFaults
  BY DEF TypeOK, Errors
<1>2. faults' \in 0..MaxFaults
  <2>1. Fault \/ Fine
    BY DEF Next, Read, Write, Scan, ImportDrive, Import, TrackDrive, OpenKeystore, KeepKey, Plan,
       Preflight, Confirm, Erase, CreateBpool, CreateRpool, Create, Track, Receive, Anchor,
       CloseKeystore, ExportDrive, ExportVerified, Rekey, CreateExcluded, Reimport, RestoreBpool,
       RestoreKeystore, ExportFinal, MountSystem, BootChain, Judge, CleanUp, Interrupt, Kill,
       Reboot, Done, vars, Fine
  <2> QED BY <1>1, <2>1, FaultsAssumption DEF Fault, Fine
<1>3. bases' \in BOOLEAN
  <2>1. CASE Scan \/ Preflight
    BY <1>1, <2>1 DEF Scan, Preflight, Fits
  <2>2. CASE ~(Scan \/ Preflight)
    BY <1>1, <2>2 DEF Next, Read, Write, ImportDrive, TrackDrive, OpenKeystore, KeepKey, Plan,
       Confirm, Erase, CreateBpool, CreateRpool, Create, Track, Receive, Anchor,
       CloseKeystore, ExportDrive, Rekey, CreateExcluded, Reimport, RestoreBpool,
       RestoreKeystore, ExportFinal, MountSystem, BootChain, Judge, CleanUp, Interrupt, Kill,
       Reboot, Done, vars
  <2> QED BY <2>1, <2>2
<1>4. left' \in Seq(RpoolRows)
  <2>1. CASE Scan
    <3>1. left' = <<>> BY <2>1 DEF Scan
    <3> QED BY <3>1, EmptySeq
  <2>2. CASE Receive
    <3>1. left # <<>> /\ left' = Tail(left) BY <2>2 DEF Receive
    <3> QED BY <1>1, <3>1, HeadTailProperties
  <2>3. CASE CreateRpool
    <3>1. Planned(drive) \in Seq(RpoolRows)
      BY PlannedRows, DriveHas DEF TypeOK
    <3>2. left' \in {left, Planned(drive)}
      BY <2>3 DEF CreateRpool, Create
    <3> QED BY <1>1, <3>1, <3>2
  <2>4. CASE ~(Scan \/ Receive \/ CreateRpool)
    <3>1. left' = left
      BY <2>4 DEF Next, Read, Write, ImportDrive, TrackDrive, OpenKeystore, KeepKey, Plan,
         Preflight, Confirm, Erase, CreateBpool, Create, Anchor,
         CloseKeystore, ExportDrive, Rekey, CreateExcluded, Reimport, RestoreBpool,
         RestoreKeystore, ExportFinal, MountSystem, BootChain, Judge, CleanUp, Interrupt, Kill,
         Reboot, Done, vars
    <3> QED BY <1>1, <3>1
  <2> QED BY <2>1, <2>2, <2>3, <2>4
<1>5. errs' \subseteq Errors
  BY <1>1 DEF Next, Read, Write, Scan, ImportDrive, TrackDrive, OpenKeystore, KeepKey, Plan,
     Preflight, Confirm, Erase, CreateBpool, CreateRpool, Create, Track, Receive, Anchor,
     CloseKeystore, ExportDrive, Rekey, CreateExcluded, Reimport, RestoreBpool,
     RestoreKeystore, ExportFinal, MountSystem, BootChain, Judge, CleanUp, Interrupt, Kill,
     Reboot, Done, vars, Errors
<1> QED BY <1>2, <1>3, <1>4, <1>5

LEMMA TypeStep == TypeOK /\ [Next]_vars => TypeOK'
  BY TypeCourse, TypeLive, TypeSys, TypeRest DEF TypeOK, Errors

-----------------------------------------------------------------------------
(* How a run goes on and ends. *)

(* What every step of a run but the first and the last has in common. *)
Working ==
  \/ Read /\ ~Scan
  \/ Write /\ ~Judge /\ ~CleanUp

(* A working step stays in the run, or ends it with a failure. *)
LEMMA WorkingSteps ==
  ASSUME TypeOK, Working
  PROVE  /\ pc \in Steps /\ drive' = drive
         /\ \/ pc' \in Steps /\ verdict' = verdict
            \/ pc' = "cleanup" /\ verdict' = "fatal"
<1> USE DEF At, To, Exit
<1>1. CASE ImportDrive \/ TrackDrive \/ OpenKeystore \/ KeepKey \/ Plan \/ Preflight \/ Confirm
  BY <1>1 DEF ImportDrive, Import, TrackDrive, OpenKeystore, KeepKey, Plan, Preflight, Confirm,
     Steps
<1>2. CASE Erase \/ CreateBpool \/ CreateRpool
  BY <1>2 DEF Erase, CreateBpool, CreateRpool, Create, Track, Steps
<1>3. CASE Receive
  BY <1>3 DEF Receive, Steps
<1>4. CASE Anchor \/ CloseKeystore \/ ExportDrive \/ Rekey \/ CreateExcluded \/ Reimport
  BY <1>4 DEF Anchor, CloseKeystore, ExportDrive, ExportVerified, Rekey, CreateExcluded, Reimport,
     Import, Track, Steps
<1>5. CASE RestoreBpool \/ RestoreKeystore \/ ExportFinal \/ MountSystem \/ BootChain
  BY <1>5 DEF RestoreBpool, RestoreKeystore, ExportFinal, ExportVerified, MountSystem, BootChain,
     Steps
<1> QED BY <1>1, <1>2, <1>3, <1>4, <1>5 DEF Working, Read, Write

(* The other steps of the specification. *)
LEMMA Kinds ==
  ASSUME [Next]_vars
  PROVE  \/ Working \/ Scan \/ Judge \/ CleanUp \/ Interrupt \/ Kill \/ Reboot
         \/ UNCHANGED vars
  BY DEF Next, Working, Read, Write, Done

LEMMA DriveStays ==
  ASSUME TypeOK, [Next]_vars
  PROVE  drive' = drive
<1>1. CASE Working BY <1>1, WorkingSteps
<1>2. CASE ~Working
  BY <1>2, Kinds DEF Scan, Judge, CleanUp, Interrupt, Kill, Reboot, vars
<1> QED BY <1>1, <1>2

LEMMA EndedStep ==
  ASSUME TypeOK, Ended, [Next]_vars
  PROVE  Ended'
<1>1. pc \in Steps \cup {"idle", "cleanup"}
  BY DEF TypeOK
<1>2. "cleanup" \notin Steps /\ "idle" \notin Steps
  BY DEF Steps
<1>3. CASE Working
  BY <1>2, <1>3, WorkingSteps DEF Ended
<1>4. CASE Scan
  BY <1>4 DEF Scan, Ended, At
<1>5. CASE Judge
  BY <1>2, <1>5 DEF Judge, Exit, Ended
<1>6. CASE CleanUp \/ Reboot
  BY <1>2, <1>6 DEF CleanUp, Reboot, At, Ended
<1>7. CASE Interrupt \/ Kill
  BY <1>2, <1>7 DEF Interrupt, Kill, Exit, Ended
<1>8. CASE UNCHANGED vars
  BY <1>8 DEF vars, Ended
<1> QED BY <1>3, <1>4, <1>5, <1>6, <1>7, <1>8, Kinds

(* COMPLETE is said by Judge alone, and lasts while the system is left as  *)
(* it is: what holds at the verdict step holds of it afterwards.           *)
LEMMA CompleteFrom ==
  ASSUME TypeOK, Ended, [Next]_vars, verdict' = "complete"
  PROVE  /\ UNCHANGED <<sys, errs>>
         /\ pc' \in {"cleanup", "idle"}
         /\ pc = "verdict" \/ verdict = "complete"
<1>1. pc' \in {"cleanup", "idle"} /\ (pc \in Steps => verdict = "none")
  BY EndedStep DEF Ended
<1>2. CASE Working
  BY <1>1, <1>2, WorkingSteps
<1>3. CASE Judge
  BY <1>1, <1>3 DEF Judge, At
<1>4. CASE CleanUp \/ Reboot \/ UNCHANGED vars
  BY <1>1, <1>4 DEF CleanUp, Reboot, vars
<1>5. CASE Scan \/ Interrupt \/ Kill
  BY <1>5 DEF Scan, Interrupt, Kill, Exit
<1> QED BY <1>2, <1>3, <1>4, <1>5, Kinds

(* A property of the drive that a run of steps has once it is past them is *)
(* the verdict's too.                                                      *)
LEMMA StepsOrder ==
  /\ "verdict" \in Closing /\ Closing \subseteq AfterKeystore
  /\ AfterKeystore \subseteq AfterBpool /\ AfterBpool \subseteq AfterExcluded
  /\ AfterExcluded \subseteq AfterAnchor /\ AfterAnchor \subseteq AfterErase
  /\ AfterErase \subseteq AfterCheck /\ AfterCheck \subseteq Steps
  BY DEF AfterCheck, AfterErase, AfterAnchor, AfterExcluded, AfterBpool, AfterKeystore, Closing,
     Steps

LEMMA AfterCheckSteps ==
  ASSUME Working
  PROVE  \/ ImportDrive \/ TrackDrive \/ OpenKeystore \/ KeepKey \/ Plan \/ Preflight
         \/ pc \in AfterCheck
  BY DEF Working, Read, Write, Confirm, Erase, CreateBpool, CreateRpool, Receive, Anchor,
     CloseKeystore, ExportDrive, Rekey, CreateExcluded, Reimport, RestoreBpool, RestoreKeystore,
     ExportFinal, MountSystem, BootChain, At, AfterCheck, AfterErase, AfterAnchor, AfterExcluded,
     AfterBpool, AfterKeystore, Closing

LEMMA CheckedStep ==
  ASSUME TypeOK, Ended, Checked, [Next]_vars
  PROVE  Checked'
<1>1. /\ drive' = drive /\ Unrecoverable(drive)' = Unrecoverable(drive)
      /\ PreflightOK(drive)' = PreflightOK(drive)
  <2>1. drive' = drive BY DriveStays
  <2> QED BY <2>1
<1>2. CASE verdict' = "complete"
  BY <1>1, <1>2, CompleteFrom, StepsOrder DEF Checked, Past
<1>3. CASE pc' \notin Steps /\ verdict' # "complete"
  BY <1>3, StepsOrder DEF Checked, Past, Steps
<1>4. CASE Working
  <2>1. CASE ImportDrive \/ TrackDrive \/ OpenKeystore \/ KeepKey
    <3>1. pc' \in {"track", "unlock", "kept", "plan", "cleanup"}
      BY <2>1 DEF ImportDrive, Import, TrackDrive, OpenKeystore, KeepKey, To, Exit
    <3>2. pc' \notin {"target"} \cup AfterCheck
      BY <3>1 DEF AfterCheck, AfterErase, AfterAnchor, AfterExcluded, AfterBpool, AfterKeystore,
         Closing
    <3> QED BY <1>2, <3>2 DEF Checked, Past
  <2>2. CASE Plan
    <3>1. \/ pc' = "target" /\ ~Unrecoverable(drive)
          \/ pc' = "cleanup"
      BY <2>2 DEF Plan, To, Exit
    <3>2. pc' \notin AfterCheck
      BY <3>1 DEF AfterCheck, AfterErase, AfterAnchor, AfterExcluded, AfterBpool, AfterKeystore,
         Closing
    <3>3. CASE pc' = "cleanup" BY <1>2, <1>3, <3>3 DEF Steps
    <3> QED BY <1>1, <1>2, <3>1, <3>2, <3>3 DEF Checked, Past
  <2>3. CASE Preflight
    <3>1. \/ pc = "target" /\ PreflightOK(drive)
          \/ pc' = "cleanup"
      BY <2>3 DEF Preflight, At, Exit
    <3>2. CASE pc' = "cleanup" BY <1>2, <1>3, <3>2 DEF Steps
    <3> QED BY <1>1, <1>2, <3>1, <3>2 DEF Checked, Past
  <2>4. CASE pc \in AfterCheck
    BY <1>1, <2>4 DEF Checked, Past
  <2> QED BY <1>4, <2>1, <2>2, <2>3, <2>4, AfterCheckSteps
<1>5. CASE Scan
  <2>1. pc' = "import" /\ verdict' = "none"
    BY <1>5 DEF Scan
  <2> QED BY <2>1 DEF Checked, Past, AfterCheck, AfterErase, AfterAnchor, AfterExcluded, AfterBpool,
      AfterKeystore, Closing
<1>6. CASE Judge \/ CleanUp \/ Interrupt \/ Kill
  BY <1>2, <1>3, <1>6 DEF Judge, CleanUp, Interrupt, Kill, Exit, Steps
<1>7. CASE Reboot \/ UNCHANGED vars
  BY <1>1, <1>7 DEF Reboot, vars, Checked, Past
<1> QED BY <1>4, <1>5, <1>6, <1>7, Kinds

(* What the plan and the pre-flight let through can be filled again. *)
LEMMA CheckedBoots ==
  ASSUME drive \in Drives, ~Unrecoverable(drive), PreflightOK(drive)
  PROVE  CanBoot(drive)
<1>1. drive.rec \in {"none", "bpool", "ext4", "bad"}
  BY DriveHas DEF DriveType
<1>2. drive.held["be"] # "gone" /\ drive.keystore
  BY DEF PreflightOK, Restored
<1>3. drive.size # "big"
  BY DEF PreflightOK, Fits
<1>4. drive.rec # "bad"
  BY DEF Unrecoverable
<1>5. ASSUME drive.marked, drive.rec # "bpool"
      PROVE  drive.rec = "ext4" /\ drive.held["copy"] # "gone"
  <2>1. Layout(drive) = "ext4"
    BY <1>1, <1>5 DEF Layout
  <2> QED BY <1>1, <1>4, <2>1, <1>5 DEF Unrecoverable, PreflightOK, Restored
<1> QED BY <1>2, <1>3, <1>4, <1>5 DEF CanBoot

LEMMA ErasedStep ==
  ASSUME TypeOK, Checked, ErasedToFill, [Next]_vars
  PROVE  ErasedToFill'
<1>1. drive' = drive
  BY DriveStays
<1>2. CASE Erase
  <2>1. pc \in AfterCheck
    BY <1>2 DEF Erase, At, AfterCheck
  <2>2. CanBoot(drive)
    BY <2>1, CheckedBoots DEF TypeOK, Checked, Past
  <2> QED BY <1>1, <2>2 DEF ErasedToFill
<1>3. CASE ~Erase
  <2>1. disk' = disk
    BY <1>3 DEF Next, Read, Write, Scan, ImportDrive, TrackDrive, OpenKeystore, KeepKey, Plan,
       Preflight, Confirm, CreateBpool, CreateRpool, Create, Track, Receive, Anchor,
       CloseKeystore, ExportDrive, Rekey, CreateExcluded, Reimport, RestoreBpool,
       RestoreKeystore, ExportFinal, MountSystem, BootChain, Judge, CleanUp, Interrupt, Kill,
       Reboot, Done, vars
  <2> QED BY <1>1, <2>1 DEF ErasedToFill
<1> QED BY <1>2, <1>3

-----------------------------------------------------------------------------
(* The pools of the live session. *)

(* The working steps that leave the live session alone. *)
LEMMA LiveStays ==
  ASSUME [Next]_vars,
         \/ Scan \/ Plan \/ Preflight \/ Confirm \/ Erase \/ Receive \/ Anchor \/ Rekey
         \/ CreateExcluded \/ RestoreBpool \/ RestoreKeystore \/ BootChain \/ Judge
  PROVE  live' = live
  BY DEF Scan, Plan, Preflight, Confirm, Erase, Receive, Anchor, Rekey, CreateExcluded,
     RestoreBpool, RestoreKeystore, BootChain, Judge

(* An export takes the drive's pool away, or ends the run. *)
LEMMA ExportEffect ==
  ASSUME TypeOK, NEW to, ExportVerified(to)
  PROVE  \/ /\ pc' = to /\ live'.imported = live.imported \ {"zark"}
            /\ live'.tracked = live.tracked \ {"zark"} /\ live'.stuck = live.stuck
         \/ pc' = "cleanup" /\ live' = live
<1>1. CASE live' = [live EXCEPT !.imported = @ \ {"zark"}, !.tracked = @ \ {"zark"}] /\ pc' = to
  <2> DEFINE i == live.imported \ {"zark"}
             t == live.tracked \ {"zark"}
  <2>1. live' = [live EXCEPT !.imported = i, !.tracked = t]
    BY <1>1
  <2> HIDE DEF i, t
  <2>2. live \in LiveType
    BY DEF TypeOK
  <2>3. live'.imported = i /\ live'.tracked = t /\ live'.stuck = live.stuck
    BY <2>1, <2>2 DEF LiveType
  <2> QED BY <1>1, <2>3 DEF i, t
<1>2. CASE pc' = "cleanup" /\ live' = live
  BY <1>2
<1> QED BY <1>1, <1>2 DEF ExportVerified, To, Exit

LEMMA AttachedStep ==
  ASSUME TypeOK, Attached, [Next]_vars
  PROVE  Attached'
<1>1. live \in LiveType
  BY DEF TypeOK
<1> USE DEF Attached, Closing, At, To, Exit, LiveType
<1>2. CASE pc' \in {"cleanup", "idle"}
  BY <1>2
<1>3. CASE Scan \/ Plan \/ Confirm \/ Rekey \/ CreateExcluded \/ BootChain \/ Erase \/ Anchor
  BY <1>3, LiveStays DEF Scan, Plan, Confirm, Rekey, CreateExcluded, BootChain, Erase, Anchor
<1>4. CASE Receive \/ RestoreBpool \/ RestoreKeystore
  BY <1>4 DEF Receive, RestoreBpool, RestoreKeystore
<1>5. CASE Preflight
  BY <1>2, <1>5, LiveStays DEF Preflight, Refused
<1>6. CASE ImportDrive \/ TrackDrive
  BY <1>1, <1>6 DEF ImportDrive, Import, TrackDrive
<1>7. CASE OpenKeystore \/ KeepKey
  BY <1>1, <1>7 DEF OpenKeystore, KeepKey
<1>8. CASE CreateBpool \/ CreateRpool \/ CloseKeystore \/ Reimport
  BY <1>8 DEF CreateBpool, CreateRpool, Create, Track, CloseKeystore, Reimport, Import
<1>9. CASE ExportDrive
  BY <1>9, ExportEffect DEF ExportDrive
<1>10. CASE ExportFinal
  BY <1>10, ExportEffect DEF ExportFinal
<1>11. CASE MountSystem
  BY <1>1, <1>11 DEF MountSystem
<1>12. CASE Judge \/ CleanUp \/ Interrupt \/ Kill
  BY <1>2, <1>12 DEF Judge, CleanUp, Interrupt, Kill
<1>13. CASE Reboot \/ Done \/ UNCHANGED vars
  BY <1>13 DEF Reboot, Done, vars
<1> QED BY <1>3, <1>4, <1>5, <1>6, <1>7, <1>8, <1>9, <1>10, <1>11, <1>12, <1>13
    DEF Next, Read, Write

LEMMA LooseStep ==
  ASSUME TypeOK, Loose, [Next]_vars
  PROVE  Loose'
<1>1. live \in LiveType
  BY DEF TypeOK
<1> USE DEF Loose, At, To, Exit, LiveType, Untracked
<1>2. CASE Scan
  BY <1>2 DEF Scan, Steps
<1>3. CASE Plan \/ Confirm \/ Erase \/ Preflight
  BY <1>3, LiveStays DEF Plan, Confirm, Erase, Preflight, Steps
<1>4. CASE Receive
  BY <1>4, LiveStays DEF Receive, Steps
<1>5. CASE Anchor \/ Rekey \/ CreateExcluded \/ RestoreBpool
  BY <1>5, LiveStays DEF Anchor, Rekey, CreateExcluded, RestoreBpool, Steps
<1>6. CASE RestoreKeystore \/ BootChain \/ Judge
  BY <1>6, LiveStays DEF RestoreKeystore, BootChain, Judge, Steps
<1>7. CASE ImportDrive
  BY <1>1, <1>7 DEF ImportDrive, Import, Steps
<1>8. CASE TrackDrive
  BY <1>1, <1>8 DEF TrackDrive, Steps
<1>9. CASE OpenKeystore
  BY <1>1, <1>9 DEF OpenKeystore, Steps
<1>10. CASE KeepKey
  BY <1>1, <1>10 DEF KeepKey, Steps
<1>11. CASE CreateBpool
  BY <1>1, <1>11 DEF CreateBpool, Create, Track, Steps
<1>12. CASE CreateRpool
  BY <1>1, <1>12 DEF CreateRpool, Create, Track, Steps
<1>13. CASE CloseKeystore
  BY <1>1, <1>13 DEF CloseKeystore, Steps
<1>14. CASE ExportDrive
  BY <1>14, ExportEffect DEF ExportDrive, Steps
<1>15. CASE Reimport
  BY <1>1, <1>15 DEF Reimport, Import, Track, Steps
<1>16. CASE ExportFinal
  BY <1>16, ExportEffect DEF ExportFinal, Steps
<1>17. CASE MountSystem
  BY <1>1, <1>17 DEF MountSystem, Steps
<1>18. CASE CleanUp
  <2>1. PICK failed \in SUBSET (live.tracked \cap live.imported) : live' = Released(failed)
    BY <1>18 DEF CleanUp
  <2>2. pc = "cleanup" /\ pc' = "idle"
    BY <1>18 DEF CleanUp
  <2>3. live.imported \ live.tracked \subseteq live.stuck
    BY <2>2 DEF Steps
  <2>4. live'.imported = live.imported \ (live.tracked \ failed) /\ live'.tracked = {}
        /\ live'.stuck = (live.stuck \cup failed) \cap (live.imported \ (live.tracked \ failed))
    BY <1>1, <2>1 DEF Released
  <2> QED BY <2>2, <2>3, <2>4 DEF Steps
<1>19. CASE Interrupt
  BY <1>1, <1>19 DEF Interrupt, Steps
<1>20. CASE Kill
  BY <1>1, <1>20 DEF Kill, Steps
<1>21. CASE Reboot
  BY <1>21 DEF Reboot, NoSession
<1>22. CASE Done \/ UNCHANGED vars
  BY <1>22 DEF Done, vars
<1> QED BY <1>2, <1>3, <1>4, <1>5, <1>6, <1>7, <1>8, <1>9, <1>10, <1>11, <1>12, <1>13, <1>14,
    <1>15, <1>16, <1>17, <1>18, <1>19, <1>20, <1>21, <1>22 DEF Next, Read, Write

LEMMA KeyGoneStep ==
  ASSUME TypeOK, KeyGone, [Next]_vars
  PROVE  KeyGone'
<1>1. live \in LiveType
  BY DEF TypeOK
<1>2. CASE Working
  <2>1. pc' # "idle"
    BY <1>2, WorkingSteps DEF Steps
  <2> QED BY <2>1 DEF KeyGone
<1>3. CASE Scan \/ Judge \/ Interrupt
  <2>1. pc' # "idle"
    BY <1>3 DEF Scan, Judge, Interrupt, Exit
  <2> QED BY <2>1 DEF KeyGone
<1>4. CASE CleanUp
  <2>1. PICK failed : live' = Released(failed)
    BY <1>4 DEF CleanUp
  <2> QED BY <1>1, <2>1 DEF Released, KeyGone, LiveType
<1>5. CASE Kill
  BY <1>1, <1>5 DEF Kill, KeyGone, LiveType
<1>6. CASE Reboot
  BY <1>6 DEF Reboot, KeyGone, NoSession
<1>7. CASE UNCHANGED vars
  BY <1>7 DEF vars, KeyGone
<1> QED BY <1>2, <1>3, <1>4, <1>5, <1>6, <1>7, Kinds

-----------------------------------------------------------------------------
(* The system on the internal disk. *)

(* The step that takes a run into each of its parts. *)
LEMMA Onward ==
  ASSUME Working
  PROVE  /\ pc' \in AfterErase => pc \in AfterErase \/ Erase
         /\ pc' = "receive" => Receive \/ (CreateRpool /\ left' = Planned(drive))
         /\ pc' \in AfterAnchor => pc \in AfterAnchor \/ Anchor
         /\ pc' \in AfterExcluded => pc \in AfterExcluded \/ CreateExcluded
         /\ pc' \in AfterBpool => pc \in AfterBpool \/ RestoreBpool
         /\ pc' \in AfterKeystore => pc \in AfterKeystore \/ RestoreKeystore
         /\ pc' = "verdict" => BootChain
<1> USE DEF At, To, Exit, AfterErase, AfterAnchor, AfterExcluded, AfterBpool, AfterKeystore, Closing
<1>1. CASE ImportDrive \/ TrackDrive \/ OpenKeystore \/ KeepKey \/ Plan \/ Preflight \/ Confirm
  <2>1. pc' \in {"track", "unlock", "kept", "plan", "target", "confirm", "erase", "cleanup"}
    BY <1>1 DEF ImportDrive, Import, TrackDrive, OpenKeystore, KeepKey, Plan, Preflight, Confirm
  <2> QED BY <2>1
<1>2. CASE Erase
  BY <1>2 DEF Erase
<1>3. CASE CreateBpool
  BY <1>3 DEF CreateBpool, Create, Track
<1>4. CASE CreateRpool
  BY <1>4 DEF CreateRpool, Create, Track
<1>5. CASE Receive
  <2>1. pc = "receive" /\ pc' \in {"receive", "cleanup"}
    BY <1>5 DEF Receive
  <2> QED BY <1>5, <2>1
<1>6. CASE Anchor
  BY <1>6 DEF Anchor
<1>7. CASE CloseKeystore \/ ExportDrive \/ Rekey
  BY <1>7 DEF CloseKeystore, ExportDrive, ExportVerified, Rekey
<1>8. CASE CreateExcluded
  BY <1>8 DEF CreateExcluded
<1>9. CASE Reimport
  BY <1>9 DEF Reimport, Import, Track
<1>10. CASE RestoreBpool
  BY <1>10 DEF RestoreBpool
<1>11. CASE RestoreKeystore
  BY <1>11 DEF RestoreKeystore
<1>12. CASE ExportFinal
  BY <1>12 DEF ExportFinal, ExportVerified
<1>13. CASE MountSystem
  BY <1>13 DEF MountSystem
<1>14. CASE BootChain
  BY <1>14 DEF BootChain
<1> QED BY <1>1, <1>2, <1>3, <1>4, <1>5, <1>6, <1>7, <1>8, <1>9, <1>10, <1>11, <1>12, <1>13, <1>14
    DEF Working, Read, Write

(* What the steps after the receive leave alone. *)
LEMMA SysKept ==
  ASSUME TypeOK, Working, pc \in AfterAnchor
  PROVE  /\ errs \subseteq errs'
         /\ \A r \in RpoolRows : sys'.got[r] = sys.got[r]
         /\ sys.anchored \subseteq sys'.anchored
         /\ RestoreBpool \/ sys'.got = sys.got
         /\ CreateExcluded \/ (sys'.made = sys.made /\ sys'.unsnapped = sys.unsnapped)
<1>1. sys \in SysType
  BY DEF TypeOK
<1> USE DEF SysType
<1>2. CASE CloseKeystore \/ ExportDrive \/ Reimport
  BY <1>1, <1>2 DEF CloseKeystore, ExportDrive, Reimport, Track
<1>3. CASE Rekey
  <2>1. errs \subseteq errs' /\ \E o : sys' = [sys EXCEPT !.own = o] \/ sys' = sys
    BY <1>3 DEF Rekey
  <2> QED BY <1>1, <2>1
<1>4. CASE CreateExcluded
  <2>1. PICK m, f : sys' = [sys EXCEPT !.made = m, !.unsnapped = f] /\ errs \subseteq errs'
    BY <1>4 DEF CreateExcluded
  <2>2. sys'.got = sys.got /\ sys'.anchored = sys.anchored
    BY <1>1, <2>1
  <2> QED BY <1>4, <2>1, <2>2
<1>5. CASE RestoreBpool
  <2>1. errs \subseteq errs'
    BY <1>5 DEF RestoreBpool
  <2>2. CASE UNCHANGED sys
    BY <2>1, <2>2
  <2>3. CASE ~UNCHANGED sys
    <3>1. PICK at \in ReceiveRow("boot"), kept \in BOOLEAN :
             sys' = [sys EXCEPT !.got["boot"] = at,
                                !.anchored = IF kept THEN @ \cup {"boot"} ELSE @]
      BY <1>5, <2>3 DEF RestoreBpool
    <3>2. \A r \in RpoolRows : sys'.got[r] = sys.got[r]
      BY <1>1, <3>1 DEF Rows, RpoolRows
    <3>3. sys.anchored \subseteq sys'.anchored /\ sys'.made = sys.made
          /\ sys'.unsnapped = sys.unsnapped
      BY <1>1, <3>1
    <3> QED BY <1>5, <2>1, <3>2, <3>3
  <2> QED BY <2>2, <2>3
<1>6. CASE RestoreKeystore \/ ExportFinal
  BY <1>1, <1>6 DEF RestoreKeystore, ExportFinal
<1>7. CASE MountSystem
  <2>1. errs \subseteq errs' /\ \E b : sys' = [sys EXCEPT !.boot = b] \/ sys' = sys
    BY <1>7 DEF MountSystem
  <2> QED BY <1>1, <2>1
<1>8. CASE BootChain
  BY <1>1, <1>8 DEF BootChain
<1>9. \/ CloseKeystore \/ ExportDrive \/ Reimport \/ Rekey \/ CreateExcluded \/ RestoreBpool
      \/ RestoreKeystore \/ ExportFinal \/ MountSystem \/ BootChain
  <2> USE DEF At, AfterAnchor, AfterExcluded, AfterBpool, AfterKeystore, Closing
  <2>1. ~(ImportDrive \/ TrackDrive \/ OpenKeystore \/ KeepKey \/ Plan \/ Preflight \/ Confirm)
    BY DEF ImportDrive, TrackDrive, OpenKeystore, KeepKey, Plan, Preflight, Confirm
  <2>2. ~(Erase \/ CreateBpool \/ CreateRpool \/ Receive \/ Anchor)
    BY DEF Erase, CreateBpool, CreateRpool, Receive, Anchor
  <2> QED BY <2>1, <2>2 DEF Working, Read, Write
<1> QED BY <1>2, <1>3, <1>4, <1>5, <1>6, <1>7, <1>8, <1>9

LEMMA KeystoreKept ==
  ASSUME TypeOK, Working
  PROVE  Erase \/ RestoreKeystore \/ sys'.keystore = sys.keystore
<1>1. sys \in SysType
  BY DEF TypeOK
<1>2. CASE pc \in AfterErase
  <2>1. CASE Receive
    BY <1>1, <2>1 DEF Receive, Arrived, SysType
  <2>2. CASE Anchor
    <3>1. PICK a : sys' = [sys EXCEPT !.anchored = a]
      BY <2>2 DEF Anchor
    <3> QED BY <1>1, <3>1 DEF SysType
  <2>3. CASE RestoreBpool
    BY <1>1, <2>3 DEF RestoreBpool, SysType
  <2>4. CASE CreateExcluded
    <3>1. PICK m, f : sys' = [sys EXCEPT !.made = m, !.unsnapped = f]
      BY <2>4 DEF CreateExcluded
    <3> QED BY <1>1, <3>1 DEF SysType
  <2>5. CASE MountSystem
    <3>1. sys' = sys \/ \E b : sys' = [sys EXCEPT !.boot = b]
      BY <2>5 DEF MountSystem
    <3> QED BY <1>1, <3>1 DEF SysType
  <2>6. CASE CreateBpool \/ CreateRpool \/ CloseKeystore \/ ExportDrive \/ Reimport
    BY <2>6 DEF CreateBpool, CreateRpool, Create, Track, CloseKeystore, ExportDrive, Reimport
  <2>7. CASE Rekey \/ ExportFinal \/ BootChain
    BY <1>1, <2>7 DEF Rekey, ExportFinal, BootChain, SysType
  <2>8. CASE ImportDrive \/ TrackDrive \/ OpenKeystore \/ KeepKey \/ Plan \/ Preflight \/ Confirm
    BY <2>8 DEF ImportDrive, TrackDrive, OpenKeystore, KeepKey, Plan, Preflight, Confirm
  <2> QED BY <2>1, <2>2, <2>3, <2>4, <2>5, <2>6, <2>7, <2>8 DEF Working, Read, Write
<1>3. CASE pc \notin AfterErase
  <2> USE DEF At, AfterErase, AfterAnchor, AfterExcluded, AfterBpool, AfterKeystore, Closing
  <2>1. ~(CreateBpool \/ CreateRpool \/ Receive \/ Anchor \/ CloseKeystore \/ ExportDrive \/ Rekey)
    BY <1>3 DEF CreateBpool, CreateRpool, Receive, Anchor, CloseKeystore, ExportDrive, Rekey
  <2>2. ~(CreateExcluded \/ Reimport \/ RestoreBpool \/ ExportFinal \/ MountSystem \/ BootChain)
    BY <1>3 DEF CreateExcluded, Reimport, RestoreBpool, ExportFinal, MountSystem, BootChain
  <2>3. ASSUME Read PROVE sys' = sys
    BY <2>3 DEF Read, Scan, ImportDrive, TrackDrive, OpenKeystore, KeepKey, Plan, Preflight, Confirm
  <2> QED BY <2>1, <2>2, <2>3 DEF Working, Write
<1> QED BY <1>2, <1>3

LEMMA KeystoreLastStep ==
  ASSUME TypeOK, Ended, KeystoreLast, [Next]_vars
  PROVE  KeystoreLast'
<1>1. CASE verdict' = "complete"
  <2>1. pc' \notin AfterErase /\ sys'.keystore = sys.keystore
        /\ (pc \in AfterKeystore \/ verdict = "complete")
    BY <1>1, CompleteFrom, StepsOrder DEF Steps
  <2> QED BY <2>1 DEF KeystoreLast, Past
<1>2. CASE verdict' # "complete" /\ pc' \notin AfterErase
  BY <1>2, StepsOrder DEF KeystoreLast, Past
<1>3. CASE Working /\ pc' \in AfterErase /\ verdict' # "complete"
  <2>1. CASE Erase
    <3>1. sys'.keystore = FALSE /\ pc' \in {"pools", "cleanup"}
      BY <2>1 DEF Erase, NoSystem, To, Exit
    <3>2. pc' \notin AfterKeystore
      BY <3>1 DEF AfterKeystore, Closing
    <3> QED BY <1>3, <3>1, <3>2 DEF KeystoreLast, Past
  <2>2. CASE RestoreKeystore
    <3>1. \/ sys' = [sys EXCEPT !.keystore = TRUE, !.residue = TRUE] /\ pc' = "export2"
          \/ pc' = "cleanup"
      BY <2>2 DEF RestoreKeystore, To, Exit
    <3>2. pc' # "cleanup"
      BY <1>3, StepsOrder DEF Steps
    <3>3. sys'.keystore /\ pc' \in AfterKeystore
      BY <3>1, <3>2 DEF TypeOK, SysType, AfterKeystore
    <3> QED BY <3>3 DEF KeystoreLast, Past
  <2>3. CASE ~Erase /\ ~RestoreKeystore
    <3>1. sys'.keystore = sys.keystore
      BY <1>3, <2>3, KeystoreKept
    <3>2. pc \in AfterErase /\ (pc' \in AfterKeystore => pc \in AfterKeystore)
      BY <1>3, <2>3, Onward
    <3>3. pc \in AfterKeystore => pc' \in AfterKeystore
      <4> USE DEF At, To, Exit
      <4>1. ASSUME pc \in AfterKeystore PROVE ExportFinal \/ MountSystem \/ BootChain
        <5> USE <1>3, <2>3, <4>1 DEF AfterKeystore, Closing
        <5>1. ~Read BY DEF Read, Scan, ImportDrive, TrackDrive, OpenKeystore, KeepKey, Plan,
                       Preflight, Confirm, Working
        <5>2. ~(CreateBpool \/ CreateRpool \/ Receive \/ Anchor \/ CloseKeystore \/ ExportDrive)
          BY DEF CreateBpool, CreateRpool, Receive, Anchor, CloseKeystore, ExportDrive
        <5>3. ~(Rekey \/ CreateExcluded \/ Reimport \/ RestoreBpool)
          BY DEF Rekey, CreateExcluded, Reimport, RestoreBpool
        <5> QED BY <5>1, <5>2, <5>3 DEF Working, Write
      <4>2. ASSUME ExportFinal \/ MountSystem \/ BootChain
            PROVE  pc' \in {"prepared", "mount", "chain", "verdict", "cleanup"}
        BY <4>2 DEF ExportFinal, ExportVerified, MountSystem, BootChain
      <4>3. "cleanup" \notin AfterErase
        BY StepsOrder DEF Steps
      <4> QED BY <1>3, <4>1, <4>2, <4>3 DEF AfterKeystore, Closing
    <3> QED BY <1>3, <3>1, <3>2, <3>3 DEF KeystoreLast, Past
  <2> QED BY <2>1, <2>2, <2>3
<1>4. CASE Scan
  BY <1>1, <1>2, <1>4 DEF Scan, AfterErase, AfterAnchor, AfterExcluded, AfterBpool, AfterKeystore,
     Closing
<1>5. CASE Judge \/ CleanUp \/ Interrupt \/ Kill
  <2>1. pc' \in {"cleanup", "idle"}
    BY <1>5 DEF Judge, CleanUp, Interrupt, Kill, Exit
  <2>2. pc' \notin AfterErase
    BY <2>1, StepsOrder DEF Steps
  <2> QED BY <1>1, <1>2, <2>2
<1>6. CASE Reboot \/ UNCHANGED vars
  BY <1>6 DEF Reboot, vars, KeystoreLast, Past
<1> QED BY <1>1, <1>2, <1>3, <1>4, <1>5, <1>6, Kinds

(* The steps that are not working ones bring no run past anything. *)
LEMMA PastBefore ==
  ASSUME TypeOK, Ended, [Next]_vars, ~Working, NEW S \in SUBSET Steps, "import" \notin S,
         "verdict" \in S, Past(S)'
  PROVE  Past(S) /\ UNCHANGED <<sys, errs>>
<1>1. CASE verdict' = "complete"
  BY <1>1, CompleteFrom DEF Past
<1>2. CASE verdict' # "complete"
  <2>1. pc' \in S
    BY <1>2 DEF Past
  <2>2. pc' \notin {"import", "cleanup", "idle"}
    BY <2>1 DEF Steps
  <2>3. Reboot \/ UNCHANGED vars
    BY <2>2, Kinds DEF Scan, Judge, CleanUp, Interrupt, Kill, Exit
  <2> QED BY <2>1, <2>3 DEF Reboot, vars, Past
<1> QED BY <1>1, <1>2

LEMMA PastWorking ==
  ASSUME TypeOK, Ended, Working, NEW S, Past(S)'
  PROVE  pc' \in S
<1>1. verdict' # "complete"
  BY WorkingSteps DEF Ended
<1> QED BY <1>1 DEF Past

LEMMA PastSets ==
  /\ AfterAnchor \in SUBSET Steps /\ "import" \notin AfterAnchor /\ "verdict" \in AfterAnchor
  /\ AfterExcluded \in SUBSET Steps /\ "import" \notin AfterExcluded /\ "verdict" \in AfterExcluded
  /\ AfterBpool \in SUBSET Steps /\ "import" \notin AfterBpool /\ "verdict" \in AfterBpool
  BY StepsOrder DEF AfterAnchor, AfterExcluded, AfterBpool, AfterKeystore, Closing

LEMMA RowsDueStep ==
  ASSUME TypeOK, Ended, RowsDue, [Next]_vars
  PROVE  RowsDue'
<1> SUFFICES ASSUME pc' = "receive", errs' = {}, NEW r \in RowsOf(drive)
             PROVE  sys'.got[r] = "goal" \/ \E i \in 1..Len(left') : left'[i] = r
  <2>1. RowsOf(drive)' = RowsOf(drive)
    <3>1. drive' = drive BY DriveStays
    <3> QED BY <3>1
  <2> QED BY <2>1 DEF RowsDue
<1>1. CASE CreateRpool /\ left' = Planned(drive)
  BY <1>1, PlannedRows, DriveHas DEF TypeOK
<1>2. CASE Receive
  <2>1. /\ pc = "receive" /\ left # <<>> /\ left' = Tail(left) /\ left \in Seq(RpoolRows)
        /\ sys' = Arrived(Head(left), "goal") /\ errs = {}
    BY <1>2 DEF Receive, At, TypeOK
  <2>2. Head(left) \in Rows /\ r \in Rows
    BY <2>1 DEF Rows, RowsOf
  <2>3. sys'.got = [sys.got EXCEPT ![Head(left)] = "goal"] /\ sys.got \in [Rows -> {"none", "base", "goal"}]
    BY <2>1 DEF Arrived, TypeOK, SysType
  <2>4. CASE sys.got[r] = "goal" \/ r = Head(left)
    BY <2>2, <2>3, <2>4
  <2>5. CASE r # Head(left) /\ sys.got[r] # "goal"
    <3>1. PICK i \in 1..Len(left) : left[i] = r
      BY <2>1, <2>5 DEF RowsDue
    <3>2. i # 1
      BY <2>1, <2>5, <3>1
    <3>3. i - 1 \in 1..Len(Tail(left)) /\ Tail(left)[i - 1] = left[i]
      BY <2>1, <3>1, <3>2
    <3> QED BY <2>1, <3>1, <3>3
  <2> QED BY <2>4, <2>5
<1>3. CASE ~Working
  <2>1. pc' \notin {"import", "cleanup", "idle"}
    OBVIOUS
  <2>2. Reboot \/ UNCHANGED vars
    BY <1>3, <2>1, Kinds DEF Scan, Judge, CleanUp, Interrupt, Kill, Exit
  <2> QED BY <2>2 DEF Reboot, vars, RowsDue
<1> QED BY <1>1, <1>2, <1>3, Onward

LEMMA RowsDoneStep ==
  ASSUME TypeOK, Ended, RowsDue, RowsDone, [Next]_vars
  PROVE  RowsDone'
<1> SUFFICES ASSUME Past(AfterAnchor)', errs' = {}, NEW r \in RowsOf(drive)
             PROVE  sys'.got[r] = "goal" /\ r \in sys'.anchored
  <2>1. RowsOf(drive)' = RowsOf(drive)
    <3>1. drive' = drive BY DriveStays
    <3> QED BY <3>1
  <2> QED BY <2>1 DEF RowsDone
<1>1. r \in RpoolRows /\ r \in Rows
  BY DEF RowsOf, Rows
<1>2. CASE ~Working
  BY <1>2, PastBefore, PastSets DEF RowsDone
<1>3. CASE Working /\ pc \in AfterAnchor
  <2>1. errs = {}
    BY <1>3, SysKept
  <2>2. sys.got[r] = "goal" /\ r \in sys.anchored
    BY <1>3, <2>1 DEF RowsDone, Past
  <2> QED BY <1>1, <1>3, <2>2, SysKept
<1>4. CASE Working /\ Anchor
  <2> DEFINE arrived == {q \in RpoolRows : sys.got[q] # "none"}
  <2>1. pc = "receive" /\ left = <<>> /\ errs = {} /\ sys' = [sys EXCEPT !.anchored = arrived]
    BY <1>4 DEF Anchor, At
  <2>2. sys.got[r] = "goal"
    BY <2>1 DEF RowsDue
  <2>3. sys'.got = sys.got /\ sys'.anchored = arrived
    BY <2>1 DEF TypeOK, SysType
  <2> QED BY <1>1, <2>2, <2>3
<1> QED BY <1>2, <1>3, <1>4, PastWorking, Onward

LEMMA ExcludedDoneStep ==
  ASSUME TypeOK, Ended, ExcludedDone, [Next]_vars
  PROVE  ExcludedDone'
<1> DEFINE flags == {r \in drive.unsnapped : Restored(drive, r)}
<1> SUFFICES ASSUME Past(AfterExcluded)', errs' = {}
             PROVE  sys'.made = EmptyRows(drive) /\ sys'.unsnapped = flags
  <2>1. drive' = drive BY DriveStays
  <2> QED BY <2>1 DEF ExcludedDone
<1>1. CASE ~Working
  BY <1>1, PastBefore, PastSets DEF ExcludedDone
<1>2. CASE Working /\ CreateExcluded
  <2>1. PICK m, f : /\ sys' = [sys EXCEPT !.made = m, !.unsnapped = f]
                    /\ errs' = errs \cup (IF m = EmptyRows(drive) THEN {} ELSE {"empty"})
                                    \cup (IF f = flags THEN {} ELSE {"flag"})
    BY <1>2 DEF CreateExcluded
  <2>2. m = EmptyRows(drive) /\ f = flags
    <3> HIDE DEF flags
    <3> QED BY <2>1
  <2>3. sys'.made = m /\ sys'.unsnapped = f
    BY <2>1 DEF TypeOK, SysType
  <2> QED BY <2>2, <2>3
<1>3. CASE Working /\ ~CreateExcluded
  <2>1. pc \in AfterExcluded
    BY <1>3, PastWorking, Onward
  <2>2. errs = {} /\ sys'.made = sys.made /\ sys'.unsnapped = sys.unsnapped
    BY <1>3, <2>1, SysKept, StepsOrder
  <2> QED BY <2>1, <2>2 DEF ExcludedDone, Past
<1> QED BY <1>1, <1>2, <1>3

LEMMA SourceDoneStep ==
  ASSUME TypeOK, Ended, Checked, RowsDone, SourceDone, [Next]_vars
  PROVE  SourceDone'
<1> SUFFICES ASSUME Past(AfterBpool)', errs' = {}
             PROVE  sys'.got[Source] = "goal" /\ Source \in sys'.anchored
  <2>1. Source' = Source
    <3>1. drive' = drive BY DriveStays
    <3> QED BY <3>1 DEF Source
  <2> QED BY <2>1 DEF SourceDone
<1>1. CASE ~Working
  BY <1>1, PastBefore, PastSets DEF SourceDone
<1>2. CASE Working /\ RestoreBpool
  <2>1. pc = "bpool"
    BY <1>2 DEF RestoreBpool, At
  <2>2. CASE Layout(drive) = "ext4"
    <3>1. UNCHANGED <<sys, errs>>
      BY <1>2, <2>2 DEF RestoreBpool
    <3>2. pc \in AfterAnchor /\ pc \in AfterCheck
      BY <2>1, StepsOrder DEF AfterExcluded
    <3>3. "copy" \in RowsOf(drive)
      BY <2>2, <3>2 DEF Checked, Past, PreflightOK, RowsOf, RpoolRows
    <3>4. Source = "copy"
      BY <2>2 DEF Source
    <3> QED BY <3>1, <3>2, <3>3, <3>4 DEF RowsDone, Past
  <2>3. CASE Layout(drive) # "ext4"
    <3>1. PICK at \in ReceiveRow("boot"), kept \in BOOLEAN :
             /\ sys' = [sys EXCEPT !.got["boot"] = at,
                                   !.anchored = IF kept THEN @ \cup {"boot"} ELSE @]
             /\ at = "none" => ~kept
             /\ errs' = errs \cup (IF at = "goal" THEN {} ELSE {"bpool"})
                             \cup (IF kept \/ at = "none" THEN {} ELSE {"anchor"})
      BY <1>2, <2>3 DEF RestoreBpool
    <3>2. at = "goal"
      BY <3>1
    <3>3. kept = TRUE
      BY <3>1, <3>2
    <3>4. sys'.got["boot"] = "goal" /\ "boot" \in sys'.anchored
      BY <3>1, <3>2, <3>3 DEF TypeOK, SysType, Rows
    <3>5. Source = "boot"
      BY <2>3 DEF Source
    <3> QED BY <3>4, <3>5
  <2> QED BY <2>2, <2>3
<1>3. CASE Working /\ ~RestoreBpool
  <2>1. pc \in AfterBpool
    BY <1>3, PastWorking, Onward
  <2>2. errs = {} /\ sys'.got = sys.got /\ sys.anchored \subseteq sys'.anchored
    BY <1>3, <2>1, SysKept, StepsOrder
  <2> QED BY <2>1, <2>2 DEF SourceDone, Past
<1> QED BY <1>1, <1>2, <1>3

LEMMA ChainDoneStep ==
  ASSUME TypeOK, Ended, ChainDone, [Next]_vars
  PROVE  ChainDone'
<1> SUFFICES ASSUME Past({"verdict"})', errs' = {}
             PROVE  sys'.boot = "filled" /\ sys'.chain
  BY DEF ChainDone
<1>1. CASE ~Working
  <2>1. {"verdict"} \in SUBSET Steps /\ "import" \notin {"verdict"}
    BY StepsOrder
  <2> QED BY <1>1, <2>1, PastBefore DEF ChainDone
<1>2. CASE Working
  <2>1. BootChain
    BY <1>2, PastWorking, Onward
  <2>2. sys.boot = "filled" /\ sys' = [sys EXCEPT !.chain = TRUE]
    BY <2>1 DEF BootChain
  <2> QED BY <2>2 DEF TypeOK, SysType
<1> QED BY <1>1, <1>2

-----------------------------------------------------------------------------
(* The theorems. *)

LEMMA RecoverInit == Init => RecoverInv
<1> SUFFICES ASSUME Init PROVE RecoverInv
  OBVIOUS
<1>1. pc = "idle" /\ verdict = "none" /\ errs = {} /\ disk = "old" /\ live = NoSession
  BY DEF Init
<1>2. "idle" \notin Steps
  BY DEF Steps
<1>3. Ended /\ Checked /\ ErasedToFill /\ KeystoreLast /\ RowsDue /\ RowsDone /\ ExcludedDone
      /\ SourceDone
  BY <1>1, <1>2, StepsOrder DEF Ended, Checked, ErasedToFill, KeystoreLast, RowsDue, RowsDone,
     ExcludedDone, SourceDone, Past, Steps
<1>4. Attached /\ ChainDone /\ Loose /\ KeyGone
  BY <1>1, <1>2 DEF Attached, ChainDone, Loose, KeyGone, Past, NoSession, Closing
<1> QED BY <1>3, <1>4, TypeInit DEF RecoverInv

LEMMA RecoverStep == RecoverInv /\ [Next]_vars => RecoverInv'
  BY TypeStep, EndedStep, CheckedStep, ErasedStep, AttachedStep, KeystoreLastStep, RowsDueStep,
     RowsDoneStep, ExcludedDoneStep, SourceDoneStep, ChainDoneStep, LooseStep, KeyGoneStep
     DEF RecoverInv

(* What the run is doing, has left behind and knows of it agree at every   *)
(* step of run, of Cleanup and of what the operator does between.          *)
THEOREM RecoverHolds == Spec => []RecoverInv
  BY RecoverInit, RecoverStep, PTL DEF Spec

(* No zvol is on the system while keys are changed and properties set, and *)
(* the drive's pool is gone while the restored system is mounted           *)
(* (_export_verified).                                                     *)
THEOREM NoZvolsThere == Spec => []NoZvols
<1>1. RecoverInv => NoZvols
  BY StepsOrder DEF RecoverInv, Attached, KeystoreLast, NoZvols, Zvols, Closing, AfterErase,
     AfterAnchor, AfterKeystore
<1> QED BY <1>1, RecoverHolds, PTL

(* How a run ends is true of what it leaves: COMPLETE of the system, every *)
(* handled ending of the key's copy and of the pools (run, Cleanup).       *)
THEOREM EndsAsSaid == Spec => []EndsTrue
<1>1. RecoverInv => CompleteRestored
  <2> SUFFICES ASSUME RecoverInv, verdict = "complete" PROVE CompleteRestored
    BY DEF CompleteRestored
  <2>1. errs = {}
    BY DEF RecoverInv, Ended
  <2>2. \A r \in RowsOf(drive) : sys.got[r] = "goal" /\ r \in sys.anchored
    BY <2>1 DEF RecoverInv, RowsDone, Past
  <2>3. sys.got[Source] = "goal" /\ Source \in sys.anchored
    BY <2>1 DEF RecoverInv, SourceDone, Past
  <2>4. sys.made = EmptyRows(drive)
        /\ sys.unsnapped = {r \in drive.unsnapped : Restored(drive, r)}
    BY <2>1 DEF RecoverInv, ExcludedDone, Past
  <2>5. sys.keystore /\ sys.boot = "filled" /\ sys.chain
    BY <2>1 DEF RecoverInv, KeystoreLast, ChainDone, Past
  <2> QED BY <2>2, <2>3, <2>4, <2>5 DEF CompleteRestored
<1>2. RecoverInv => LetGo
  BY DEF RecoverInv, Loose, LetGo, Steps
<1> QED BY <1>1, <1>2, RecoverHolds, PTL DEF EndsTrue, RecoverInv

(* The disk is erased only with all it takes to fill it again on the       *)
(* drive, and with no other pool imported (_preflight, run).               *)
THEOREM ErasesSafely == Spec => EraseSafe
<1>1. RecoverInv => ErasedToFill
  BY DEF RecoverInv
<1>2. RecoverInv /\ [Next]_vars => [disk' # "old" /\ pc = "erase" => live.imported = {"zark"}]_vars
  <2> SUFFICES ASSUME RecoverInv, pc = "erase" PROVE live.imported = {"zark"}
    OBVIOUS
  <2>1. live.imported \subseteq Pools
    BY DEF RecoverInv, TypeOK, LiveType
  <2> QED BY <2>1 DEF RecoverInv, Attached, Pools
<1> QED BY <1>1, <1>2, RecoverHolds, PTL DEF Spec, EraseSafe, EraseAlone

=============================================================================
