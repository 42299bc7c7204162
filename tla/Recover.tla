------------------------------ MODULE Recover ------------------------------
(***************************************************************************)
(* `zark recover`, run from a live USB: the drive's pool imported          *)
(* read-only, the plan of the point, the pre-flight, the disk erased, the  *)
(* pools made, every dataset received, the keystore last, the system       *)
(* mounted and its boot chain written, and the cleanup every exit goes     *)
(* through.  Any command may fail, a signal or a kill may arrive at any    *)
(* step, and the operator runs recover again after a run that did not end  *)
(* with the system restored.                                               *)
(*                                                                         *)
(* Modelled: src/commands/recover.py, lib/restore_plan.py,                 *)
(* lib/recover_ext4.py, lib/recover_checks.py, lib/cleanup.py and what     *)
(* they call in lib/boot_chain.py, lib/keystore.py and lib/pool_record.py. *)
(***************************************************************************)
EXTENDS Naturals, Sequences, FiniteSets

CONSTANTS Drives,     \* what the drive may hold at the point: see DriveType
          MaxFaults   \* failed commands, signals and refusals of a behaviour

(* The datasets of the point: the boot environment, a dataset below it, a  *)
(* second tree with one below it that may be excluded, the copy of /boot   *)
(* an ext4 system keeps, and bpool's boot environment.                     *)
RpoolRows == {"be", "copy", "var", "data", "tmp"}
Rows == RpoolRows \cup {"boot"}

Ancestors == [r \in Rows |-> CASE r \in {"copy", "var"} -> {"be"}
                               [] r = "tmp" -> {"data"}
                               [] OTHER -> {}]

Pools == {"zark", "rpool", "bpool"}

(* rec: the point's record of origin's pools; marked: the drive says ext4  *)
(* elsewhere (its metadata, or a copy of /boot); held: what resolve finds  *)
(* for each dataset; monthly: the ones with a monthly before the point;    *)
(* unsnapped: the ones the point marks as excluded from snapshots only.    *)
DriveType == [rec : {"none", "bpool", "ext4", "bad"}, marked : BOOLEAN,
              held : [Rows -> {"point", "old", "gone"}],
              monthly : SUBSET Rows, excluded : SUBSET {"tmp"},
              unsnapped : SUBSET {"var"},
              keystore : BOOLEAN, lacking : BOOLEAN,
              size : {"fits", "bases", "big"}]

ASSUME DrivesAssumption == Drives \subseteq DriveType
ASSUME FaultsAssumption == MaxFaults \in Nat

VARIABLES
    pc,       \* the step of the run, "idle" between runs
    drive,    \* the drive that is connected: recover never writes it
    disk,     \* the internal disk: "old", "erased" or "laid" (partitioned)
    live,     \* what the live session holds: see LiveType
    sys,      \* what the internal disk's pools hold: see SysType
    bases,    \* the monthly bases are sent first in this run
    left,     \* the rows of the plan still to receive
    errs,     \* the error lines of the run, by what they are about
    verdict,  \* how the last run ended: see Verdicts
    cut,      \* the step a signal stopped, "" when none did
    faults

vars == <<pc, drive, disk, live, sys, bases, left, errs, verdict, cut, faults>>

LiveType == [imported : SUBSET Pools, tracked : SUBSET Pools,
             stuck : SUBSET Pools, keystore : {"shut", "open", "tracked"},
             key : SUBSET {"run", "stray"}, mounted : BOOLEAN]

SysType == [got : [Rows -> {"none", "base", "goal"}], anchored : SUBSET Rows,
            own : SUBSET Rows, made : SUBSET Rows, keystore : BOOLEAN,
            unsnapped : SUBSET Rows, residue : BOOLEAN,
            boot : {"none", "filled"}, chain : BOOLEAN]

NoSession == [imported |-> {}, tracked |-> {}, stuck |-> {},
              keystore |-> "shut", key |-> {}, mounted |-> FALSE]

NoSystem == [got |-> [r \in Rows |-> "none"], anchored |-> {}, own |-> {},
             made |-> {}, keystore |-> FALSE, unsnapped |-> {},
             residue |-> FALSE, boot |-> "none",
             chain |-> FALSE]

Init ==
    /\ pc = "idle" /\ drive \in Drives /\ disk = "old"
    /\ live = NoSession /\ sys = NoSystem
    /\ bases = FALSE /\ left = <<>> /\ errs = {}
    /\ verdict = "none" /\ cut = "" /\ faults = 0

-----------------------------------------------------------------------------
(* The plan of the point: lib.restore_plan and lib.pool_record. *)

(* An excluded top is made empty, and nothing below it; a dataset without  *)
(* a snapshot, or below one that is not restored, is left out.             *)
Excluded(d, r) == r \in d.excluded

Restored(d, r) ==
    /\ ~Excluded(d, r)
    /\ \A a \in Ancestors[r] \cup {r} : d.held[a] # "gone"

RowsOf(d) == {r \in RpoolRows : Restored(d, r)}

(* The rows to receive under rpool, in the order of the plan: parents first. *)
Planned(d) ==
    LET one(r) == IF Restored(d, r) THEN <<r>> ELSE <<>> IN
    one("be") \o one("copy") \o one("var") \o one("data") \o one("tmp")

EmptyRows(d) == {r \in Rows : Excluded(d, r)}

(* The record's layout, else ext4 when the drive says so elsewhere. *)
Layout(d) ==
    CASE d.rec = "none" -> IF d.marked THEN "ext4" ELSE "bpool"
      [] d.rec = "bpool" -> "bpool"
      [] OTHER -> "ext4"

(* Mutant: an ext4 point without a record is not refused. *)
UnrecoverableRecord(d) == d.rec = "bad"

(* What refuses a point before anything is erased: an unreadable record,   *)
(* an ext4 layout without one, a feature this live's ZFS lacks.            *)
Unrecoverable(d) ==
    \/ d.rec = "bad"
    \/ Layout(d) = "ext4" /\ d.rec = "none"

(* Mutant: the bases are never dropped. *)
FitsWithBases(d) == IF d.size = "fits" THEN {TRUE} ELSE {}

(* The restore fits with its monthly bases, without them, or not at all. *)
Fits(d) == IF d.size = "fits" THEN {TRUE}
           ELSE IF d.size = "bases" THEN {FALSE} ELSE {}

(* Everything that can fail without the disk being erased. *)
PreflightOK(d) ==
    /\ Restored(d, "be")
    /\ d.keystore
    /\ Layout(d) = "ext4" => Restored(d, "copy")
    /\ Fits(d) # {}

-----------------------------------------------------------------------------
(* How a step ends: the next one, a failure, or the command's own exit.    *)
(* Every exit goes through the cleanup registered with atexit.             *)
Endings == {"fatal", "returned", "stopped", "killed"}
Verdicts == Endings \cup {"none", "complete", "errors"}

Fault == faults < MaxFaults /\ faults' = faults + 1
Fine == UNCHANGED faults

Exit(how) == pc' = "cleanup" /\ verdict' = how

At(step) == pc = step
To(step) == pc' = step /\ UNCHANGED verdict

(* A zvol is on the system: the drive's keystore, or the restored one. *)
Zvols == \/ "zark" \in live.imported
         \/ sys.keystore /\ "rpool" \in live.imported

-----------------------------------------------------------------------------
(* Steps 1 to 5: nothing is written. *)

(* Step 1: the operator chooses a drive, or leaves. *)
Scan ==
    /\ At("idle") /\ verdict \notin {"complete", "errors"}
    /\ errs' = {} /\ cut' = "" /\ left' = <<>> /\ bases' = FALSE
    /\ verdict' = "none" /\ pc' = "import" /\ Fine
    /\ UNCHANGED <<drive, disk, live, sys>>

(* A pool an earlier run left imported is taken as it is: read-only, under *)
(* an altroot and with the drive's GUID.                                   *)
Import(to) ==
    \/ /\ ~drive.lacking
       /\ live' = [live EXCEPT !.imported = @ \cup {"zark"}]
       /\ To(to) /\ Fine
    \/ /\ Exit("fatal")
       /\ IF drive.lacking THEN Fine ELSE Fault
       /\ UNCHANGED live

(* Step 2: a feature check, the read-only import and its tracking, in two  *)
(* steps: a signal may arrive between them.                                *)
ImportDrive ==
    /\ At("import") /\ Import("track")
    /\ UNCHANGED <<drive, disk, sys, bases, left, errs, cut>>

TrackDrive ==
    /\ At("track")
    /\ live' = [live EXCEPT !.tracked = @ \cup {"zark"}]
    /\ \/ To("unlock") /\ Fine
       \/ Exit("fatal") /\ Fault    \* the metadata is not read
    /\ UNCHANGED <<drive, disk, sys, bases, left, errs, cut>>

OpenKeystore ==
    /\ At("unlock")
    /\ \/ /\ live.keystore = "shut"
          /\ live' = [live EXCEPT !.keystore = "open"]
          /\ To("kept") /\ Fine
       \/ /\ Exit("fatal") /\ UNCHANGED live
          /\ IF live.keystore = "shut" THEN Fault ELSE Fine
    /\ UNCHANGED <<drive, disk, sys, bases, left, errs, cut>>

(* The keystore and the directory of the key's copy are tracked before the *)
(* copy is written.                                                        *)
KeepKey ==
    /\ At("kept")
    /\ live' = [live EXCEPT !.keystore = "tracked",
                            !.key = @ \cup {"run"}]
    /\ To("plan") /\ Fine
    /\ UNCHANGED <<drive, disk, sys, bases, left, errs, cut>>

(* Steps 3 and 4: the snapshots and the marks are read strictly; a point   *)
(* this zark must not recover is refused.                                  *)
Plan ==
    /\ At("plan")
    /\ \/ /\ ~Unrecoverable(drive) /\ Fine
          /\ To("target")
       \/ /\ IF Unrecoverable(drive) THEN Fine ELSE Fault
          /\ Exit("fatal")
    /\ UNCHANGED <<drive, disk, live, sys, bases, left, errs, cut>>

(* Mutant: the pools left imported are not looked at. *)
RefusedMounts == live.mounted

(* Step 5: an imported rpool or bpool, or a mount left under the recover   *)
(* directory, is refused; then the pre-flight.                             *)
Refused == live.imported \cap {"rpool", "bpool"} # {} \/ live.mounted

Preflight ==
    /\ At("target")
    /\ \/ /\ ~Refused /\ PreflightOK(drive)
          /\ \E b \in Fits(drive) : bases' = b
          /\ To("confirm") /\ Fine
       \/ /\ Exit("fatal")
          /\ IF Refused \/ ~PreflightOK(drive) THEN Fine ELSE Fault
          /\ UNCHANGED bases
    /\ UNCHANGED <<drive, disk, live, sys, left, errs, cut>>

Confirm ==
    /\ At("confirm")
    /\ \/ To("erase") /\ Fine
       \/ Exit("fatal") /\ Fault
    /\ UNCHANGED <<drive, disk, live, sys, bases, left, errs, cut>>

-----------------------------------------------------------------------------
(* Steps 6 to 8: the disk is erased and the datasets arrive. *)

(* Step 6: the partitions, and the new /boot of an ext4 point. *)
Erase ==
    /\ At("erase")
    /\ sys' = NoSystem
    /\ \/ disk' = "laid" /\ To("pools") /\ Fine
       \/ disk' = "erased" /\ Exit("fatal") /\ Fault
    /\ UNCHANGED <<drive, live, bases, left, errs, cut>>

(* Step 7: bpool unless the point's /boot is on ext4, then rpool, each     *)
(* tracked after it was made.                                              *)
Create(pool, to) ==
    /\ \/ /\ live' = [live EXCEPT !.imported = @ \cup {pool}]
          /\ To(to) /\ Fine
       \/ Exit("fatal") /\ Fault /\ UNCHANGED live
    /\ UNCHANGED <<drive, disk, sys, bases, left, errs, cut>>

Track(pool, to) ==
    /\ live' = [live EXCEPT !.tracked = @ \cup {pool}]
    /\ To(to) /\ Fine
    /\ UNCHANGED <<drive, disk, sys, bases, errs, cut>>

CreateBpool ==
    \/ At("pools") /\ Layout(drive) = "bpool" /\ Create("bpool", "btrack")
    \/ At("btrack") /\ Track("bpool", "rpool") /\ UNCHANGED left

CreateRpool ==
    \/ /\ At("pools") /\ Layout(drive) = "ext4" /\ Create("rpool", "rtrack")
    \/ /\ At("rpool") /\ Create("rpool", "rtrack")
    \/ /\ At("rtrack") /\ Track("rpool", "receive")
       /\ left' = Planned(drive)

(* A row's receive: its monthly in full when it has one, then the point    *)
(* from it; where that leaves the dataset.                                 *)
Based(r) == bases /\ r \in drive.monthly

ReceiveRow(r) ==
    IF Based(r) THEN {"goal", "base", "none"} ELSE {"goal", "none"}

Arrived(r, at) == [sys EXCEPT !.got[r] = at,
                              !.own = IF at = "none" THEN @ ELSE @ \cup {r}]

(* Whether the parent a receive needs is there. *)
Parented(r) == \A a \in Ancestors[r] : sys.got[a] # "none"

(* Step 8: an error is a line of the summary, but for the boot environment *)
(* and for a full disk, which are fatal.                                   *)
Receive ==
    /\ At("receive") /\ left # <<>>
    /\ LET r == Head(left) IN
       \E at \in ReceiveRow(r) :
          /\ sys' = Arrived(r, at)
          /\ left' = Tail(left)
          /\ IF at = "goal" THEN Fine /\ Parented(r)
                            ELSE Parented(r) => Fault
          /\ ~Parented(r) => at = "none" /\ Fine
          /\ errs' = errs \cup (IF at = "goal" THEN {} ELSE {"receive"})
          /\ \/ ~(r = "be" /\ at # "goal") /\ To("receive")
             \/ at # "goal" /\ Exit("fatal")   \* the root, or ENOSPC
    /\ UNCHANGED <<drive, disk, live, bases, cut>>

(* What arrived is anchored, at the point or at its monthly. *)
Anchor ==
    /\ At("receive") /\ left = <<>>
    /\ LET arrived == {r \in RpoolRows : sys.got[r] # "none"} IN
       \/ sys' = [sys EXCEPT !.anchored = arrived] /\ Fine /\ UNCHANGED errs
       \/ /\ Fault /\ errs' = errs \cup {"anchor"}
          /\ \E r \in arrived : sys' = [sys EXCEPT !.anchored = arrived \ {r}]
    /\ To("export1")
    /\ UNCHANGED <<drive, disk, live, bases, left, cut>>

-----------------------------------------------------------------------------
(* Steps 9 to 12: the drive goes, the keys, the drive comes back. *)

(* Mutant: the run goes on whether or not the pool was exported. *)
ExportTried(to) ==
    \/ /\ live' = [live EXCEPT !.imported = @ \ {"zark"},
                               !.tracked = @ \ {"zark"}]
       /\ To(to) /\ Fine
    \/ To(to) /\ Fault /\ UNCHANGED live

(* The pool and its zvols are gone, or the run stops. *)
ExportVerified(to) ==
    \/ /\ live' = [live EXCEPT !.imported = @ \ {"zark"},
                               !.tracked = @ \ {"zark"}]
       /\ To(to) /\ Fine
    \/ Exit("fatal") /\ Fault /\ UNCHANGED live

(* Step 9: the keystore is closed first, or its zvol would hold the pool. *)
CloseKeystore ==
    /\ At("export1")
    /\ live' = [live EXCEPT !.keystore = "shut"]
    /\ To("export1b") /\ Fine
    /\ UNCHANGED <<drive, disk, sys, bases, left, errs, cut>>

ExportDrive ==
    /\ At("export1b") /\ ExportVerified("keys")
    /\ UNCHANGED <<drive, disk, sys, bases, left, errs, cut>>

(* Steps 10 and 10b: each received dataset back under rpool's key.  A key  *)
(* that did not load fails its change-key; the listing that finds them is  *)
(* not checked, so an unread one changes nothing and says so to nobody.    *)
Rekey ==
    /\ At("keys")
    /\ \/ sys' = [sys EXCEPT !.own = {}] /\ Fine /\ UNCHANGED errs
       \/ /\ Fault /\ errs' = errs \cup {"key"}
          /\ \E r \in sys.own : sys' = [sys EXCEPT !.own = {r}]
       \/ Fault /\ UNCHANGED <<sys, errs>>
    /\ To("excluded")
    /\ UNCHANGED <<drive, disk, live, bases, left, cut>>

(* Steps 10c and 11: what the point left out, made empty below a parent    *)
(* that is there, and the exclusion from snapshots set again on what the   *)
(* plan restored; then bootfs.                                             *)
CreateExcluded ==
    /\ At("excluded")
    /\ LET made == {r \in EmptyRows(drive) : Parented(r)}
           flags == {r \in drive.unsnapped : Restored(drive, r)}
           set == {r \in flags : sys.got[r] # "none"} IN
       \E m \in {made, {}}, f \in {set, {}} :
          /\ sys' = [sys EXCEPT !.made = m, !.unsnapped = f]
          /\ IF m = made /\ f = set THEN Fine ELSE Fault
          /\ errs' = errs \cup (IF m = EmptyRows(drive) THEN {} ELSE {"empty"})
                          \cup (IF f = flags THEN {} ELSE {"flag"})
    /\ To("reimport")
    /\ UNCHANGED <<drive, disk, live, bases, left, cut>>

(* Step 12: without the drive there is no keystore to restore. *)
Reimport ==
    \/ /\ At("reimport") /\ Import("retrack")
       /\ UNCHANGED <<drive, disk, sys, bases, left, errs, cut>>
    \/ /\ At("retrack") /\ Track("zark", "bpool") /\ UNCHANGED left

(* Step 12a: bpool's boot environment, anchored by a rename. *)
RestoreBpool ==
    /\ At("bpool")
    /\ IF Layout(drive) = "ext4" THEN UNCHANGED <<sys, errs>> /\ Fine
       ELSE IF ~Restored(drive, "boot")
       THEN UNCHANGED sys /\ errs' = errs \cup {"bpool"} /\ Fine
       ELSE \E at \in ReceiveRow("boot"), kept \in BOOLEAN :
              /\ at = "none" => ~kept
              /\ sys' = [sys EXCEPT !.got["boot"] = at,
                                    !.anchored = IF kept THEN @ \cup {"boot"}
                                                         ELSE @]
              /\ IF at = "goal" /\ kept THEN Fine ELSE Fault
              /\ errs' = errs \cup (IF at = "goal" THEN {} ELSE {"bpool"})
                              \cup (IF kept \/ at = "none" THEN {}
                                                         ELSE {"anchor"})
    /\ To("keystore")
    /\ UNCHANGED <<drive, disk, live, bases, left, cut>>

(* Step 12b: the keystore zvol, the last dataset to arrive, with the       *)
(* snapshot prepare took of it on the drive.                               *)
RestoreKeystore ==
    /\ At("keystore")
    /\ \/ /\ sys' = [sys EXCEPT !.keystore = TRUE, !.residue = TRUE]
          /\ To("export2") /\ Fine
       \/ Exit("fatal") /\ Fault /\ UNCHANGED sys
    /\ UNCHANGED <<drive, disk, live, bases, left, errs, cut>>

(* The final export; then that snapshot goes, or a warning says it stays. *)
ExportFinal ==
    \/ /\ At("export2") /\ ExportVerified("prepared")
       /\ UNCHANGED <<drive, disk, sys, bases, left, errs, cut>>
    \/ /\ At("prepared")
       /\ \/ sys' = [sys EXCEPT !.residue = FALSE] /\ Fine
          \/ Fault /\ UNCHANGED sys
       /\ To("mount")
       /\ UNCHANGED <<drive, disk, live, bases, left, errs, cut>>

-----------------------------------------------------------------------------
(* Steps 13 to 16: the system mounted, its boot chain, the verdict. *)

(* Step 13: the root, /boot (bpool, or the copy into the new ext4 one) and *)
(* the ESP.  A /boot older than the root may lack the root's kernels.      *)
Older == \/ sys.got["boot"] = "base"
         \/ Layout(drive) = "ext4" /\ drive.held["copy"] = "old"

(* The dataset /boot is filled from: bpool's, or the copy of an ext4 one. *)
Source == IF Layout(drive) = "ext4" THEN "copy" ELSE "boot"

MountSystem ==
    /\ At("mount")
    /\ live' = [live EXCEPT !.mounted = TRUE]
    /\ \/ Exit("fatal") /\ Fault /\ UNCHANGED <<sys, errs>>
       \/ /\ To("chain")
          /\ LET there == sys.got[Source] # "none" IN
             \E filled \in IF there /\ Source = "copy" THEN BOOLEAN ELSE {there},
                gap \in IF Older THEN BOOLEAN ELSE {FALSE} :
               /\ IF filled = there THEN Fine ELSE Fault
               /\ sys' = [sys EXCEPT !.boot = IF filled THEN "filled" ELSE "none"]
               /\ errs' = errs \cup (IF gap THEN {"kernels"} ELSE {})
                               \cup (IF Source = "copy" /\ ~filled
                                     THEN {"copy"} ELSE {})
    /\ UNCHANGED <<drive, disk, bases, left, cut>>

(* Steps 14 and 15: the boot chain and the initrds; what fails is a line   *)
(* of the summary, and no kernel in /boot is one too.                      *)
BootChain ==
    /\ At("chain")
    /\ \/ /\ sys.boot = "filled" /\ Fine
          /\ sys' = [sys EXCEPT !.chain = TRUE] /\ UNCHANGED errs
       \/ /\ IF sys.boot = "filled" THEN Fault ELSE Fine
          /\ UNCHANGED sys /\ errs' = errs \cup {"chain"}
    /\ To("verdict")
    /\ UNCHANGED <<drive, disk, live, bases, left, cut>>

(* Step 16: the banner is about the error lines alone. *)
Judge ==
    /\ At("verdict") /\ Fine
    /\ Exit(IF errs = {} THEN "complete" ELSE "errors")
    /\ UNCHANGED <<drive, disk, live, sys, bases, left, errs, cut>>

-----------------------------------------------------------------------------
(* The ends of a run. *)

(* Mutant: a failed export stops the cleanup before the key's directory. *)
ReleasedPools(failed) ==
    LET kept == live.imported \ (live.tracked \ failed) IN
    [live EXCEPT !.imported = kept, !.tracked = {},
                 !.stuck = (@ \cup failed) \cap kept,
                 !.keystore = IF @ = "tracked" THEN "shut" ELSE @,
                 !.key = IF failed = {} THEN @ \ {"run"} ELSE @,
                 !.mounted = @ /\ "rpool" \in kept]

(* The cleanup: mounts, the tracked keystore, the tracked pools, the key's *)
(* directory.  A keystore that is open and not tracked holds its pool; a   *)
(* failed export is a warning, and the rest still runs.                    *)
Released(failed) ==
    LET kept == live.imported \ (live.tracked \ failed) IN
    [live EXCEPT !.imported = kept, !.tracked = {},
                 !.stuck = (@ \cup failed) \cap kept,
                 !.keystore = IF @ = "tracked" THEN "shut" ELSE @,
                 !.key = @ \ {"run"}, !.mounted = @ /\ "rpool" \in kept]

Held == IF live.keystore = "open" THEN live.tracked \cap {"zark"} ELSE {}

CleanUp ==
    /\ At("cleanup")
    /\ \E failed \in {f \in SUBSET (live.tracked \cap live.imported) :
                        Held \subseteq f /\ Cardinality(f \ Held) <= 1} :
          /\ live' = Released(failed)
          /\ IF failed = Held THEN Fine ELSE Fault
    /\ pc' = "idle"
    /\ UNCHANGED <<drive, disk, sys, bases, left, errs, verdict, cut>>

Steps == {"import", "track", "unlock", "kept", "plan", "target", "confirm",
          "erase", "pools", "btrack", "rpool", "rtrack", "receive",
          "export1", "export1b", "keys", "excluded", "reimport", "retrack",
          "bpool", "keystore", "export2", "prepared", "mount", "chain", "verdict"}

(* The pool a step has imported, or whose keystore it has opened, and has  *)
(* not told the cleanup of yet.                                            *)
Untracked(step) == CASE step \in {"track", "kept", "retrack"} -> {"zark"}
                     [] step = "btrack" -> {"bpool"}
                     [] step = "rtrack" -> {"rpool"}
                     [] OTHER -> {}

(* SIGINT, SIGTERM or SIGHUP: the command unwinds to its cleanup, during   *)
(* which a second one is ignored.                                          *)
Interrupt ==
    /\ pc \in Steps /\ Fault
    /\ Exit("stopped") /\ cut' = pc
    /\ live' = [live EXCEPT !.stuck = @ \cup Untracked(pc)]
    /\ UNCHANGED <<drive, disk, sys, bases, left, errs>>

(* SIGKILL: no cleanup; the session keeps what the run held. *)
Kill ==
    /\ pc \in Steps \cup {"cleanup"} /\ Fault
    /\ pc' = "idle" /\ verdict' = "killed" /\ cut' = pc
    /\ live' = [live EXCEPT !.tracked = {}, !.stuck = live.imported,
                            !.keystore = IF @ = "shut" THEN @ ELSE "open",
                            !.key = IF "run" \in @ THEN {"stray"} ELSE @]
    /\ UNCHANGED <<drive, disk, sys, bases, left, errs>>

(* The operator reboots the live USB. *)
Reboot ==
    /\ At("idle") /\ live # NoSession
    /\ live' = NoSession
    /\ UNCHANGED <<pc, drive, disk, sys, bases, left, errs, verdict, cut, faults>>

Read == \/ Scan \/ ImportDrive \/ TrackDrive \/ OpenKeystore \/ KeepKey
        \/ Plan \/ Preflight \/ Confirm

Write == \/ Erase \/ CreateBpool \/ CreateRpool \/ Receive \/ Anchor
         \/ CloseKeystore \/ ExportDrive \/ Rekey \/ CreateExcluded
         \/ Reimport \/ RestoreBpool \/ RestoreKeystore \/ ExportFinal
         \/ MountSystem \/ BootChain \/ Judge \/ CleanUp

(* Restored: the operator removes the live USB. *)
Done == At("idle") /\ verdict \in {"complete", "errors"} /\ UNCHANGED vars

Next == Read \/ Write \/ Interrupt \/ Kill \/ Reboot \/ Done

(* The command runs on; the operator runs it again until it restores the   *)
(* system, and reboots the live when it keeps being refused.               *)
Spec == Init /\ [][Next]_vars /\ WF_vars(Read \/ Write) /\ SF_vars(Reboot)

-----------------------------------------------------------------------------
(* Properties. *)

TypeOK ==
    /\ pc \in Steps \cup {"idle", "cleanup"} /\ drive \in Drives
    /\ disk \in {"old", "erased", "laid"} /\ live \in LiveType
    /\ sys \in SysType /\ bases \in BOOLEAN
    /\ left \in Seq(RpoolRows) /\ verdict \in Verdicts
    /\ errs \subseteq {"receive", "anchor", "key", "empty", "bpool",
                       "kernels", "copy", "chain", "flag"}
    /\ cut \in Steps \cup {"", "cleanup"} /\ faults \in 0..MaxFaults

(* The disk is erased only with everything it takes to fill it again on    *)
(* the drive: the boot environment, the keystore, the source of /boot an   *)
(* ext4 point has no other of, a layout that is the point's own, and no    *)
(* other pool of a system imported (_preflight, refuse_unrecoverable).     *)
CanBoot(d) ==
    /\ d.held["be"] # "gone" /\ d.keystore /\ d.size # "big"
    /\ d.rec # "bad"
    /\ d.marked /\ d.rec # "bpool" => d.rec = "ext4" /\ d.held["copy"] # "gone"

ErasedToFill ==
    disk # "old" => CanBoot(drive)

EraseAlone ==
    [][disk' # "old" /\ pc = "erase" => live.imported = {"zark"}]_vars

(* No zvol is on the system while keys are changed, datasets are made and  *)
(* properties set (steps 10 to 11), nor another pool's than the restored   *)
(* one while the system is mounted (_export_verified; chase.c:648).        *)
NoZvols ==
    /\ pc \in {"keys", "excluded"} => ~Zvols
    /\ pc \in {"mount", "chain", "verdict"} => "zark" \notin live.imported

(* RECOVERY COMPLETE: every dataset of the plan is at its point and is the *)
(* drive's anchor, what the point left out is there empty, the keystore is *)
(* back, /boot is filled and the boot chain written (run, step 16).        *)
CompleteRestored ==
    verdict = "complete" =>
        /\ \A r \in RowsOf(drive) \cup {Source} :
              sys.got[r] = "goal" /\ r \in sys.anchored
        /\ sys.made = EmptyRows(drive)
        /\ sys.unsnapped = {r \in drive.unsnapped : Restored(drive, r)}
        /\ sys.keystore /\ sys.boot = "filled" /\ sys.chain

(* Every exit that zark handles releases what the run took: the copy of    *)
(* the key is gone, and a pool stays imported only where its export failed *)
(* or the signal met it before it was tracked (Cleanup).                   *)
KeyGone == pc = "idle" => "run" \notin live.key

LetGo == pc = "idle" => live.imported \subseteq live.stuck

(* Whatever failed, was signalled or killed on the way, the drive that can *)
(* restore its system restores it in the end: no run leaves the disk or    *)
(* the live in a state the next one, after a reboot, refuses for good.     *)
Restores == <>(CanBoot(drive) /\ ~drive.lacking => verdict \in {"complete", "errors"})

(* EraseSafe: a disk is erased only when it can be filled again, and with  *)
(* no other pool than the drive's imported.                                *)
EraseSafe == []ErasedToFill /\ EraseAlone

(* EndsTrue: how a run ends is true of what it leaves: COMPLETE of the     *)
(* system, every handled ending of the key and of the pools.               *)
EndsTrue == CompleteRestored /\ KeyGone /\ LetGo
=============================================================================
