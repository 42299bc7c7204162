------------------------------- MODULE Mounts -------------------------------
(***************************************************************************)
(* What zark leaves mounted, imported and open for the operator, and how   *)
(* it is released: `zark mount`, `mount local`, `chroot`, `umount`,        *)
(* `umount local`, `clean` and `fix-rpool-mountpoint`, one at a time (they *)
(* hold zark's lock), on the running system or in a live session.  A       *)
(* command may fail, a signal or a kill may arrive at any step, a process  *)
(* may sit in a mounted tree, and a service started meanwhile holds copies *)
(* of the mounts in a mount namespace of its own.                          *)
(*                                                                         *)
(* Modelled: src/commands/mount.py, umount.py, clean.py, chroot.py and     *)
(* fix_rpool_mountpoint.py, lib/mount.py, lib/keystore.py, lib/cleanup.py  *)
(* and the imports and exports of lib/zfs.py.                              *)
(***************************************************************************)
EXTENDS Naturals, Sequences, FiniteSets

CONSTANTS MaxRuns,    \* commands of a behaviour, besides `zark clean`
          MaxFaults,  \* commands that fail, signals and kills
          MaxGuests   \* processes, services and binds of other programs

ASSUME BoundsAssumption == MaxRuns \in Nat /\ MaxFaults \in Nat /\ MaxGuests \in Nat

Pools == {"backup", "rpool", "bpool"}
Keyed == {"backup", "rpool"}        \* the pools that hold a keystore zvol

VARIABLES
    running,   \* the installed system runs; else a live session
    ext4,      \* the installed system's /boot is an ext4 partition
    pool,      \* "out", "own" (no altroot), "zark" (under /mnt/zark) or
               \* "alt" (under /run/zark/altroot)
    zvols,     \* the imported pools whose zvols have devices
    inhibit,   \* zvol_inhibit_dev
    mapper,    \* the pools whose keystore is open (zark_ks_<pool>)
    stack,     \* the mounts at KEYSTORE_MOUNT, the visible one last
    mnt,       \* the pools with datasets mounted in their tree
    bound,     \* the trees holding a mount that is not a dataset
    copies,    \* the pools whose mounts another namespace holds
    busy,      \* the pools a process uses a directory of
    dirs,      \* the pools whose directory under /mnt/zark exists
    wiped,     \* a directory inside the backup was deleted
    landed,    \* where the mounts of the trees landed: "in" them, "over"
               \* a tree's root, or "outside" (on the session's own files)
    rmp,       \* rpool's stored mountpoint, "none" or "/"
    inherits,  \* canmount of the dataset that inherits it: "on" or "off"
    run,       \* the command that runs: see RunType
    said,      \* the last banner, until the next command starts
    runs, faults, guests

held == <<pool, zvols, mapper, stack, mnt, bound, copies, dirs, wiped>>
system == <<running, ext4, landed>>
props == <<rmp, inherits>>
vars == <<system, held, inhibit, busy, props, run, said, runs, faults, guests>>

(* ending: Cleanup runs, after a signal or a failure ("exit") or the end   *)
(* of the shell ("end"); flag: Keystore._mounted; pools: the pools Cleanup *)
(* tracks, or the ones still to export; ks: the keystore is tracked; mnts: *)
(* the tracked mounts; stuck: exports that failed; inv: clean's inventory. *)
Commands == {"mount", "local", "chroot", "umount", "umount local", "clean", "fix"}

Idle == [cmd |-> "none", pc |-> "", pool |-> "backup", ending |-> "no",
         flag |-> FALSE, ks |-> FALSE, mnts |-> {}, pools |-> <<>>, stuck |-> {},
         inv |-> [mounts |-> {}, mapper |-> {}, ksm |-> FALSE, inhibit |-> FALSE],
         prev |-> FALSE, fixed |-> FALSE]

Pcs == {"", "import", "track", "open", "ksmount", "key", "track ks", "root", "boot",
        "track boot", "last", "leave", "shell", "cleanup", "tree", "attach",
        "ksumount", "ksclose", "export", "elsewhere", "again", "judge",
        "clean trees", "clean ks", "clean close", "clean inhibit", "clean judge",
        "inhibit", "fix check", "fix off", "fix set", "fix export", "fix restore"}

Banners == {"", "MOUNTED", "CHROOT CLOSED", "CHROOT NOT CLOSED", "NOT UNMOUNTED",
            "BACKUP UNMOUNTED", "SYSTEM UNMOUNTED", "NOTHING LEFT",
            "CLEANUP COMPLETE", "CLEANUP INCOMPLETE", "FIXED", "NOT FIXED"}

RunType == [cmd : Commands \cup {"none"}, pc : Pcs, pool : Keyed,
            ending : {"no", "exit", "end"}, flag : BOOLEAN, ks : BOOLEAN,
            mnts : SUBSET Pools, pools : Seq(Pools), stuck : SUBSET Pools,
            inv : [mounts : SUBSET Pools, mapper : SUBSET Keyed,
                   ksm : BOOLEAN, inhibit : BOOLEAN],
            prev : BOOLEAN, fixed : BOOLEAN]

Init ==
    /\ running \in BOOLEAN /\ ext4 \in BOOLEAN
    /\ pool = [p \in Pools |->
                 IF running /\ p # "backup" /\ ~(ext4 /\ p = "bpool") THEN "own" ELSE "out"]
    /\ zvols = (IF running THEN {"rpool"} ELSE {})
    /\ inhibit = FALSE
    /\ mapper = {} /\ stack = (IF running THEN <<"live">> ELSE <<>>)
    /\ mnt = {} /\ bound = {} /\ copies = {} /\ busy = {} /\ dirs = {} /\ wiped = FALSE
    /\ landed = "in"
    /\ rmp \in {"none", "/"} /\ inherits = "on"
    /\ run = Idle /\ said = "" /\ runs = 0 /\ faults = 0 /\ guests = 0

-----------------------------------------------------------------------------
(* Steps shared by the commands. *)

At(pc) == run.cmd # "none" /\ run.pc = pc
Go(pc) == run' = [run EXCEPT !.pc = pc]
Fault == faults < MaxFaults /\ faults' = faults + 1

(* log.fatal, an exception or a signal: the command unwinds and Cleanup,   *)
(* or the finally of fix-rpool-mountpoint, runs.                           *)
Unwound == CASE run.cmd = "fix" -> [run EXCEPT !.pc = "fix export"]
             [] run.cmd \in {"mount", "local", "chroot"} ->
                  [run EXCEPT !.pc = "cleanup", !.ending = "exit"]
             [] OTHER -> Idle
Exit == run' = Unwound

End(banner) == run' = Idle /\ said' = banner

Zark == {p \in Pools : pool[p] \in {"zark", "alt"}}
InTree(p) == IF p = "backup" THEN {"backup"} ELSE {"rpool", "bpool"}
Stacked == {stack[i] : i \in 1..Len(stack)}

(* bpool first: it sits under rpool's tree. *)
InOrder(ps) ==
    LET one(p) == IF p \in ps THEN <<p>> ELSE <<>>
    IN one("bpool") \o one("backup") \o one("rpool")

(* External: ZFS exports a pool nothing uses: no process, no copy in       *)
(* another namespace, no mapper on its zvol, no foreign mount below its    *)
(* datasets.  It unmounts the datasets it still finds mounted here.        *)
CanExport(p) ==
    /\ p \notin busy \cup copies \cup mapper
    /\ p \in mnt => p \notin bound /\ (p = "rpool" => "bpool" \notin mnt)

Gone(p) ==
    /\ pool' = [pool EXCEPT ![p] = "out"]
    /\ zvols' = zvols \ {p} /\ mnt' = mnt \ {p}
    /\ UNCHANGED <<mapper, stack, bound, copies, dirs, wiped>>

(* External: an unmount here reaches the copies of other namespaces,       *)
(* unless a mount that is not a dataset sat below.                         *)
Propagated(ps) == {copies \ ps} \cup (IF bound \cap ps # {} THEN {copies} ELSE {})

(* _unmount_tree: the binds first, then umount -R; a process keeps the     *)
(* mount it is in, and the parents of it.                                  *)
Kept(ps) == {p \in mnt \cap ps : \/ p \in busy
                                 \/ p = "rpool" /\ "bpool" \in mnt \cap busy}

UnmountTree(ps) ==
    /\ mnt' = (mnt \ ps) \cup Kept(ps)
    /\ bound' = bound \ ps
    /\ copies' \in Propagated(ps)
    /\ UNCHANGED <<pool, zvols, mapper, stack, dirs, wiped>>

-----------------------------------------------------------------------------
(* The starts: what each command refuses, and its first step. *)

Start(cmd, r) ==
    /\ run.cmd = "none" /\ runs < MaxRuns /\ runs' = runs + 1
    /\ run' = [r EXCEPT !.cmd = cmd] /\ said' = ""
    /\ UNCHANGED <<system, held, inhibit, busy, props, faults, guests>>

(* A pool already imported is left as it is. *)
StartMount ==
    /\ pool["backup"] = "out"
    /\ Start("mount", [Idle EXCEPT !.pc = "import"])

(* rpool imported is the running system, or a leftover: both refuse it. *)
StartLocal ==
    /\ pool["rpool"] = "out"
    /\ \E cmd \in {"local", "chroot"} :
         Start(cmd, [Idle EXCEPT !.pc = "import", !.pool = "rpool"])

StartUmount ==
    /\ pool["backup"] # "out"
    /\ Start("umount", [Idle EXCEPT !.pc = "tree"])

(* Only a pool under /mnt/zark: the running system's has no altroot, and   *)
(* the one of a killed fix-rpool-mountpoint is clean's to export.          *)
StartUmountLocal ==
    /\ pool["rpool"] = "zark"
    /\ Start("umount local", [Idle EXCEPT !.pc = "tree", !.pool = "rpool"])

StartFix ==
    /\ ~running /\ pool["rpool"] = "out" /\ zvols = {}
    /\ Start("fix", [Idle EXCEPT !.pc = "inhibit", !.pool = "rpool", !.prev = inhibit])

-----------------------------------------------------------------------------
(* mount, mount local, chroot: import, keystore, keys, datasets. *)

(* The import makes the mount directory; zvol devices appear with it       *)
(* unless they are inhibited.                                              *)
Imported(p) ==
    /\ pool' = [pool EXCEPT ![p] = IF run.cmd = "fix" THEN "alt" ELSE "zark"]
    /\ zvols' = (IF inhibit THEN zvols ELSE zvols \cup ({p} \cap Keyed))
    /\ dirs' = dirs \cup {p}
    /\ UNCHANGED <<mapper, stack, mnt, bound, copies, wiped>>

Import ==
    /\ At("import")
    /\ \/ /\ Imported(run.pool)
          /\ Go(IF run.cmd = "fix" THEN "fix check" ELSE "track")
          /\ UNCHANGED faults
       \/ Fault /\ Exit /\ UNCHANGED held
    /\ UNCHANGED <<system, inhibit, busy, props, said, runs, guests>>

Track ==
    /\ At("track")
    /\ run' = [run EXCEPT !.pc = "open", !.pools = Append(@, run.pool)]
    /\ UNCHANGED <<system, held, inhibit, busy, props, said, runs, faults, guests>>

(* Keystore.mount: the zvol's device, cryptsetup open (three passphrases). *)
KsOpen ==
    /\ At("open")
    /\ \/ /\ run.pool \in zvols /\ mapper' = mapper \cup {run.pool} /\ Go("ksmount")
          /\ UNCHANGED faults
       \/ run.pool \notin zvols /\ Exit /\ UNCHANGED <<mapper, faults>>
       \/ Fault /\ Exit /\ UNCHANGED mapper
    /\ UNCHANGED <<system, pool, zvols, stack, mnt, bound, copies, dirs, wiped,
                   inhibit, busy, props, said, runs, guests>>

(* The mapper mounted over whatever is there; closed when it cannot be. *)
KsMount ==
    /\ At("ksmount")
    /\ \/ stack' = Append(stack, run.pool) /\ Go("key") /\ UNCHANGED <<mapper, faults>>
       \/ Fault /\ mapper' = mapper \ {run.pool} /\ Exit /\ UNCHANGED stack
    /\ UNCHANGED <<system, pool, zvols, mnt, bound, copies, dirs, wiped,
                   inhibit, busy, props, said, runs, guests>>

(* system.key, and the keys loaded with it; without one, umount() returns  *)
(* at once (_mounted is not set yet) and the keystore stays mounted.       *)
KsKey ==
    /\ At("key")
    /\ \/ /\ run' = [run EXCEPT !.flag = TRUE,
                                !.pc = IF run.cmd = "mount" THEN "ksumount" ELSE "track ks"]
          /\ UNCHANGED faults
       \/ Fault /\ Exit
    /\ UNCHANGED <<system, held, inhibit, busy, props, said, runs, guests>>

TrackKs ==
    /\ At("track ks")
    /\ run' = [run EXCEPT !.ks = TRUE, !.pc = "root"]
    /\ UNCHANGED <<system, held, inhibit, busy, props, said, runs, faults, guests>>

(* The datasets below a root, by what mounting them meets: a plain path,   *)
(* one that crosses a link inside the tree ("inner"), an absolute link     *)
(* that names a path of the tree ("away"), a link to the root ("up"), a    *)
(* loop of links, a missing directory; an archived lineage, another boot   *)
(* environment (mountpoint=/), one that origin does not mount.             *)
Kinds == {"plain", "inner", "away", "up", "loop", "missing", "archived", "other", "off"}

(* Only this boot environment's, and the ones origin mounts at a path. *)
Planned(k) == k \notin {"archived", "other", "off"}

(* As a chroot at the tree's root would walk it. *)
ResolveInTree(k) ==
    CASE k \in {"plain", "inner", "away", "missing"} -> "in"
      [] k = "up" -> "root"
      [] k = "loop" -> "none"
      [] k = "other" -> "root"

(* As the session's own path walk does: an absolute link leaves the tree. *)
RealPath(k) == IF k = "away" THEN "outside" ELSE ResolveInTree(k)

(* Read-only resolved inside the tree, read-write refused when it leaves   *)
(* it; the root itself is never a target of another dataset.               *)
LayoutTarget(k, readonly) ==
    LET to == IF readonly THEN ResolveInTree(k) ELSE RealPath(k) IN
    IF k # "other" /\ to # "in" THEN "skipped" ELSE to

(* Where a dataset of the tree lands: no directory is made in a backup. *)
Landing(k, readonly) ==
    LET to == IF Planned(k) THEN LayoutTarget(k, readonly) ELSE "skipped" IN
    CASE to = "root" -> "over" [] to = "outside" -> "outside" [] OTHER -> landed

(* The root dataset and one mounted below it (zark mount tracks none of    *)
(* them: the export unmounts them).  A skipped one is only named.          *)
Root ==
    /\ At("root")
    /\ \/ /\ mnt' = mnt \cup {run.pool}
          /\ \E k \in Kinds, readonly \in BOOLEAN : landed' = Landing(k, readonly)
          /\ run' = [run EXCEPT !.pc = IF run.cmd = "mount" THEN "leave" ELSE "boot",
                                !.mnts = IF run.cmd = "mount" THEN @ ELSE @ \cup {"rpool"}]
          /\ UNCHANGED faults
       \/ Fault /\ Exit /\ UNCHANGED <<mnt, landed>>
    /\ UNCHANGED <<running, ext4, pool, zvols, mapper, stack, bound, copies, dirs,
                   wiped, inhibit, busy, props, said, runs, guests>>

(* /boot as an ext4 partition that fstab names, on a disk of rpool's; the  *)
(* mount may fail: /boot is not needed to go on.                           *)
BootExt4 ==
    /\ At("boot") /\ ext4 /\ Go("last")
    /\ \/ bound' = bound \cup {"rpool"} /\ UNCHANGED faults
       \/ Fault /\ UNCHANGED bound
    /\ UNCHANGED <<system, pool, zvols, mapper, stack, mnt, copies, dirs, wiped,
                   inhibit, busy, props, said, runs, guests>>

(* Else bpool, imported under the same altroot, or left out. *)
BootPool ==
    /\ At("boot") /\ ~ext4
    /\ \/ Imported("bpool") /\ Go("track boot") /\ UNCHANGED faults
       \/ Fault /\ Go("last") /\ UNCHANGED held
    /\ UNCHANGED <<system, inhibit, busy, props, said, runs, guests>>

TrackBoot ==
    /\ At("track boot")
    /\ mnt' = mnt \cup {"bpool"}
    /\ run' = [run EXCEPT !.pc = "last", !.pools = Append(@, "bpool"),
                          !.mnts = @ \cup {"bpool"}]
    /\ UNCHANGED <<system, pool, zvols, mapper, stack, bound, copies, dirs, wiped,
                   inhibit, busy, props, said, runs, faults, guests>>

(* chroot binds /proc, /sys, /dev and the ESP, and waits for the shell. *)
Last ==
    /\ At("last")
    /\ IF run.cmd = "local" THEN Go("leave") /\ UNCHANGED bound
       ELSE Go("shell") /\ bound' = bound \cup {"rpool"}
    /\ UNCHANGED <<system, pool, zvols, mapper, stack, mnt, copies, dirs, wiped,
                   inhibit, busy, props, said, runs, faults, guests>>

(* The banner, and cleanup.disable: everything stays for the operator. *)
Leave ==
    /\ At("leave") /\ End("MOUNTED")
    /\ UNCHANGED <<system, held, inhibit, busy, props, runs, faults, guests>>

Shell ==
    /\ At("shell")
    /\ run' = [run EXCEPT !.pc = "cleanup", !.ending = "end"]
    /\ UNCHANGED <<system, held, inhibit, busy, props, said, runs, faults, guests>>

-----------------------------------------------------------------------------
(* Cleanup._run, the signals ignored: mounts, keystores, exports. *)

(* umount of every tracked mount, umount -l when it is in use. *)
CleanUp ==
    /\ At("cleanup")
    /\ LET tree == IF run.mnts = {} THEN {} ELSE InTree("rpool") IN
         /\ mnt' = mnt \ run.mnts
         /\ bound' = bound \ tree
         /\ copies' \in Propagated(tree)
    /\ Go(IF run.ks THEN "ksumount" ELSE "export")
    /\ UNCHANGED <<system, pool, zvols, mapper, stack, dirs, wiped,
                   inhibit, busy, props, said, runs, faults, guests>>

-----------------------------------------------------------------------------
(* Keystore.umount: whatever is visible at KEYSTORE_MOUNT is unmounted,    *)
(* then the pool's mapper closed (it cannot be while it is mounted).       *)

AfterKs == IF run.cmd = "mount" THEN "root" ELSE "export"

(* attach_to_pool, then the pools to export, bpool first. *)
Attach ==
    /\ At("attach")
    /\ run' = [run EXCEPT !.pc = "ksumount", !.flag = run.pool \in mapper,
                          !.pools = InOrder({p \in InTree(run.pool) : pool[p] # "out"})]
    /\ UNCHANGED <<system, held, inhibit, busy, props, said, runs, faults, guests>>

KsUmount ==
    /\ At("ksumount")
    /\ \/ ~run.flag /\ Go(AfterKs) /\ UNCHANGED <<stack, faults>>
       \/ /\ run.flag /\ Go("ksclose") /\ UNCHANGED faults
          /\ stack' = IF stack = <<>> THEN stack ELSE SubSeq(stack, 1, Len(stack) - 1)
       \/ run.flag /\ Fault /\ Go("ksclose") /\ UNCHANGED stack
    /\ UNCHANGED <<system, pool, zvols, mapper, mnt, bound, copies, dirs, wiped,
                   inhibit, busy, props, said, runs, guests>>

KsClose ==
    /\ At("ksclose")
    /\ run' = [run EXCEPT !.flag = FALSE, !.pc = AfterKs]
    /\ \/ mapper' = mapper \ ({run.pool} \ Stacked) /\ UNCHANGED faults
       \/ Fault /\ UNCHANGED mapper
    /\ UNCHANGED <<system, pool, zvols, stack, mnt, bound, copies, dirs, wiped,
                   inhibit, busy, props, said, runs, guests>>

-----------------------------------------------------------------------------
(* zpool export, then zpool export -f, one pool after the other. *)

Export ==
    /\ At("export") \/ At("again")
    /\ run.pools # <<>>
    /\ LET p == Head(run.pools) IN
         \/ /\ CanExport(p) /\ Gone(p) /\ UNCHANGED faults
            /\ run' = [run EXCEPT !.pools = Tail(@)]
         \/ /\ (~CanExport(p) /\ UNCHANGED faults) \/ Fault
            /\ run' = [run EXCEPT !.pools = Tail(@), !.stuck = @ \cup {p}]
            /\ UNCHANGED held
    /\ UNCHANGED <<system, inhibit, busy, props, said, runs, guests>>

(* A busy pool: the copies of other namespaces are released where they     *)
(* are, and the export is tried again.                                     *)
Exported ==
    /\ At("export") /\ run.pools = <<>> /\ run.ending = "no"
    /\ Go(IF run.stuck # {} THEN "elsewhere"
          ELSE IF run.cmd = "clean" THEN "clean inhibit" ELSE "judge")
    /\ UNCHANGED <<system, held, inhibit, busy, props, said, runs, faults, guests>>

(* release_elsewhere: the copies of the pools being released, at or below  *)
(* the tree; clean knows only the trees it has just unmounted.             *)
Reached == IF run.cmd = "clean"
           THEN UNION {InTree(p) : p \in run.inv.mounts} ELSE InTree(run.pool)

Elsewhere ==
    /\ At("elsewhere")
    /\ \/ copies' = copies \ Reached /\ UNCHANGED faults
       \/ Fault /\ UNCHANGED copies
    /\ run' = [run EXCEPT !.pc = "again", !.pools = InOrder(run.stuck), !.stuck = {}]
    /\ UNCHANGED <<system, pool, zvols, mapper, stack, mnt, bound, dirs, wiped,
                   inhibit, busy, props, said, runs, guests>>

(* Once: what is still busy stays imported. *)
Again ==
    /\ At("again") /\ run.pools = <<>>
    /\ Go(IF run.cmd = "clean" THEN "clean inhibit" ELSE "judge")
    /\ UNCHANGED <<system, held, inhibit, busy, props, said, runs, faults, guests>>

(* The end of Cleanup; chroot looks at the pools again for its banner. *)
Cleaned ==
    /\ At("export") /\ run.pools = <<>> /\ run.ending # "no"
    /\ End(IF run.ending = "exit" THEN ""
           ELSE IF {"rpool", "bpool"} \cap Zark = {} THEN "CHROOT CLOSED"
           ELSE "CHROOT NOT CLOSED")
    /\ UNCHANGED <<system, held, inhibit, busy, props, runs, faults, guests>>

-----------------------------------------------------------------------------
(* umount and umount local. *)

Tree ==
    /\ At("tree")
    /\ UnmountTree(InTree(run.pool)) /\ Go("attach")
    /\ UNCHANGED <<system, inhibit, busy, props, said, runs, faults, guests>>

(* The directories of the backup's tree go only once it is exported: with  *)
(* the pool mounted there, find would delete inside the backup.            *)
Judge ==
    /\ At("judge")
    /\ IF run.stuck = {} /\ run.cmd = "umount"
       THEN dirs' = dirs \ {run.pool} /\ wiped' = (wiped \/ run.pool \in mnt)
       ELSE UNCHANGED <<dirs, wiped>>
    /\ End(IF run.stuck # {} THEN "NOT UNMOUNTED"
           ELSE IF run.cmd = "umount" THEN "BACKUP UNMOUNTED" ELSE "SYSTEM UNMOUNTED")
    /\ UNCHANGED <<system, pool, zvols, mapper, stack, mnt, bound, copies,
                   inhibit, busy, props, runs, faults, guests>>

-----------------------------------------------------------------------------
(* clean: the inventory, then only what it holds. *)

(* Mutant: any mount at KEYSTORE_MOUNT is taken for zark's. *)
KsMountedAny == stack # <<>>

(* The visible mount at KEYSTORE_MOUNT is a zark mapper. *)
KsMounted == stack # <<>> /\ stack[Len(stack)] # "live"

(* A tree is found through its mounts, datasets or not. *)
Inventory == [mounts |-> mnt \cup bound, mapper |-> mapper,
              ksm |-> KsMounted, inhibit |-> inhibit]

Empty == mnt \cup bound \cup Zark \cup mapper = {} /\ ~KsMounted /\ ~inhibit

(* Nothing found: the empty directories go and clean ends; else the        *)
(* operator is asked.                                                      *)
StartClean ==
    /\ run.cmd = "none" /\ (dirs # {} \/ ~Empty)
    /\ IF Empty THEN dirs' = {} /\ End("NOTHING LEFT")
       ELSE /\ run' = [Idle EXCEPT !.cmd = "clean", !.pc = "clean trees",
                                   !.inv = Inventory, !.pools = InOrder(Zark)]
            /\ said' = "" /\ UNCHANGED dirs
    /\ UNCHANGED <<system, pool, zvols, mapper, stack, mnt, bound, copies, wiped,
                   inhibit, busy, props, runs, faults, guests>>

CleanTrees ==
    /\ At("clean trees")
    /\ UnmountTree(UNION {InTree(p) : p \in run.inv.mounts}) /\ Go("clean ks")
    /\ UNCHANGED <<system, inhibit, busy, props, said, runs, faults, guests>>

CleanKs ==
    /\ At("clean ks") /\ Go("clean close")
    /\ \/ /\ stack' = IF run.inv.ksm THEN SubSeq(stack, 1, Len(stack) - 1) ELSE stack
          /\ UNCHANGED faults
       \/ run.inv.ksm /\ Fault /\ UNCHANGED stack
    /\ UNCHANGED <<system, pool, zvols, mapper, mnt, bound, copies, dirs, wiped,
                   inhibit, busy, props, said, runs, guests>>

CleanClose ==
    /\ At("clean close") /\ Go("export")
    /\ \/ mapper' = mapper \ (run.inv.mapper \ Stacked) /\ UNCHANGED faults
       \/ Fault /\ UNCHANGED mapper
    /\ UNCHANGED <<system, pool, zvols, stack, mnt, bound, copies, dirs, wiped,
                   inhibit, busy, props, said, runs, guests>>

(* Mutant: the parameter is left as the killed run set it. *)
CleanInhibitKept ==
    /\ At("clean inhibit") /\ Go("clean judge")
    /\ UNCHANGED <<system, held, inhibit, busy, props, said, runs, faults, guests>>

(* Only with none of zark's pools still imported; the write may fail. *)
CleanInhibit ==
    /\ At("clean inhibit") /\ Go("clean judge")
    /\ \/ inhibit' = (inhibit /\ ~(run.inv.inhibit /\ Zark = {})) /\ UNCHANGED faults
       \/ run.inv.inhibit /\ Fault /\ UNCHANGED inhibit
    /\ UNCHANGED <<system, held, busy, props, said, runs, guests>>

(* Mutant: clean reports on the pools alone. *)
CleanJudgePools ==
    /\ At("clean judge")
    /\ UNCHANGED dirs
    /\ End(IF Zark = {} THEN "CLEANUP COMPLETE" ELSE "CLEANUP INCOMPLETE")
    /\ UNCHANGED <<system, pool, zvols, mapper, stack, mnt, bound, copies, wiped,
                   inhibit, busy, props, runs, faults, guests>>

(* The inventory again; no directory goes while a mount or a pool is left. *)
CleanJudge ==
    /\ At("clean judge")
    /\ dirs' = (IF mnt \cup bound \cup Zark = {} THEN {} ELSE dirs)
    /\ End(IF Empty THEN "CLEANUP COMPLETE" ELSE "CLEANUP INCOMPLETE")
    /\ UNCHANGED <<system, pool, zvols, mapper, stack, mnt, bound, copies, wiped,
                   inhibit, busy, props, runs, faults, guests>>

-----------------------------------------------------------------------------
(* fix-rpool-mountpoint. *)

FixInhibit ==
    /\ At("inhibit") /\ inhibit' = TRUE /\ Go("import")
    /\ UNCHANGED <<system, held, busy, props, said, runs, faults, guests>>

(* A zvol device after all, a pool that needs no fix or that the operator  *)
(* leaves alone ends here; a dataset that would start to mount is turned   *)
(* off first, or kept by its name typed.                                   *)
FixCheck ==
    /\ At("fix check")
    /\ \/ (zvols # {} \/ rmp = "/") /\ run' = [Unwound EXCEPT !.fixed = zvols = {}]
       \/ Exit
       \/ zvols = {} /\ rmp = "none" /\ \E pc \in {"fix off", "fix set"} : Go(pc)
    /\ UNCHANGED <<system, held, inhibit, busy, props, said, runs, faults, guests>>

(* Judged by the property: a set that failed leaves the mountpoint alone. *)
FixOff ==
    /\ At("fix off")
    /\ \/ inherits' = "off" /\ Go("fix set") /\ UNCHANGED faults
       \/ Fault /\ Exit /\ UNCHANGED inherits
    /\ UNCHANGED <<system, held, inhibit, busy, rmp, said, runs, guests>>

FixSet ==
    /\ At("fix set")
    /\ \/ rmp' = "/" /\ run' = [Unwound EXCEPT !.fixed = TRUE] /\ UNCHANGED faults
       \/ Fault /\ Exit /\ UNCHANGED rmp
    /\ UNCHANGED <<system, held, inhibit, busy, inherits, said, runs, guests>>

(* The finally, the signals ignored: pool_export, true when not imported. *)
FixExport ==
    /\ At("fix export") /\ Go("fix restore")
    /\ \/ pool["rpool"] # "out" /\ CanExport("rpool") /\ Gone("rpool") /\ UNCHANGED faults
       \/ pool["rpool"] = "out" /\ UNCHANGED <<held, faults>>
       \/ pool["rpool"] # "out" /\ Fault /\ UNCHANGED held
    /\ UNCHANGED <<system, inhibit, busy, props, said, runs, guests>>

(* The value read at the start: 1 again when an earlier run was killed. *)
FixRestore ==
    /\ At("fix restore") /\ inhibit' = run.prev
    /\ End(IF run.fixed /\ pool["rpool"] = "out" THEN "FIXED" ELSE "NOT FIXED")
    /\ UNCHANGED <<system, held, busy, props, runs, faults, guests>>

-----------------------------------------------------------------------------
(* Signals, kills, and what other programs do meanwhile. *)

(* A command without Cleanup just ends; Cleanup and the finally of         *)
(* fix-rpool-mountpoint ignore the signals.                                *)
Signal ==
    /\ run.cmd # "none" /\ run.ending = "no"
    /\ run.pc \notin {"fix export", "fix restore", "shell"}
    /\ Fault /\ Exit
    /\ UNCHANGED <<system, held, inhibit, busy, props, said, runs, guests>>

(* External: SIGKILL, or the machine's memory killer. *)
Kill ==
    /\ run.cmd # "none" /\ Fault /\ run' = Idle
    /\ UNCHANGED <<system, held, inhibit, busy, props, said, runs, guests>>

(* External: a process enters a mounted tree and leaves; a service starts  *)
(* and copies the mounts it finds; the operator binds into the backup's    *)
(* tree, as the banner of zark mount tells how to.                         *)
Guest ==
    /\ guests < MaxGuests /\ guests' = guests + 1
    /\ \/ \E p \in mnt \ busy : busy' = busy \cup {p} /\ UNCHANGED <<copies, bound>>
       \/ mnt # {} /\ copies' = copies \cup mnt /\ UNCHANGED <<busy, bound>>
       \/ /\ "backup" \in mnt \ bound /\ run.cmd = "none"
          /\ bound' = bound \cup {"backup"} /\ UNCHANGED <<busy, copies>>
    /\ UNCHANGED <<system, pool, zvols, mapper, stack, mnt, dirs, wiped, inhibit,
                   props, run, said, runs, faults>>

GuestLeaves ==
    /\ \E p \in busy : busy' = busy \ {p}
    /\ UNCHANGED <<system, held, inhibit, props, run, said, runs, faults, guests>>

(* The last command of the behaviour has been run. *)
Finished ==
    /\ run.cmd = "none" /\ runs = MaxRuns
    /\ UNCHANGED vars

Opening == Import \/ Track \/ KsOpen \/ KsMount \/ KsKey \/ TrackKs \/ Root \/ BootExt4
             \/ BootPool \/ TrackBoot \/ Last \/ Leave
Closing == CleanUp \/ Attach \/ KsUmount \/ KsClose \/ Export \/ Exported \/ Elsewhere
             \/ Again \/ Cleaned \/ Tree \/ Judge
Cleaning == CleanTrees \/ CleanKs \/ CleanClose \/ CleanInhibit \/ CleanJudge
Fixing == FixInhibit \/ FixCheck \/ FixOff \/ FixSet \/ FixExport \/ FixRestore
Step == Opening \/ Closing \/ Cleaning \/ Fixing \/ Shell

Next ==
    \/ StartMount \/ StartLocal \/ StartUmount \/ StartUmountLocal \/ StartFix
    \/ StartClean \/ Step
    \/ Signal \/ Kill \/ Guest \/ GuestLeaves \/ Finished

(* A command that started goes on (its child processes return, the shell   *)
(* of a chroot is left), a process leaves the tree it is in, and the       *)
(* operator runs `zark clean` while it has something to release.           *)
Fairness == WF_vars(Step) /\ WF_vars(GuestLeaves) /\ WF_vars(StartClean)

Spec == Init /\ [][Next]_vars
FairSpec == Spec /\ Fairness

-----------------------------------------------------------------------------
(* Properties. *)

TypeOK ==
    /\ running \in BOOLEAN /\ ext4 \in BOOLEAN
    /\ pool \in [Pools -> {"out", "own", "zark", "alt"}]
    /\ zvols \subseteq Keyed /\ inhibit \in BOOLEAN
    /\ mapper \subseteq zvols /\ stack \in Seq(Keyed \cup {"live"})
    /\ mnt \subseteq Pools /\ bound \subseteq Keyed
    /\ copies \subseteq Pools /\ busy \subseteq Pools /\ dirs \subseteq Pools
    /\ wiped \in BOOLEAN /\ landed \in {"in", "over", "outside"}
    /\ rmp \in {"none", "/"} /\ inherits \in {"on", "off"}
    /\ run \in RunType /\ said \in Banners
    /\ runs \in 0..MaxRuns /\ faults \in 0..MaxFaults /\ guests \in 0..MaxGuests

(* The pools of the running system stay imported whatever is run: umount   *)
(* local and clean export only what sits under one of zark's altroots      *)
(* (umount.py _umount_local_system, clean.py inventory).                   *)
RunningKept ==
    running => pool["rpool"] = "own" /\ (ext4 \/ pool["bpool"] = "own")

(* No directory inside a backup is deleted while zark tidies its mount     *)
(* directories (umount.py run: only once the pool is gone).                *)
BackupWhole == ~wiped

(* No dataset of a backup or of an installed system is mounted over its    *)
(* tree's root or on the session's own files, whatever links its tree      *)
(* holds (mount.py layout_target, _in_other_boot_environment).             *)
InsideTree == landed = "in"

(* A banner that says everything is released is true of the pools, the     *)
(* mounts and the keystore (clean.py run, umount.py, chroot.py run).       *)
BannerTrue ==
    /\ said \in {"CLEANUP COMPLETE", "NOTHING LEFT"} =>
         Zark \cup mapper \cup mnt \cup bound = {} /\ ~inhibit
    /\ said = "BACKUP UNMOUNTED" =>
         "backup" \notin Zark \cup mapper \cup mnt \cup Stacked
    /\ said \in {"SYSTEM UNMOUNTED", "CHROOT CLOSED"} =>
         {"rpool", "bpool"} \cap (Zark \cup mapper \cup mnt \cup Stacked) = {}

(* The running system's own keystore mount is never taken away by mount,   *)
(* chroot, fix-rpool-mountpoint or clean, whatever a killed command left   *)
(* open (clean.py inventory looks at the name of the visible mount).       *)
KeepsLive ==
    [][run.cmd # "umount" /\ "live" \in Stacked => "live" \in Stacked']_vars

(* rpool's mountpoint changes only with no zvol device on the machine, and *)
(* the dataset that inherits it is never turned off after it               *)
(* (fix_rpool_mountpoint.py _fix, chase.c:648).                            *)
FixAlone ==
    [][/\ rmp' # rmp => zvols = {} /\ pool["rpool"] = "alt" /\ inhibit
       /\ inherits' # inherits => rmp = "none"]_vars

(* The operator who runs clean until it finds nothing gets everything      *)
(* released, whatever was killed, failed or in use meanwhile; only copies  *)
(* held in another namespace by a tree unmounted earlier may stay.         *)
Releases == <>[](Empty \/ copies # {})

(* Every command ends. *)
Ends == run.cmd # "none" ~> run.cmd = "none"

(* Unharmed: nothing zark mounts, unmounts or removes touches the running  *)
(* system's pools and keystore, the inside of a backup or the session's    *)
(* own files.                                                              *)
Unharmed ==
    [](RunningKept /\ BackupWhole /\ InsideTree) /\ KeepsLive /\ FixAlone

(* Released: every command ends, and repeated cleans leave nothing behind. *)
Released == Ends /\ Releases
=============================================================================
