------------------------------ MODULE Registry ------------------------------
(***************************************************************************)
(* The drives zark knows: known_drives.json, the by-id names that lead to  *)
(* a disk, the pool label that proves which disk it is, and the anchors    *)
(* origin holds for each pool.  `prepare`, `purge`, `backup` and the       *)
(* subcommands of `registry` hold the lock and work on the copy of the     *)
(* registry they read when they started; `explore` runs without the lock.  *)
(* A disk behind a bridge is seen under the enclosure's name, with or      *)
(* without its own; steps fail, and a command may be stopped at any step.  *)
(*                                                                         *)
(* Modelled: src/lib/registry.py, lib/config.py, lib/identity.py,          *)
(* lib/drives.py, commands/prepare.py, commands/purge.py,                  *)
(* commands/registry.py and commands/explore.py.                           *)
(***************************************************************************)
EXTENDS Naturals, FiniteSets

CONSTANTS Disks,      \* external disks; one is its own by-id name too
          Sys,        \* the disk of the running system
          Box,        \* the by-id name of the one enclosure
          Names,      \* pool names, and so names of registry entries
          MaxGuids,   \* pools that are ever created
          MaxRuns,    \* commands
          MaxFaults,  \* failed steps and stopped commands
          MaxMoves,   \* plugs, imports and hand edits by the operator
          Overlap     \* explore and hand edits beside a running command

ASSUME DisksAssumption == Disks # {} /\ Sys \notin Disks /\ Box \notin Disks
ASSUME NamesAssumption == Names # {}
ASSUME BoundsAssumption ==
    /\ {MaxGuids, MaxRuns, MaxFaults, MaxMoves} \subseteq Nat /\ MaxGuids >= 2
    /\ Overlap \in BOOLEAN

VARIABLES
    disks,    \* every disk: see DiskType
    reg,      \* known_drives.json: its entries, or malformed
    anchors,  \* the pools (by GUID) that origin holds anchors for
    left,     \* what commands left behind in origin
    run,      \* the command that holds the lock: see RunType
    exp,      \* the explore that runs: see ExploreType
    verdict,  \* the last banner of a command with the lock
    excused,  \* pools whose anchors the operator was told of, or lost
    spent     \* what is left of the bounds, and the next GUID

vars == <<disks, reg, anchors, left, run, exp, verdict, excused, spent>>

-----------------------------------------------------------------------------
(* Disks, names and entries. *)

Guids == 1..MaxGuids
SysPool == "rpool"
Unknown == "<unknown>"
Whole == {"data", "keystore", "flushed"}

(* seat: not connected; on a port of its own, in the enclosure with its    *)
(* own name shown, in the enclosure with its own name hidden.  guid: the   *)
(* pool whose labels are on the disk, 0 none; table: a partition table or  *)
(* a signature, without which no label is found; has: what reached it.     *)
DiskType == [seat : {"away", "port", "shown", "hidden"},
             name : Names \cup {SysPool, ""}, guid : 0..MaxGuids + 1,
             table : BOOLEAN, has : SUBSET Whole, imp : {"no", "ro", "rw"}]

(* A DriveInfo: id is the drive_id, box whether enclosure_id is recorded,  *)
(* own whether the entry has retention settings of its own.                *)
Entry == [guid : Guids, id : Disks \cup {Box, Unknown}, box : BOOLEAN, own : BOOLEAN]
None == [guid |-> 0, id |-> Unknown, box |-> FALSE, own |-> FALSE]
Config == [Names -> Entry \cup {None}]

Known(cfg) == {n \in Names : cfg[n] # None}
Registered(cfg) == {cfg[n].guid : n \in Known(cfg)}
Without(cfg, ns) == [n \in Names |-> IF n \in ns THEN None ELSE cfg[n]]

(* The by-id links of a disk; usb- ranks first, so the enclosure's name is *)
(* the preferred one.                                                      *)
Aliases(d) ==
    CASE disks[d].seat = "port" -> {d}
      [] disks[d].seat = "shown" -> {d, Box}
      [] disks[d].seat = "hidden" -> {Box}
      [] OTHER -> {}
Connected == {d \in Disks : disks[d].seat # "away"}
Preferred(d) == IF Box \in Aliases(d) THEN Box ELSE d

RegistryNames(d) ==
    IF d \in Aliases(d) THEN [id |-> d, box |-> Box \in Aliases(d)]
    ELSE [id |-> Preferred(d), box |-> FALSE]

Kind(id) == IF id \in Disks THEN "disk" ELSE IF id = Box THEN "bus" ELSE "other"
Strength(id) == CASE Kind(id) = "disk" -> 3 [] Kind(id) = "bus" -> 2 [] OTHER -> 0

(* read_pool_label: zdb finds the labels in the first partition. *)
ReadLabel(d) == IF disks[d].table THEN disks[d].guid ELSE 0

Imported(n) == \E d \in Disks \cup {Sys} : disks[d].imp # "no" /\ disks[d].name = n

(* Mutant: the enclosure's name taken for proof of the disk. *)
EvidenceBox(e, d) ==
    IF ReadLabel(d) # 0 /\ e.guid = ReadLabel(d) THEN "label"
    ELSE IF e.id \in Aliases(d) \/ (e.box /\ Box \in Aliases(d)) THEN "disk"
    ELSE "none"

(* Why an entry describes a disk: its label, the disk's own name, or only  *)
(* the enclosure's.                                                        *)
Evidence(e, d) ==
    IF ReadLabel(d) # 0 /\ e.guid = ReadLabel(d) THEN "label"
    ELSE IF Kind(e.id) = "disk" /\ e.id \in Aliases(d) THEN "disk"
    ELSE IF Kind(e.id) = "disk" /\ d \in Aliases(d) THEN "none"
    ELSE IF Box \in Aliases(d) /\ (e.id = Box \/ e.box) THEN "bus"
    ELSE "none"

Recognised(cfg, d, kinds) == {n \in Known(cfg) : Evidence(cfg[n], d) \in kinds}

(* The pool on a disk does not protect it from a command that works on it, *)
(* unless it has a system pool's name.                                     *)
Protected(d) ==
    LET own == IF ReadLabel(d) # 0 /\ disks[d].name # SysPool
               THEN disks[d].name ELSE ""
    IN disks[d].imp # "no" /\ disks[d].name # own

(* reconcile: an entry's names follow the disk its pool was read on, but   *)
(* never to a weaker kind of name.                                         *)
Reconcile(e, d) ==
    LET names == RegistryNames(d)
        id == IF /\ Kind(e.id) \in {"disk", "bus"}
                 /\ Strength(names.id) < Strength(e.id)
              THEN e.id ELSE names.id
    IN [e EXCEPT !.id = id,
                 !.box = Kind(id) = "disk" /\ (Box \in Aliases(d) \/ e.box)]

-----------------------------------------------------------------------------
(* Commands. *)

Commands == {"none", "prepare", "purge", "backup", "forget", "fix", "retention"}
Steps == {"", "create", "track", "send", "keystore", "snapped", "export",
          "judge", "readback", "reread", "register", "destroy", "wipe", "zap",
          "verdict", "drop", "close", "save", "replace", "points", "end"}
Failures == {"send", "keystore", "export", "held", "overwrite", "label", "wipefs", "zap"}

(* cfg: the registry as it was read, and as it is to be written; agreed:   *)
(* entries the operator agreed to lose; goes: those that go; fails: steps  *)
(* that failed or checks that were not clean; next: where the command goes *)
(* on after it saved.                                                      *)
RunType == [cmd : Commands, step : Steps, disk : Disks \cup {Sys}, cfg : Config,
            name : Names \cup {""}, guid : 0..MaxGuids,
            goes : SUBSET Names, agreed : SUBSET Names,
            fails : SUBSET Failures, tracked : BOOLEAN, next : Steps]

NoRun == [cmd |-> "none", step |-> "", disk |-> Sys, cfg |-> [n \in Names |-> None],
          name |-> "", guid |-> 0, goes |-> {}, agreed |-> {},
          fails |-> {}, tracked |-> FALSE, next |-> ""]

(* found: the drives the scan found, dev whether blkid or a link gave the  *)
(* device; agreed: entries the operator agreed to remove; blind: pools it  *)
(* registered without knowing their device.                                *)
Drive == [name : Names, guid : Guids, disk : Disks, dev : BOOLEAN]
ExploreType == [step : {"", "stale", "register"}, cfg : Config,
                found : SUBSET Drive, agreed : SUBSET Names,
                blind : SUBSET Guids]

Verdict == [said : {"none", "prepared", "not registered", "not verified", "purged",
                    "incomplete", "backed up", "forgotten", "fixed", "stopped",
                    "refused", "crashed", "aborted"},
            disk : Disks \cup {Sys}, guid : 0..MaxGuids]

Quiet == [said |-> "none", disk |-> Sys, guid |-> 0]
Say(what) == [said |-> what, disk |-> run.disk, guid |-> run.guid]

Blank == [seat |-> "away", name |-> "", guid |-> 0, table |-> FALSE,
          has |-> {}, imp |-> "no"]
Formatted(seat, name, guid) ==
    [seat |-> seat, name |-> name, guid |-> guid, table |-> TRUE,
     has |-> Whole, imp |-> "no"]

(* What a step makes of the disk it writes to. *)
Created(x, name, guid) ==
    [x EXCEPT !.name = name, !.guid = guid, !.table = TRUE, !.has = {}, !.imp = "rw"]
With(x, what) == [x EXCEPT !.has = @ \cup {what}]
Turned(x, mode) == [x EXCEPT !.imp = mode]
Overwritten(x, done) ==
    IF done THEN [x EXCEPT !.guid = 0, !.name = "", !.has = {}] ELSE [x EXCEPT !.has = {}]
Zapped(x, done) == [x EXCEPT !.table = IF done THEN FALSE ELSE @]

(* Which disks and which name the first state is about: it makes no        *)
(* difference.                                                             *)
OneDisk == CHOOSE d \in Disks : TRUE
OtherDisk == CHOOSE d \in Disks \ {OneDisk} : TRUE
FirstName == CHOOSE n \in Names : TRUE

(* One drive is prepared and registered, under its own name or, by an      *)
(* older zark, under the enclosure's; another disk is blank, or holds a    *)
(* pool of some name that this registry does not know; any more are blank  *)
(* and away.                                                               *)
Init ==
    /\ \E sa \in {"away", "port", "hidden"}, sb \in {"away", "port", "shown", "hidden"},
          m \in Names \cup {"", SysPool} :
         /\ ~(sa = "hidden" /\ sb \in {"shown", "hidden"})
         /\ disks = [d \in Disks \cup {Sys} |->
                IF d = Sys THEN [Formatted("port", SysPool, MaxGuids + 1)
                                   EXCEPT !.imp = "rw"]
                ELSE IF d = OneDisk THEN Formatted(sa, FirstName, 1)
                ELSE IF d # OtherDisk THEN Blank
                ELSE IF m = "" THEN [Blank EXCEPT !.seat = sb]
                ELSE Formatted(sb, m, 2)]
    /\ \E id \in {OneDisk, Box}, box \in BOOLEAN :
         /\ id = Box => ~box
         /\ reg = [bad |-> FALSE,
                   cfg |-> [n \in Names |->
                     IF n # FirstName THEN None
                     ELSE [guid |-> 1, id |-> id, box |-> box, own |-> FALSE]]]
    /\ anchors = {1}
    /\ left = {}
    /\ run = NoRun
    /\ exp = [step |-> "", cfg |-> [n \in Names |-> None], found |-> {},
              agreed |-> {}, blind |-> {}]
    /\ verdict = Quiet
    /\ excused = {}
    /\ spent = [runs |-> 0, faults |-> 0, moves |-> 0, guid |-> 2]

Fault == /\ spent.faults < MaxFaults
         /\ spent' = [spent EXCEPT !.faults = @ + 1]
Fine == UNCHANGED spent
Outcome(bad) == IF bad THEN Fault ELSE Fine

Idle == run.cmd = "none"
At(step) == run.step = step
Go(step) == run' = [run EXCEPT !.step = step]

(* Config.load and check_registry: a command that writes the registry      *)
(* stops when it cannot read it.                                           *)
CheckRegistry == ~reg.bad

Start(cmd) ==
    /\ Idle /\ (Overlap \/ exp.step = "")
    /\ spent.runs < MaxRuns
    /\ CheckRegistry
    /\ spent' = [spent EXCEPT !.runs = @ + 1]
    /\ verdict' = Quiet

Loaded == IF reg.bad THEN [n \in Names |-> None] ELSE reg.cfg

(* Cleanup on any exit: a tracked pool is exported, prepare's snapshot of  *)
(* the keystore dropped.                                                   *)
Released == IF run.tracked THEN [disks EXCEPT ![run.disk] = Turned(@, "no")] ELSE disks
Leave(what) == run' = NoRun /\ verdict' = Say(what)

(* anchors.drop_anchors_of: anchors that cannot be destroyed are named, and *)
(* the command goes on.                                                     *)
DropAnchors(gs) ==
    \/ anchors' = anchors \ gs /\ Fine /\ UNCHANGED excused
    \/ /\ gs \cap anchors # {} /\ Fault
       /\ excused' = excused \cup (gs \cap anchors) /\ UNCHANGED anchors

-----------------------------------------------------------------------------
(* zark prepare. *)

(* The disk is empty; entries that name it are offered for removal, those  *)
(* that only share the enclosure one by one; the pool's name is free.      *)
StartPrepare(d, n) ==
    /\ Start("prepare")
    /\ d \in Connected /\ ~Protected(d)
    /\ ~disks[d].table
    /\ spent.guid < MaxGuids
    /\ LET own == Recognised(Loaded, d, {"label", "disk"})
           bus == Recognised(Loaded, d, {"bus"})
       IN \E o \in {{}, own}, b \in SUBSET bus :
            /\ n \in Known(Loaded) => n \in o \cup b
            /\ ~Imported(n)
            /\ run' = [NoRun EXCEPT !.cmd = "prepare", !.step = "create",
                          !.disk = d, !.cfg = Loaded, !.name = n,
                          !.goes = o \cup b, !.agreed = o \cup b]
    /\ UNCHANGED <<disks, reg, anchors, left, exp, excused>>

Create ==
    /\ At("create")
    /\ \/ /\ disks' = [disks EXCEPT ![run.disk] = Created(@, run.name, spent.guid + 1)]
          /\ run' = [run EXCEPT !.step = "track", !.guid = spent.guid + 1]
          /\ spent' = [spent EXCEPT !.guid = @ + 1]
          /\ UNCHANGED verdict
       \/ Fault /\ Leave("refused") /\ UNCHANGED disks
    /\ UNCHANGED <<reg, anchors, left, exp, excused>>

Track ==
    /\ At("track")
    /\ run' = [run EXCEPT !.step = "send", !.tracked = TRUE]
    /\ UNCHANGED <<disks, reg, anchors, left, exp, verdict, excused, spent>>

(* engine.execute, as Engine models it: a run that fails may have anchored *)
(* some datasets, and may leave its point in origin.                       *)
Send ==
    /\ At("send")
    /\ \/ /\ Fine
          /\ anchors' = anchors \cup {run.guid} /\ left' = left \ {"point"}
          /\ disks' = [disks EXCEPT ![run.disk] = With(@, "data")]
          /\ Go(IF run.cmd = "prepare" THEN "keystore" ELSE "close")
       \/ /\ Fault
          /\ anchors' \in {anchors, anchors \cup {run.guid}}
          /\ left' \in {left, left \cup {"point"}}
          /\ run' = [run EXCEPT !.fails = @ \cup {"send"},
                  !.step = IF run.cmd = "prepare" THEN "keystore" ELSE "close"]
          /\ UNCHANGED disks
    /\ UNCHANGED <<reg, exp, verdict, excused>>

KeystoreFails == run' = [run EXCEPT !.step = "export", !.fails = @ \cup {"keystore"}]

SnapKeystore ==
    /\ At("keystore")
    /\ \/ Fine /\ left' = left \cup {"keysnap"} /\ Go("snapped")
       \/ Fault /\ KeystoreFails /\ UNCHANGED left
    /\ UNCHANGED <<disks, reg, anchors, exp, verdict, excused>>

SendKeystore ==
    /\ At("snapped")
    /\ left' = left \ {"keysnap"}
    /\ \/ /\ Fine /\ Go("export")
          /\ disks' = [disks EXCEPT ![run.disk] = With(@, "keystore")]
       \/ Fault /\ KeystoreFails /\ UNCHANGED disks
    /\ UNCHANGED <<reg, anchors, exp, verdict, excused>>

(* An export that returns 0 is no proof: the bridge may have acknowledged  *)
(* a flush that never reached the medium.                                  *)
Export ==
    /\ At("export")
    /\ \/ \E flushed \in BOOLEAN :
            /\ Outcome(~flushed)
            /\ disks' = [disks EXCEPT ![run.disk] =
                 LET out == Turned(@, "no")
                 IN IF flushed THEN With(out, "flushed") ELSE out]
            /\ run' = [run EXCEPT !.step = "judge", !.tracked = FALSE]
       \/ /\ Fault /\ UNCHANGED disks
          /\ run' = [run EXCEPT !.step = "judge", !.fails = @ \cup {"export"}]
    /\ UNCHANGED <<reg, anchors, left, exp, verdict, excused>>

(* A drive that is not registered keeps no anchors. *)
GiveUp(what) ==
    /\ DropAnchors({run.guid}) /\ Leave(what) /\ disks' = Released
    /\ UNCHANGED <<reg, left, exp>>

Judge ==
    /\ At("judge")
    /\ \/ run.fails \cap {"send", "keystore"} # {} /\ GiveUp("not registered")
       \/ run.fails = {"export"} /\ GiveUp("not verified")
       \/ /\ run.fails = {} /\ Go("readback")
          /\ UNCHANGED <<disks, reg, anchors, left, exp, verdict, excused, spent>>

(* Mutant: an import that succeeds is taken for the verdict. *)
ReadbackAny ==
    /\ At("readback")
    /\ disks' = [disks EXCEPT ![run.disk] = Turned(@, "ro")]
    /\ run' = [run EXCEPT !.step = "reread", !.tracked = TRUE]
    /\ UNCHANGED <<reg, anchors, left, exp, verdict, excused, spent>>

(* verify_exported_pool_readback: imported again, read-only and from the   *)
(* medium; what was not flushed does not import.                           *)
Readback ==
    /\ At("readback")
    /\ \/ /\ "flushed" \in disks[run.disk].has
          /\ disks' = [disks EXCEPT ![run.disk] = Turned(@, "ro")]
          /\ run' = [run EXCEPT !.step = "reread", !.tracked = TRUE]
          /\ UNCHANGED <<reg, anchors, left, exp, verdict, excused, spent>>
       \/ "flushed" \notin disks[run.disk].has /\ GiveUp("not verified")

Reread ==
    /\ At("reread")
    /\ \/ /\ disks' = Released
          /\ run' = [run EXCEPT !.step = "register", !.tracked = FALSE]
          /\ UNCHANGED <<reg, anchors, left, exp, verdict, excused, spent>>
       \/ /\ Fault /\ Leave("not verified") /\ disks' = Released
          /\ anchors' = anchors \ {run.guid}
          /\ UNCHANGED <<reg, left, exp, excused>>

(* The anchors of the entries that are replaced go first, then the entries. *)
Register ==
    /\ At("register")
    /\ DropAnchors({run.cfg[n].guid : n \in run.goes})
    /\ LET names == RegistryNames(run.disk)
       IN \E own \in BOOLEAN :
            run' = [run EXCEPT !.step = "save", !.next = "end",
                !.cfg = [Without(run.cfg, run.goes) EXCEPT ![run.name] =
                    [guid |-> run.guid, id |-> names.id, box |-> names.box,
                     own |-> own]]]
    /\ UNCHANGED <<disks, reg, left, exp, verdict>>

-----------------------------------------------------------------------------
(* zark purge. *)

(* Entries proved to be this disk go with it; those that only share the    *)
(* enclosure are asked about one by one.                                   *)
StartPurge(d) ==
    /\ Start("purge")
    /\ d \in Connected \cup {Sys} /\ ~Protected(d)
    /\ LET sure == Recognised(Loaded, d, {"label", "disk"})
           bus == Recognised(Loaded, d, {"bus"})
       IN \E b \in SUBSET bus :
            run' = [NoRun EXCEPT !.cmd = "purge", !.disk = d, !.cfg = Loaded,
                !.step = IF ReadLabel(d) # 0 THEN "destroy" ELSE "wipe",
                !.guid = IF disks[d].name = SysPool THEN 0 ELSE ReadLabel(d),
                !.goes = sure \cup b, !.agreed = b]
    /\ UNCHANGED <<disks, reg, anchors, left, exp, excused>>

(* A system pool's name, another disk's pool of that name, or a pool that  *)
(* does not import: only wiped.                                            *)
WipeOnly ==
    /\ disks[run.disk].imp = "no"
    /\ Outcome(disks[run.disk].name # SysPool /\ ~Imported(disks[run.disk].name))
    /\ Go("wipe") /\ UNCHANGED <<disks, verdict>>

(* Imported read-only, it is exported and imported again first: destroying *)
(* it read-only writes nothing to its labels.                              *)
Destroyed ==
    /\ disks[run.disk].imp = "no" =>
         disks[run.disk].name # SysPool /\ ~Imported(disks[run.disk].name)
    /\ Fine /\ Go("wipe") /\ UNCHANGED verdict
    /\ disks' = [disks EXCEPT ![run.disk] = Turned(@, "no")]

(* A pool that stays imported from this disk would write its labels again, *)
(* and one that was not destroyed is still there.                          *)
NotDestroyed ==
    /\ disks[run.disk].imp = "no" =>
         disks[run.disk].name # SysPool /\ ~Imported(disks[run.disk].name)
    /\ Fault /\ Leave("incomplete")
    /\ \/ disks' = [disks EXCEPT ![run.disk] =
            Turned(@, IF disks[run.disk].imp = "ro" THEN "ro" ELSE "rw")]
       \/ /\ disks[run.disk].imp = "ro"
          /\ disks' = [disks EXCEPT ![run.disk] = Turned(@, "no")]

DestroyLabelledPool ==
    /\ At("destroy")
    /\ WipeOnly \/ Destroyed \/ NotDestroyed
    /\ UNCHANGED <<reg, anchors, left, exp, excused>>

(* Both ends of the disk, where the labels are.  An overwrite fails, or    *)
(* returns 0 without reaching the medium: then the labels still read back  *)
(* from the first partition, which udev leaves alone while the disk is     *)
(* held.  A disk that cannot be held is not written to.                    *)
Overwrite ==
    /\ At("wipe")
    /\ \/ \E undone \in SUBSET {"first", "last"}, told \in BOOLEAN :
            /\ Outcome(undone # {}) /\ (undone = {} => told)
            /\ disks' = [disks EXCEPT ![run.disk] = Overwritten(@, undone = {})]
            /\ run' = [run EXCEPT !.step = "zap", !.fails =
                  {f \in {"overwrite", "label"} :
                     /\ f = "overwrite" => undone # {} /\ told
                     /\ f = "label" =>
                          ReadLabel(run.disk) # 0 /\ undone # {}}]
       \/ /\ Fault /\ UNCHANGED disks
          /\ run' = [run EXCEPT !.step = "verdict", !.fails = {"held"}]
    /\ UNCHANGED <<reg, anchors, left, exp, verdict, excused>>

(* wipefs, then sgdisk; each runs whatever the other did, and what is left *)
(* is looked for after both.                                               *)
Zap ==
    /\ At("zap")
    /\ \E undone \in SUBSET {"wipefs", "zap"} :
         /\ Outcome(undone # {})
         /\ disks' = [disks EXCEPT ![run.disk] = Zapped(@, undone # {"wipefs", "zap"})]
         /\ run' = [run EXCEPT !.step = "verdict", !.fails = @ \cup undone]
    /\ UNCHANGED <<reg, anchors, left, exp, verdict, excused>>

(* PURGE INCOMPLETE keeps the entries and the anchors. *)
PurgeVerdict ==
    /\ At("verdict")
    /\ \/ run.fails # {} /\ Leave("incomplete")
       \/ run.fails = {} /\ Go("drop") /\ UNCHANGED verdict
    /\ UNCHANGED <<disks, reg, anchors, left, exp, excused, spent>>

(* The anchors of the wiped pool and of every entry that goes, then the    *)
(* entries (purge and registry forget).                                    *)
Drop ==
    /\ At("drop")
    /\ DropAnchors(({run.guid} \cup {run.cfg[n].guid : n \in run.goes}) \ {0})
    /\ LET after == IF run.cmd = "forget" THEN "points" ELSE "end"
       IN run' = [run EXCEPT !.cfg = Without(run.cfg, run.goes), !.next = after,
                    !.step = IF run.goes = {} THEN after ELSE "save"]
    /\ UNCHANGED <<disks, reg, left, exp, verdict>>

-----------------------------------------------------------------------------
(* zark registry and the registry's part of zark backup. *)

Forget(n) ==
    /\ Start("forget")
    /\ n \in Known(Loaded)
    /\ run' = [NoRun EXCEPT !.cmd = "forget", !.step = "drop", !.cfg = Loaded,
                  !.guid = Loaded[n].guid, !.goes = {n}, !.agreed = {n}]
    /\ UNCHANGED <<disks, reg, anchors, left, exp, excused>>

(* By GUID, for a drive that has anchors and no entry. *)
ForgetGuid(g) ==
    /\ Start("forget")
    /\ g \in anchors \ Registered(Loaded)
    /\ run' = [NoRun EXCEPT !.cmd = "forget", !.step = "drop", !.cfg = Loaded,
                  !.guid = g]
    /\ UNCHANGED <<disks, reg, anchors, left, exp, excused>>

(* Points left in origin are offered for removal only when no drive is     *)
(* registered any more: one may be the base of a drive's next run.         *)
LeftoverPoints ==
    /\ At("points")
    /\ left' \in IF Known(run.cfg) = {} THEN {left, left \ {"point"}} ELSE {left}
    /\ Go("end")
    /\ UNCHANGED <<disks, reg, anchors, exp, verdict, excused, spent>>

(* The disk a pool is on, by its label. *)
DiskOf(g) == {d \in Connected : ReadLabel(d) = g}

Corrected(cfg, ns) ==
    [n \in Names |->
        IF n \in ns /\ DiskOf(cfg[n].guid) # {}
        THEN Reconcile(cfg[n], CHOOSE d \in DiskOf(cfg[n].guid) : TRUE)
        ELSE cfg[n]]

Fix(ns) ==
    /\ Start("fix")
    /\ ns \subseteq Known(Loaded)
    /\ run' = [NoRun EXCEPT !.cmd = "fix", !.step = "save", !.next = "end",
                  !.cfg = Corrected(Loaded, ns)]
    /\ UNCHANGED <<disks, reg, anchors, left, exp, excused>>

Retention(n) ==
    /\ Start("retention")
    /\ n \in Known(Loaded)
    /\ run' = [NoRun EXCEPT !.cmd = "retention", !.step = "save", !.next = "end",
                  !.cfg = [Loaded EXCEPT ![n].own = TRUE]]
    /\ UNCHANGED <<disks, reg, anchors, left, exp, excused>>

(* A backup imports the registered pool from the disk it was found on, and *)
(* corrects the entry's names before it sends.                             *)
StartBackup(n, d) ==
    /\ Start("backup")
    /\ n \in Known(Loaded)
    /\ d \in DiskOf(Loaded[n].guid) /\ disks[d].name = n
    /\ disks[d].imp = "no" /\ ~Imported(n)
    /\ disks' = [disks EXCEPT ![d] = Turned(@, "rw")]
    /\ LET e == Reconcile(Loaded[n], d) IN
       run' = [NoRun EXCEPT !.cmd = "backup", !.disk = d, !.name = n,
           !.guid = Loaded[n].guid, !.cfg = [Loaded EXCEPT ![n] = e],
           !.tracked = TRUE, !.next = "send",
           !.step = IF e # Loaded[n] THEN "save" ELSE "send"]
    /\ UNCHANGED <<reg, anchors, left, exp, excused>>

(* Exported and read back; only a complete backup is recorded. *)
CloseBackup ==
    /\ At("close")
    /\ disks' = Released
    /\ \E bad \in BOOLEAN :
         /\ Outcome(bad)
         /\ IF bad \/ run.fails # {} THEN Leave("incomplete")
            ELSE /\ run' = [run EXCEPT !.step = "save", !.next = "end",
                                       !.tracked = FALSE]
                 /\ UNCHANGED verdict
    /\ UNCHANGED <<reg, anchors, left, exp, excused>>

Said == CASE run.cmd = "prepare" -> "prepared" [] run.cmd = "purge" -> "purged"
          [] run.cmd = "backup" -> "backed up" [] run.cmd = "forget" -> "forgotten"
          [] OTHER -> "fixed"

(* registry.write_atomic: a temporary file first, removed when it cannot   *)
(* be written; the error ends every command but a finished backup.         *)
Write ==
    /\ At("save")
    /\ \/ Fine /\ Go("replace") /\ UNCHANGED <<disks, verdict, excused>>
       \/ /\ Fault
          /\ IF run.cmd = "backup" /\ run.next = "end"
             THEN Go("end") /\ UNCHANGED <<disks, verdict, excused>>
             ELSE /\ Leave("crashed") /\ disks' = Released
                  /\ excused' = excused \cup ({run.guid} \ {0})
    /\ UNCHANGED <<reg, anchors, left, exp>>

Replace ==
    /\ At("replace")
    /\ reg' = [bad |-> FALSE, cfg |-> run.cfg]
    /\ Go(run.next)
    /\ UNCHANGED <<disks, anchors, left, exp, verdict, excused, spent>>

End ==
    /\ At("end") /\ Leave(Said)
    /\ UNCHANGED <<disks, reg, anchors, left, exp, excused, spent>>

(* A signal runs Cleanup, a kill does not. *)
Stop ==
    /\ ~Idle /\ Fault
    /\ Leave("stopped")
    /\ excused' = IF run.cmd = "prepare" THEN excused \cup ({run.guid} \ {0})
                  ELSE excused
    /\ \/ disks' = Released /\ left' = left \ {"keysnap"}
       \/ UNCHANGED <<disks, left>>
    /\ UNCHANGED <<reg, anchors, exp>>

-----------------------------------------------------------------------------
(* zark explore, which takes no lock. *)

Labelled == {d \in Connected : ReadLabel(d) # 0 /\ disks[d].name # SysPool}
NamesOf(ds) == {disks[d].name : d \in ds}

(* What blkid gives, by pool name and so one disk for each name: every     *)
(* exported pool, while an imported one may not show.                      *)
BlkidLists ==
    {ds \in SUBSET Labelled :
        /\ \A d, e \in ds : disks[d].name = disks[e].name => d = e
        /\ \A d \in Labelled : disks[d].imp = "no" => disks[d].name \in NamesOf(ds)}

(* locate_registered: one of the entry's names leads to the disk, and its  *)
(* label says that it is the drive.                                        *)
Located(e) ==
    {d \in DiskOf(e.guid) : e.id \in Aliases(d) \/ (e.box /\ Box \in Aliases(d))}

(* scan_connected_drives: what blkid lists, then pools that are imported,  *)
(* then registered drives that their names lead to.                        *)
Scan(cfg, blk) ==
    LET imported == {d \in Labelled : disks[d].imp # "no"
                                      /\ disks[d].name \notin NamesOf(blk)}
        seen == NamesOf(blk \cup imported)
    IN {[name |-> disks[d].name, guid |-> disks[d].guid, disk |-> d, dev |-> d \in blk] :
            d \in blk \cup imported}
       \cup UNION {{[name |-> n, guid |-> cfg[n].guid, disk |-> d, dev |-> TRUE] :
                       d \in Located(cfg[n])} : n \in Known(cfg) \ seen}

(* The scan reads the registry and the disks; blkid may fail. *)
Explore ==
    /\ exp.step = "" /\ (Overlap \/ Idle)
    /\ spent.runs < MaxRuns /\ CheckRegistry
    /\ \E blk \in BlkidLists \cup {{}} :
         /\ IF blk \in BlkidLists
            THEN spent' = [spent EXCEPT !.runs = @ + 1]
            ELSE /\ spent.faults < MaxFaults
                 /\ spent' = [spent EXCEPT !.runs = @ + 1, !.faults = @ + 1]
         /\ exp' = [exp EXCEPT !.step = "stale", !.cfg = Loaded,
                       !.found = Scan(Loaded, blk), !.agreed = {}]
    /\ UNCHANGED <<disks, reg, anchors, left, run, verdict, excused>>

(* The entries that share a disk's own name with one whose pool was found  *)
(* on the disk of that name.                                               *)
Stale(cfg, found) ==
    UNION {LET names == {n \in Known(cfg) : cfg[n].id = x}
               real == {d \in found : /\ d.name \in names /\ d.dev
                                      /\ cfg[d.name].guid = d.guid
                                      /\ x \in Aliases(d.disk)}
           IN IF real = {} THEN {} ELSE names \ {d.name : d \in real} : x \in Disks}

Saved(cfg) ==
    /\ reg' = [bad |-> FALSE, cfg |-> cfg]
    /\ excused' = excused \cup (Registered(reg.cfg) \ Registered(cfg))

RemoveStale ==
    /\ exp.step = "stale"
    /\ \/ /\ Stale(exp.cfg, exp.found) # {}
          /\ LET gone == Stale(exp.cfg, exp.found)
                 cfg == Without(exp.cfg, gone)
             IN /\ exp' = [exp EXCEPT !.step = "register", !.cfg = cfg, !.agreed = gone]
                /\ Saved(cfg)
       \/ /\ exp' = [exp EXCEPT !.step = "register"]
          /\ UNCHANGED <<reg, excused>>
    /\ UNCHANGED <<disks, anchors, left, run, verdict, spent>>

(* The names a found drive is registered under; without a device, those of *)
(* the entry of that name, or else of that pool.                           *)
FoundNames(cfg, d) ==
    IF d.dev THEN RegistryNames(d.disk)
    ELSE [id |-> IF d.name \in Known(cfg) THEN cfg[d.name].id
                 ELSE IF d.guid \in Registered(cfg)
                      THEN (CHOOSE e \in {cfg[n] : n \in Known(cfg)} : e.guid = d.guid).id
                 ELSE Unknown,
          box |-> FALSE]

(* Unknown drives, and those whose name or pool changed, are registered on *)
(* one yes for all of them: an entry of the same name is written over.     *)
News(cfg, found) ==
    {d \in found : cfg[d.name].guid # d.guid /\ FoundNames(cfg, d).id # Unknown}

Added(cfg, news) ==
    [n \in Names |->
        IF \E d \in news : d.name = n
        THEN LET d == CHOOSE x \in news : x.name = n
                 names == FoundNames(cfg, d)
             IN [guid |-> d.guid, id |-> names.id, box |-> names.box, own |-> FALSE]
        ELSE cfg[n]]

AutoRegister ==
    /\ exp.step = "register"
    /\ LET news == News(exp.cfg, exp.found)
           done == [exp EXCEPT !.step = "", !.cfg = [n \in Names |-> None],
                               !.found = {}, !.agreed = {}]
       IN \/ /\ news # {}
             /\ Saved(Added(exp.cfg, news))
             /\ exp' = [done EXCEPT !.blind = @ \cup {d.guid : d \in {x \in news : ~x.dev}}]
          \/ exp' = done /\ UNCHANGED <<reg, excused>>
    /\ UNCHANGED <<disks, anchors, left, run, verdict, spent>>

-----------------------------------------------------------------------------
(* The operator. *)

Move == /\ spent.moves < MaxMoves
        /\ spent' = [spent EXCEPT !.moves = @ + 1]

(* The enclosure holds one disk. *)
Plug(d, seat) ==
    /\ Idle /\ exp.step = "" /\ Move
    /\ disks[d].imp = "no" /\ disks[d].seat # seat
    /\ seat \in {"shown", "hidden"} =>
         \A e \in Disks \ {d} : disks[e].seat \notin {"shown", "hidden"}
    /\ disks' = [disks EXCEPT ![d].seat = seat]
    /\ UNCHANGED <<reg, anchors, left, run, exp, verdict, excused>>

(* zpool, zark mount and zark umount in another hand. *)
Import(d, mode) ==
    /\ Idle /\ exp.step = "" /\ Move
    /\ d \in Labelled
    /\ \/ disks[d].imp = "no" /\ ~Imported(disks[d].name) /\ mode # "no"
       \/ disks[d].imp # "no" /\ mode = "no"
    /\ disks' = [disks EXCEPT ![d] = Turned(@, mode)]
    /\ UNCHANGED <<reg, anchors, left, run, exp, verdict, excused>>

(* A hand edit leaves the file malformed, or mends it. *)
Edit ==
    /\ (Overlap \/ (Idle /\ exp.step = "")) /\ Move
    /\ reg' = [reg EXCEPT !.bad = ~@]
    /\ UNCHANGED <<disks, anchors, left, run, exp, verdict, excused>>

(* All is done that the bounds allow, or nobody mends the registry. *)
Finished ==
    /\ Idle /\ exp.step = ""
    /\ spent.runs = MaxRuns \/ (reg.bad /\ spent.moves = MaxMoves)
    /\ UNCHANGED vars

Prepares == \/ \E d \in Disks, n \in Names : StartPrepare(d, n)
            \/ Create \/ Track \/ Send \/ SnapKeystore \/ SendKeystore \/ Export
            \/ Judge \/ Readback \/ Reread \/ Register
Purges == \/ \E d \in Disks \cup {Sys} : StartPurge(d)
          \/ DestroyLabelledPool \/ Overwrite \/ Zap \/ PurgeVerdict
Registers == \/ \E n \in Names : Forget(n) \/ Retention(n)
             \/ \E g \in Guids : ForgetGuid(g)
             \/ \E ns \in SUBSET Names \ {{}} : Fix(ns)
             \/ \E n \in Names, d \in Disks : StartBackup(n, d)
             \/ Drop \/ LeftoverPoints \/ CloseBackup \/ Write \/ Replace \/ End
Explores == Explore \/ RemoveStale \/ AutoRegister
Operator == \/ \E d \in Disks : \/ \E s \in {"away", "port", "shown", "hidden"} : Plug(d, s)
                                \/ \E m \in {"no", "ro", "rw"} : Import(d, m)
            \/ Edit

Next == Prepares \/ Purges \/ Registers \/ Explores \/ Stop \/ Operator \/ Finished

Spec == Init /\ [][Next]_vars

-----------------------------------------------------------------------------
(* Properties. *)

Records ==
    /\ disks \in [Disks \cup {Sys} -> DiskType]
    /\ reg \in [bad : BOOLEAN, cfg : Config]
    /\ anchors \subseteq Guids /\ excused \subseteq Guids
    /\ left \subseteq {"point", "keysnap"}
    /\ run \in RunType /\ exp \in ExploreType /\ verdict \in Verdict
    /\ spent \in [runs : 0..MaxRuns, faults : 0..MaxFaults, moves : 0..MaxMoves,
                  guid : Guids]

(* Two disks may hold pools of one name, but only one of them is imported. *)
OneName ==
    \A d, e \in Disks :
        disks[d].imp # "no" /\ disks[e].imp # "no" /\ disks[d].name = disks[e].name
            => d = e

TypeOK == Records /\ OneName

(* An entry leaves the registry, or comes to stand for another pool, only  *)
(* when the operator agreed to lose that entry, or when no other disk than *)
(* the one a command works on holds its pool (identity.py recognise); and  *)
(* a file that can be read stays so however a command ends, as one that    *)
(* cannot is never written over (registry.py write_atomic, config.py       *)
(* check_registry).  Pools that explore registered without a device are    *)
(* left out: it gives them the disk name of the entry they replace.        *)
Elsewhere(g) == g \notin exp.blind /\ \E d \in Disks \ {run.disk} : disks[d].guid = g
Agreed == run.agreed \cup exp.agreed \cup {d.name : d \in exp.found}
EntriesKept ==
    [][/\ \A n \in Known(reg.cfg) :
             reg'.cfg[n].guid # reg.cfg[n].guid
               => n \in Agreed \/ ~Elsewhere(reg.cfg[n].guid)
       /\ reg'.bad # reg.bad => spent'.moves # spent.moves]_vars

(* The anchors of a drive that still holds its pool are dropped only when  *)
(* the operator named its entry: the enclosure's name, which another disk  *)
(* may carry today, is no proof (purge.py _entries_to_remove, prepare.py   *)
(* _stale_entries).                                                        *)
AnchorsKept ==
    [][\A g \in anchors \ anchors' :
          \/ \E n \in run.agreed : run.cfg[n].guid = g
          \/ run.guid = g \/ ~Elsewhere(g)]_vars

(* DRIVE PURGED: nothing that could be read or imported from the disk, the *)
(* pool whose label was read on it gone, and no entry and no anchor left   *)
(* that stands for that pool, unless the operator was told (purge.py run). *)
PurgedTrue ==
    verdict.said = "purged" =>
        LET d == disks[verdict.disk] IN
        /\ ~d.table /\ d.imp = "no" /\ (verdict.guid # 0 => d.guid = 0)
        /\ verdict.guid \notin Registered(reg.cfg)
        /\ verdict.guid \in anchors => verdict.guid \in excused

(* No disk loses its labels while a pool is imported from it, the running  *)
(* system's least of all (identity.py protected_disks, purge.py            *)
(* _destroy_labelled_pool).                                                *)
NotUnder ==
    [][\A d \in DOMAIN disks : disks'[d].guid # disks[d].guid => disks[d].imp = "no"]_vars

(* A pool enters the registry by a command with the lock only when its     *)
(* data and its keystore reached the medium, it is exported and origin     *)
(* holds its anchors (prepare.py, DRIVE NOT REGISTERED and NOT VERIFIED).  *)
Proven ==
    [][\A n \in Names :
          At("replace") /\ reg'.cfg[n].guid \notin Registered(reg.cfg) \cup {0} =>
              /\ reg'.cfg[n].guid \in anchors
              /\ \E d \in Disks : /\ disks[d].guid = reg'.cfg[n].guid
                                  /\ disks[d].has = Whole /\ disks[d].imp = "no"]_vars

(* When nothing runs, every anchor in origin belongs to a registered drive *)
(* or the operator was told of it, or a command was stopped or explore     *)
(* took the entry (anchors.py drop_anchors_of).                            *)
AnchorsOwned == Idle /\ exp.step = "" => anchors \subseteq Registered(reg.cfg) \cup excused

(* AnchorsTrue: origin holds the anchors of the drives that are registered *)
(* and of no others, whichever command is stopped or told no.              *)
AnchorsTrue == []AnchorsOwned /\ AnchorsKept

(* DiskTrue: what is said and registered of a disk is so on the medium:    *)
(* purged is empty, registered is proven, and no label goes from under an  *)
(* imported pool.                                                          *)
DiskTrue == []PurgedTrue /\ Proven /\ NotUnder
=============================================================================
