-------------------------------- MODULE Boot --------------------------------
(***************************************************************************)
(* The boot chain of a restored system, from the last steps of `zark       *)
(* recover` on: recover writes it, `zark finish` completes it from inside  *)
(* the system, `zark repair-boot` repairs it from the live USB, and apt    *)
(* installs and removes kernels behind both.  update-grub with a backup    *)
(* drive visible writes a grub.cfg without entries; two guards, a grub.d   *)
(* script and an apt hook, are there to stop it.  Commands fail, a drive   *)
(* comes and goes, and a zark command may be killed at any step.           *)
(*                                                                         *)
(* Modelled: src/lib/boot_chain.py, commands/finish.py,                    *)
(* commands/repair_boot.py, lib/grub_cfg.py, lib/initrd.py,                *)
(* lib/boot_layout.py, lib/boot_rewrite.py, lib/recover_ext4.py and the    *)
(* two guards, lib/grub_guard.py and lib/apt_guard.py.                     *)
(***************************************************************************)
EXTENDS Naturals, FiniteSets

CONSTANTS Kernels,     \* kernel versions, the newest is the greatest
          MaxFaults,   \* failed commands, kills and losses of a behaviour
          MaxPlugs,    \* times a drive is plugged in
          MaxApt       \* kernel packages apt or dpkg installs

ASSUME KernelsAssumption == Kernels \subseteq Nat /\ 1 \in Kernels
ASSUME BoundsAssumption == {MaxFaults, MaxPlugs, MaxApt} \subseteq Nat

VARIABLES
    sys,      \* the installed system's disk: see SysType
    host,     \* the running session: see HostType
    run,      \* the zark command that runs: see RunType
    apt,      \* the package operation that runs: see AptType
    copy,     \* the copy of an ext4 /boot and its last point: see CopyType
    verdict,  \* the banner of the last zark command
    spent     \* the faults, plugs and installations so far

vars == <<sys, host, run, apt, copy, verdict, spent>>

(* grub.cfg: the kernels it has an entry for, and whether its search lines *)
(* name the /boot that is there.                                           *)
CfgType == [entries : SUBSET Kernels, uuid : {"old", "new"}]
NoCfg == [entries |-> {}, uuid |-> "old"]

Guards == {"grub", "hook", "conf"}

SysType == [layout : {"bpool", "ext4"}, vmlinuz : SUBSET Kernels,
            mods : SUBSET Kernels,
            initrd : [Kernels -> {"none", "stale", "good"}], cfg : CfgType,
            prior : [{"finish", "repair"} -> CfgType],
            efi : SUBSET {"shim", "grub"}, guards : SUBSET Guards,
            edited : BOOLEAN, fstab : SUBSET {"esp", "boot"}, half : SUBSET Kernels]

(* inuse: the pools are, or were left, imported by a live session.         *)
HostType == [where : {"live", "up"}, drive : {"away", "seen", "imported"},
             boot : BOOLEAN, esp : BOOLEAN, inuse : BOOLEAN,
             kernel : Kernels \cup {0}]

(* booted: the system boots when grub.cfg is copied; copied: the run made  *)
(* its copy of grub.cfg; asked: the kernels it must find an entry for.     *)
RunType == [cmd : {"none", "recover", "finish", "repair", "remove", "setup"},
            step : {"", "cfg", "efi", "guard", "hook", "conf", "boot",
                    "initrd", "copy", "update", "judge", "uuid", "esp",
                    "release", "banner"},
            fails : SUBSET {"cfg", "efi", "boot", "initrd", "grub", "esp",
                            "pools", "lost"},
            copied : BOOLEAN, ok : BOOLEAN, booted : BOOLEAN,
            asked : SUBSET Kernels]

AptType == [op : {"none", "install", "remove"}, kernel : Kernels \cup {0}]

(* What the manifest of /boot tells apart: every write changes it. *)
FilesType == (SUBSET Kernels) \X [Kernels -> {"none", "stale", "good"}] \X CfgType

CopyType == [step : {"", "read", "copied", "taken"}, manifest : FilesType,
             held : FilesType, at : FilesType,
             mark : {"none", "complete", "stale"}]

NoRun == [cmd |-> "none", step |-> "", fails |-> {}, copied |-> FALSE,
          ok |-> FALSE, booted |-> FALSE, asked |-> {}]
NoFiles == <<{}, [k \in Kernels |-> "none"], NoCfg>>
NoCopy == [step |-> "", manifest |-> NoFiles, held |-> NoFiles,
           at |-> NoFiles, mark |-> "none"]
NoApt == [op |-> "none", kernel |-> 0]

Verdicts == {"none", "killed", "fatal", "recovered", "recovered with errors",
             "finished", "finish incomplete", "repaired", "repair incomplete",
             "removed"}

(* The system as recover's step 13 mounts it: its /boot and its root's     *)
(* modules from the point, a new ESP, grub.cfg and fstab of the old disk,  *)
(* the guards the origin had.                                              *)
Restored ==
    {[layout |-> l, vmlinuz |-> {1}, mods |-> m,
      initrd |-> [k \in Kernels |-> IF k = 1 THEN "stale" ELSE "none"],
      cfg |-> [entries |-> {1}, uuid |-> "old"],
      prior |-> [c \in {"finish", "repair"} |-> NoCfg],
      efi |-> {}, guards |-> g[1], edited |-> g[2],
      fstab |-> {}, half |-> {}] :
        l \in {"bpool", "ext4"}, m \in {{1}, Kernels},
        g \in {<<{}, FALSE>>, <<Guards, FALSE>>, <<Guards, TRUE>>}}

Files(s) == <<s.vmlinuz, s.initrd, s.cfg>>

Begin(cmd, step) ==
    [NoRun EXCEPT !.cmd = cmd, !.step = step]

Init ==
    /\ sys \in Restored
    /\ host = [where |-> "live", drive |-> "away", boot |-> TRUE,
               esp |-> TRUE, inuse |-> TRUE, kernel |-> 0]
    /\ run = Begin("recover", "cfg")
    /\ apt = NoApt
    /\ copy = NoCopy
    /\ verdict = "none"
    /\ spent = [faults |-> 0, plugs |-> 0, apt |-> 0]

-----------------------------------------------------------------------------
(* What GRUB and the initrd need. *)

Newest(ks) == CHOOSE k \in ks : \A j \in ks : j <= k

(* GRUB's default entry is the newest kernel's; a pool the live session    *)
(* left imported is not imported without -f.                               *)
Bootable(s) ==
    /\ s.efi = {"shim", "grub"}
    /\ s.cfg.uuid = "new" /\ s.cfg.entries # {}
    /\ LET k == Newest(s.cfg.entries) IN
       k \in s.vmlinuz \cap s.mods /\ s.initrd[k] = "good"

Boots == Bootable(sys) /\ ~host.inuse

(* A kernel is installed when /boot and /lib/modules both have it. *)
InstalledKernels(s) == s.vmlinuz \cap s.mods

Visible == host.drive # "away"

Fault == /\ spent.faults < MaxFaults
         /\ spent' = [spent EXCEPT !.faults = @ + 1]
Fine == UNCHANGED spent

(* update-grub: the guard refuses it with a backup visible and leaves      *)
(* grub.cfg alone; 10_linux_zfs lists the kernels that have an initrd,     *)
(* none when it trips on a backup's datasets, and exits 0 when it aborts   *)
(* half way.  Each outcome is grub.cfg and the exit status.                *)
Listed(s) == {k \in s.vmlinuz : s.initrd[k] # "none"}

(* Mutant: the guard looks at the pools that can be imported alone. *)
RefusesSeen(s) == "grub" \in s.guards /\ host.drive = "seen"

Refuses(s) == "grub" \in s.guards /\ Visible

UpdateGrub(s) ==
    IF Refuses(s) THEN {<<s.cfg, FALSE>>}
    ELSE {<<[entries |-> IF Visible THEN {} ELSE Listed(s),
             uuid |-> "new"], TRUE>>}

UpdateGrubFails(s) ==
    {<<s.cfg, FALSE>>, <<[entries |-> {}, uuid |-> "new"], TRUE>>}

-----------------------------------------------------------------------------
(* The steps the commands share. *)

On(cmd, step) == run.cmd = cmd /\ run.step = step
Goes(step) == run' = [run EXCEPT !.step = step]
GoesWith(step, failed) ==
    run' = [run EXCEPT !.step = step, !.fails = @ \cup failed]

Keep == UNCHANGED <<apt, copy, verdict>>

(* Each guard file is written when it is not there; recover and            *)
(* repair-boot also write it anew, which changes nothing here.  The hook   *)
(* goes before the configuration that names it.                            *)
Installed(file) == [sys EXCEPT !.guards = @ \cup {file}]

NextGuard(file) ==
    CASE file = "grub" -> "hook" [] file = "hook" -> "conf"
      [] OTHER -> "boot"

Step(file) == IF file = "grub" THEN "guard" ELSE file

InstallGuard ==
    \E file \in Guards :
       /\ run.cmd # "remove" /\ run.step = Step(file)
       /\ sys' = Installed(file)
       /\ IF run.cmd = "setup" /\ file = "grub" THEN run' = NoRun
          ELSE Goes(CASE run.cmd = "repair" -> "initrd"
                      [] run.cmd = "setup" /\ file = "conf" -> "guard"
                      [] OTHER -> NextGuard(file))
       /\ Fine /\ Keep /\ UNCHANGED host

(* Every installed kernel's initrd; one that fails keeps the old file. *)
RegenerateInitrd(next) ==
    LET kernels == InstalledKernels(sys) IN
    \/ /\ kernels # {} /\ Fine
       /\ sys' = [sys EXCEPT !.initrd = [k \in Kernels |->
                    IF k \in kernels THEN "good" ELSE @[k]]]
       /\ Goes(next)
    \/ /\ kernels = {} /\ Fine /\ UNCHANGED sys
       /\ GoesWith(next, {"initrd"})
    \/ /\ kernels # {} /\ Fault
       /\ \E f \in kernels :
             sys' = [sys EXCEPT !.initrd = [k \in Kernels |->
                       IF k \in kernels \ {f} THEN "good" ELSE @[k]]]
       /\ GoesWith(next, {"initrd"})

(* regenerate_grub_cfg in three steps: the copy, update-grub, the verdict. *)
CopyCfg ==
    /\ run.step = "copy"
    /\ \/ /\ sys' = [sys EXCEPT !.prior[run.cmd] = sys.cfg] /\ Fine
          /\ run' = [run EXCEPT !.step = "update", !.copied = TRUE,
                                !.asked = InstalledKernels(sys),
                                !.booted = Bootable(sys)]
       \/ /\ Fault /\ UNCHANGED sys
          /\ run' = [run EXCEPT !.step = "update", !.copied = FALSE,
                                !.asked = InstalledKernels(sys),
                                !.booted = Bootable(sys)]
    /\ Keep /\ UNCHANGED host

RunUpdateGrub ==
    /\ run.step = "update"
    /\ \E out \in UpdateGrub(sys) \cup UpdateGrubFails(sys) :
          /\ IF out \in UpdateGrub(sys) THEN Fine ELSE Fault
          /\ sys' = [sys EXCEPT !.cfg = out[1]]
          /\ run' = [run EXCEPT !.step = "judge", !.ok = out[2]]
    /\ Keep /\ UNCHANGED host

(* The kernels without an entry; any entry will do when none is installed. *)
Missing ==
    IF run.asked = {} /\ sys.cfg.entries = {} THEN Kernels
    ELSE run.asked \ sys.cfg.entries

(* Mutant: whatever copy is there is put back. *)
RestoredAny == {<<[sys EXCEPT !.cfg = sys.prior[run.cmd]], {}>>}

(* Only the copy this run made is put back. *)
RestoredCfg ==
    IF run.copied THEN {<<[sys EXCEPT !.cfg = sys.prior[run.cmd]], {}>>}
                  ELSE {<<sys, {"lost"}>>}

JudgeCfg ==
    /\ run.step = "judge"
    /\ IF run.ok /\ Missing = {}
       THEN UNCHANGED sys /\ Goes("uuid") /\ Fine
       ELSE \/ /\ Fine
               /\ \E r \in RestoredCfg :
                     sys' = r[1] /\ GoesWith("uuid", {"grub"} \cup r[2])
            \/ Fault /\ UNCHANGED sys /\ GoesWith("uuid", {"grub", "lost"})
    /\ Keep /\ UNCHANGED host

(* The search lines moved to the new bpool, when its GUID is read. *)
FixUuid(next) ==
    \/ /\ sys' = [sys EXCEPT !.cfg.uuid = IF sys.layout = "bpool" THEN "new"
                                                                  ELSE @]
       /\ Fine /\ Goes(next)
    \/ sys.layout = "bpool" /\ Fault /\ UNCHANGED sys /\ Goes(next)

-----------------------------------------------------------------------------
(* recover: install_boot_chain and the initrds, from the live USB. *)

(* fstab's ESP and /boot lines, grub.cfg's search lines and grub-install;  *)
(* an unread bpool GUID or ESP UUID is a warning, an ext4 /boot's an error *)
(* line, and _check_ext4_boot reads them back.                             *)
RecoverCfg ==
    /\ On("recover", "cfg")
    /\ \/ /\ Fine /\ Goes("efi")
          /\ sys' = [sys EXCEPT !.cfg.uuid = "new", !.fstab = {"esp", "boot"}]
       \/ /\ Fault /\ \E f \in {"esp", "boot", "uuid"} :
             /\ sys' = [sys EXCEPT
                          !.cfg.uuid = IF f = "uuid" THEN @ ELSE "new",
                          !.fstab = {"esp", "boot"} \ {f}]
             /\ GoesWith("efi", IF sys.layout = "ext4" /\ f # "esp"
                                THEN {"cfg"} ELSE {})
    /\ Keep /\ UNCHANGED host

(* grub-install and the signed packages, each with its manual copy. *)
RecoverEfi ==
    /\ On("recover", "efi")
    /\ \/ /\ Fine /\ Goes("guard")
          /\ sys' = [sys EXCEPT !.efi = {"shim", "grub"}]
       \/ /\ Fault /\ GoesWith("guard", {"efi"})
          /\ \E f \in {"shim", "grub"} :
                sys' = [sys EXCEPT !.efi = {"shim", "grub"} \ {f}]
    /\ Keep /\ UNCHANGED host

RecoverInitrd ==
    /\ On("recover", "boot")
    /\ RegenerateInitrd("release")
    /\ Keep /\ UNCHANGED host

(* The cleanup: the pools are exported, or stay imported and in use. *)
Release ==
    /\ run.step = "release"
    /\ \/ host' = [host EXCEPT !.inuse = FALSE] /\ Fine /\ Goes("banner")
       \/ Fault /\ UNCHANGED host /\ GoesWith("banner", {"pools"})

RecoverRelease ==
    /\ run.cmd = "recover" /\ Release
    /\ Keep /\ UNCHANGED sys

(* The banner of recover is about the errors alone: a pool its cleanup     *)
(* could not export is a warning of the cleanup.                           *)
RecoverBanner ==
    /\ On("recover", "banner")
    /\ verdict' = IF run.fails \subseteq {"pools"} THEN "recovered"
                                                   ELSE "recovered with errors"
    /\ run' = NoRun
    /\ Fine /\ UNCHANGED <<sys, host, apt, copy>>

-----------------------------------------------------------------------------
(* finish: inside the restored system. *)

Idle == run.cmd = "none"

StartFinish ==
    /\ Idle /\ host.where = "up" /\ copy.step = ""
    /\ verdict \notin {"finished", "removed"}
    /\ run' = Begin("finish", "guard")
    /\ verdict' = "none"
    /\ Fine /\ UNCHANGED <<sys, host, apt, copy>>

(* An ext4 /boot must be mounted: else nothing is written into it. *)
FinishBoot ==
    /\ On("finish", "boot")
    /\ \/ /\ host.boot /\ Goes("initrd") /\ Fine /\ UNCHANGED host
       \/ /\ ~host.boot /\ "boot" \in sys.fstab
          /\ host' = [host EXCEPT !.boot = TRUE] /\ Goes("initrd") /\ Fine
       \/ /\ ~host.boot /\ "boot" \notin sys.fstab
          /\ GoesWith("esp", {"boot"}) /\ Fine /\ UNCHANGED host
    /\ Keep /\ UNCHANGED sys

FinishInitrd ==
    /\ run.cmd \in {"finish", "repair"} /\ run.step = "initrd"
    /\ RegenerateInitrd("copy")
    /\ Keep /\ UNCHANGED host

FinishUuid ==
    /\ run.cmd \in {"finish", "repair"} /\ run.step = "uuid"
    /\ FixUuid(IF run.cmd = "finish" THEN "esp" ELSE "release")
    /\ Keep /\ UNCHANGED host

(* Mutant: fstab's ESP line is left as it is. *)
FinishEspKept ==
    /\ On("finish", "esp")
    /\ \/ /\ ~host.esp /\ UNCHANGED sys /\ GoesWith("banner", {"esp"}) /\ Fine
       \/ /\ host.esp /\ Goes("banner") /\ Fine
          /\ sys' = [sys EXCEPT !.efi = {"shim", "grub"}]
    /\ Keep /\ UNCHANGED host

(* fstab's ESP line is put right either way; an ESP that is not mounted,   *)
(* or whose binaries the signed packages do not bring back, is a failure.  *)
FinishEsp ==
    /\ On("finish", "esp")
    /\ LET there == [sys EXCEPT !.fstab = @ \cup {"esp"}] IN
       \/ /\ ~host.esp /\ sys' = there /\ GoesWith("banner", {"esp"}) /\ Fine
       \/ /\ host.esp /\ Goes("banner") /\ Fine
          /\ sys' = [there EXCEPT !.efi = {"shim", "grub"}]
       \/ /\ host.esp /\ sys.efi # {"shim", "grub"} /\ Fault
          /\ sys' = there /\ GoesWith("banner", {"esp"})
    /\ Keep /\ UNCHANGED host

FinishBanner ==
    /\ On("finish", "banner")
    /\ \E online \in BOOLEAN :    \* every pool of the system is ONLINE
          /\ verdict' = IF run.fails = {} /\ online THEN "finished"
                                                   ELSE "finish incomplete"
          /\ IF online THEN Fine ELSE Fault
    /\ run' = NoRun
    /\ UNCHANGED <<sys, host, apt, copy>>

-----------------------------------------------------------------------------
(* setup --remove: the guards go, the hook only after its configuration.   *)

StartRemoval ==
    /\ Idle /\ verdict = "finished" /\ host.where = "up" /\ copy.step = ""
    /\ run' = Begin("remove", "conf") /\ verdict' = "none"
    /\ Fine /\ UNCHANGED <<sys, host, apt, copy>>

(* setup, run again: the hook, its configuration, the guard of update-grub. *)
StartSetup ==
    /\ Idle /\ verdict = "removed" /\ host.where = "up"
    /\ run' = Begin("setup", "hook") /\ verdict' = "none"
    /\ Fine /\ UNCHANGED <<sys, host, apt, copy>>

(* Mutant: the hook goes whether or not its configuration went. *)
RemovedHook(file) ==
    IF file = "conf" /\ sys.edited THEN sys
    ELSE [sys EXCEPT !.guards = @ \ {file}]

(* A configuration the operator edited stays, and the hook it names. *)
Removed(file) ==
    IF \/ file = "conf" /\ sys.edited
       \/ file = "hook" /\ "conf" \in sys.guards
    THEN sys ELSE [sys EXCEPT !.guards = @ \ {file}]

RemoveGuard ==
    \E file \in Guards :
       /\ run.cmd = "remove" /\ run.step = Step(file)
       /\ sys' = Removed(file)
       /\ IF file = "grub" THEN run' = NoRun /\ verdict' = "removed"
          ELSE /\ Goes(IF file = "conf" THEN "hook" ELSE "guard")
               /\ UNCHANGED verdict
       /\ Fine /\ UNCHANGED <<host, apt, copy>>

-----------------------------------------------------------------------------
(* repair-boot: from the live USB. *)

(* A visible drive is asked about; the pools are imported, with -f when an *)
(* unclean stop left them in use, and the system is mounted.               *)
StartRepair ==
    /\ Idle /\ host.where = "live" /\ verdict # "repaired"
    /\ host' = [host EXCEPT !.inuse = TRUE]
    /\ verdict' = "none"
    /\ \/ /\ InstalledKernels(sys) # {} /\ Fine
          /\ run' = Begin("repair", "guard")
       \/ /\ Fault
          /\ run' = [Begin("repair", "release") EXCEPT !.fails = {"boot"}]
    /\ UNCHANGED <<sys, apt, copy>>

RepairRelease ==
    /\ run.cmd = "repair" /\ Release
    /\ Keep /\ UNCHANGED sys

RepairBanner ==
    /\ On("repair", "banner")
    /\ verdict' = IF run.fails = {} THEN "repaired"
                  ELSE IF "boot" \in run.fails THEN "fatal"
                  ELSE "repair incomplete"
    /\ run' = NoRun
    /\ Fine /\ UNCHANGED <<sys, host, apt, copy>>

-----------------------------------------------------------------------------
(* The copy of an ext4 /boot that a backup takes with its point: the       *)
(* manifest, the copy, the point, and the manifest again.                  *)

CopyManifest ==
    /\ sys.layout = "ext4" /\ host.where = "up" /\ host.drive = "imported"
    /\ copy.step = "" /\ copy.mark = "none" /\ Idle /\ verdict = "finished"
    /\ copy' = [copy EXCEPT !.step = "read", !.manifest = Files(sys)]
    /\ Fine /\ UNCHANGED <<sys, host, run, apt, verdict>>

CopyBoot ==
    /\ copy.step = "read"
    /\ \/ /\ copy' = [copy EXCEPT !.step = "copied", !.held = Files(sys)] /\ Fine
       \/ /\ copy' = NoCopy /\ Fault   \* no point is taken
    /\ UNCHANGED <<sys, host, run, apt, verdict>>

TakePoint ==
    /\ copy.step = "copied"
    /\ copy' = [copy EXCEPT !.step = "taken", !.at = Files(sys)]
    /\ Fine /\ UNCHANGED <<sys, host, run, apt, verdict>>

(* Mutant: only a kernel that is new is looked for. *)
CheckCopyHeld ==
    /\ copy.step = "taken"
    /\ copy' = [NoCopy EXCEPT
                  !.mark = IF sys.vmlinuz \subseteq copy.manifest[1]
                           THEN "complete" ELSE "stale"]
    /\ Fine /\ UNCHANGED <<sys, host, run, apt, verdict>>

CheckCopy ==
    /\ copy.step = "taken"
    /\ copy' = [NoCopy EXCEPT
                  !.mark = IF Files(sys) = copy.manifest THEN "complete"
                                                          ELSE "stale"]
    /\ Fine /\ UNCHANGED <<sys, host, run, apt, verdict>>

-----------------------------------------------------------------------------
(* apt and dpkg on the running system. *)

(* The hook refuses a boot package while a backup is visible; dpkg -i runs *)
(* no apt hook.  A configuration that names no hook stops every apt.       *)
AptAllows == "conf" \in sys.guards => "hook" \in sys.guards /\ ~Visible

StartInstall ==
    /\ apt = NoApt /\ host.where = "up" /\ host.boot
    /\ spent.apt < MaxApt
    /\ spent' = [spent EXCEPT !.apt = @ + 1]
    /\ \E k \in Kernels, direct \in BOOLEAN :
          /\ \A j \in sys.vmlinuz : j < k
          /\ direct \/ AptAllows
          /\ sys' = [sys EXCEPT !.vmlinuz = @ \cup {k}, !.mods = @ \cup {k}]
          /\ apt' = [op |-> "install", kernel |-> k]
    /\ UNCHANGED <<host, run, copy, verdict>>

(* A removal has no package file for the hook to see.  apt keeps the       *)
(* newest kernel and the running one.                                      *)
StartRemove ==
    /\ apt = NoApt /\ host.where = "up" /\ host.boot /\ sys.half = {}
    /\ \E k \in sys.vmlinuz \ {Newest(sys.vmlinuz), host.kernel} :
          /\ sys' = [sys EXCEPT !.vmlinuz = @ \ {k}, !.mods = @ \ {k},
                                !.initrd[k] = "none"]
          /\ apt' = [op |-> "remove", kernel |-> k]
    /\ Fine /\ UNCHANGED <<host, run, copy, verdict>>

(* The package's own scripts: the initrd, then update-grub; a refused one  *)
(* leaves the package half configured.                                     *)
Configure ==
    /\ apt # NoApt
    /\ LET built == IF apt.op = "install"
                    THEN [sys EXCEPT !.initrd[apt.kernel] = "good"] ELSE sys IN
       \E out \in UpdateGrub(built) :
          sys' = [built EXCEPT !.cfg = out[1],
                    !.half = IF out[2] THEN @ \ {apt.kernel}
                                       ELSE @ \cup {apt.kernel}]
    /\ apt' = NoApt
    /\ Fine /\ UNCHANGED <<host, run, copy, verdict>>

(* The operator runs apt again with the drive away. *)
ConfigureAgain ==
    /\ apt = NoApt /\ sys.half # {} /\ host.where = "up" /\ ~Visible
    /\ \E out \in UpdateGrub(sys) :
          sys' = [sys EXCEPT !.cfg = out[1], !.half = {}]
    /\ Fine /\ UNCHANGED <<host, run, apt, copy, verdict>>

-----------------------------------------------------------------------------
(* The operator, the drive and what goes wrong. *)

Plug ==
    /\ host.drive = "away" /\ spent.plugs < MaxPlugs
    /\ host' = [host EXCEPT !.drive = "seen"]
    /\ spent' = [spent EXCEPT !.plugs = @ + 1]
    /\ UNCHANGED <<sys, run, apt, copy, verdict>>

(* A backup or a mount imports the drive's pool under an altroot. *)
ImportBackup ==
    /\ host.drive = "seen" /\ host.where = "up"
    /\ host' = [host EXCEPT !.drive = "imported"]
    /\ Fine /\ UNCHANGED <<sys, run, apt, copy, verdict>>

Unplug ==
    /\ host.drive # "away" /\ copy.step = ""
    /\ host' = [host EXCEPT !.drive = "away"]
    /\ Fine /\ UNCHANGED <<sys, run, apt, copy, verdict>>

(* The machine boots what is installed, or the live USB when that fails or *)
(* the operator chooses it.                                                *)
Started(up) ==
    [where |-> IF up THEN "up" ELSE "live",
     drive |-> IF host.drive = "away" THEN "away" ELSE "seen",
     boot |-> sys.layout = "bpool" \/ "boot" \in sys.fstab,
     esp |-> "esp" \in sys.fstab, inuse |-> host.inuse /\ ~up,
     kernel |-> IF up THEN Newest(sys.cfg.entries) ELSE 0]

Restart ==
    /\ Idle /\ apt = NoApt /\ copy.step = ""
    /\ verdict \notin {"finished", "removed", "none"}
    /\ host' = Started(Boots)
    /\ Fine /\ UNCHANGED <<sys, run, apt, copy, verdict>>

(* After a finished system: it restarts into a new kernel. *)
Upgrade ==
    /\ Idle /\ apt = NoApt /\ copy.step = "" /\ verdict = "finished"
    /\ host.kernel # Newest(sys.cfg.entries)
    /\ host' = Started(Boots)
    /\ verdict' = IF Boots THEN "none" ELSE verdict
    /\ Fine /\ UNCHANGED <<sys, run, apt, copy>>

(* A repair that did not make it boot: the operator runs recover again. *)
RecoverAgain ==
    /\ Idle /\ host.where = "live" /\ ~Boots
    /\ verdict \in {"repaired", "killed", "fatal", "repair incomplete"}
    /\ \E s \in Restored : /\ s.layout = sys.layout /\ s.edited = sys.edited
                           /\ sys' = s
    /\ run' = Begin("recover", "cfg")
    /\ host' = [host EXCEPT !.inuse = TRUE, !.drive = "away"]
    /\ verdict' = "none"
    /\ Fine /\ UNCHANGED <<apt, copy>>

(* The operator does what finish's error line says of fstab's /boot. *)
FixFstab ==
    /\ Idle /\ verdict = "finish incomplete" /\ "boot" \notin sys.fstab
    /\ sys.layout = "ext4"
    /\ sys' = [sys EXCEPT !.fstab = @ \cup {"boot"}]
    /\ Fine /\ UNCHANGED <<host, run, apt, copy, verdict>>

(* An EFI binary is lost: another system's installer, a firmware.          *)
LoseEfi ==
    /\ Idle /\ host.where = "up" /\ Fault
    /\ \E f \in sys.efi : sys' = [sys EXCEPT !.efi = @ \ {f}]
    /\ UNCHANGED <<host, run, apt, copy, verdict>>

Kill ==
    /\ ~Idle /\ Fault
    /\ run' = NoRun /\ verdict' = "killed"
    /\ UNCHANGED <<sys, host, apt, copy>>

Recovers == \/ RecoverCfg \/ RecoverEfi \/ RecoverInitrd \/ RecoverRelease
            \/ RecoverBanner
Shared == \/ InstallGuard \/ CopyCfg
          \/ RunUpdateGrub \/ JudgeCfg \/ FinishInitrd \/ FinishUuid
Finishing == StartFinish \/ FinishBoot \/ FinishEsp \/ FinishBanner
Removal == StartRemoval \/ RemoveGuard \/ StartSetup
Repairs == StartRepair \/ RepairRelease \/ RepairBanner
Copies == CopyManifest \/ CopyBoot \/ TakePoint \/ CheckCopy
Packages == StartInstall \/ StartRemove \/ Configure \/ ConfigureAgain
Operator == Restart \/ Upgrade \/ RecoverAgain \/ FixFstab \/ Unplug

Next == \/ Recovers \/ Shared \/ Finishing \/ Removal \/ Repairs \/ Copies \/ Packages
        \/ Operator \/ Plug \/ ImportBackup \/ LoseEfi \/ Kill

(* A command runs on; the operator runs finish until it is complete,       *)
(* unplugs the drive when told, repairs and restarts what does not boot,   *)
(* and recovers again what a repair did not bring back.                    *)
Spec ==
    /\ Init /\ [][Next]_vars
    /\ WF_vars(Recovers \/ Shared \/ FinishBoot \/ FinishEsp \/ FinishBanner
               \/ RepairRelease \/ RepairBanner \/ RemoveGuard)
    /\ WF_vars(CopyBoot \/ TakePoint \/ CheckCopy)
    /\ WF_vars(Configure) /\ WF_vars(StartRepair)
    /\ SF_vars(StartFinish) /\ SF_vars(Unplug)
    /\ SF_vars(Restart) /\ SF_vars(RecoverAgain) /\ SF_vars(FixFstab)

-----------------------------------------------------------------------------
(* Properties. *)

TypeOK ==
    /\ sys \in SysType /\ host \in HostType /\ run \in RunType
    /\ apt \in AptType /\ copy \in CopyType /\ verdict \in Verdicts
    /\ spent \in [faults : 0..MaxFaults, plugs : 0..MaxPlugs, apt : 0..MaxApt]

(* FINISH COMPLETE: every kernel finish asked for that is still installed  *)
(* has a new initrd and an entry, and the EFI binaries are there, whatever *)
(* apt and a drive did while it ran (finish.run, regenerate_grub_cfg).     *)
FinishTrue ==
    [][verdict' = "finished" /\ verdict # "finished" =>
         /\ \A k \in run.asked \cap InstalledKernels(sys) :
               sys.initrd[k] = "good" /\ k \in sys.cfg.entries
         /\ sys.efi = {"shim", "grub"} /\ sys.cfg.uuid = "new"]_vars

(* BOOT REPAIR COMPLETE: with its EFI binaries the system boots, its pools *)
(* exported and its initrds and entries new (repair_boot.run).             *)
RepairTrue == verdict = "repaired" /\ sys.efi = {"shim", "grub"} => Boots

(* Once finished, and until the guards are removed, the system boots at    *)
(* every instant: in the middle of a kernel's installation or removal,     *)
(* with a drive plugged in at any time (the two guards).                   *)
StaysBootable ==
    verdict = "finished" /\ sys.efi = {"shim", "grub"} => Bootable(sys)

(* A finish or repair-boot that found a system that boots when it came to  *)
(* grub.cfg leaves one that boots, or said that no copy of this run was    *)
(* put back: a copy of an earlier run never is (regenerate_grub_cfg).      *)
(* Nothing is promised when apt removed one of the kernels the run asked   *)
(* an entry for: the copy that is put back may name it as the newest.      *)
KeepsBoot ==
    [][/\ run.cmd \in {"finish", "repair"} /\ run.step = "banner"
       /\ run'.cmd = "none" /\ verdict' # "killed"
       /\ run.booted /\ "lost" \notin run.fails
       /\ run.asked \subseteq sys.vmlinuz
       => (sys.efi = {"shim", "grub"} => Bootable(sys))]_vars

(* apt is never left with a configuration that names a hook that is not    *)
(* there, which stops every installation, wherever an install or a removal *)
(* of the guards is killed (apt_guard.install, apt_guard.remove).          *)
AptWorks == "conf" \in sys.guards => "hook" \in sys.guards

(* A point that is not marked stale holds the /boot its root had when the  *)
(* point was taken, with kernels installed by dpkg under it (BootRefresh). *)
PointWhole ==
    [][copy.step = "taken" /\ copy'.mark = "complete" => copy.held = copy.at]_vars

(* However the recovery, the repairs and the finishes fail or are killed   *)
(* on the way, the system ends finished: no command leaves a boot chain    *)
(* the next ones cannot complete.                                          *)
Finishes == <>(verdict = "finished")

(* Guarded: a finished system boots, and apt installs, at every instant    *)
(* between the installation of the guards and their removal.               *)
Guarded == StaysBootable /\ AptWorks

(* BannersTrue: what finish and repair-boot say at their end is so, and    *)
(* neither leaves unbootable a system that it found bootable.              *)
BannersTrue == FinishTrue /\ []RepairTrue /\ KeepsBoot
=============================================================================
