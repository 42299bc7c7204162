------------------------------ MODULE BootTrue ------------------------------
(***************************************************************************)
(* Proof of what the guards and the banners of the boot chain promise, for *)
(* any kernels and any number of faults, drives and installations: a       *)
(* finished system boots at every instant and apt installs, FINISH         *)
(* COMPLETE and BOOT REPAIR COMPLETE are so, a run leaves bootable what it *)
(* found bootable, and a point marked complete holds its root's /boot.     *)
(*                                                                         *)
(* GRUB boots the newest kernel grub.cfg names.  apt removes kernels, so   *)
(* the entry has to be one apt will not remove: when nothing is half       *)
(* configured it is the newest installed, which apt keeps; and while       *)
(* something is, apt removes nothing (Sound).  An update-grub of apt's     *)
(* lists every kernel or, refused by the guard, leaves the file alone.     *)
(* The stages of finish and repair-boot lead to Sound when nothing failed  *)
(* (Prepared, Updated, Judged) and, whatever failed, back to a grub.cfg as *)
(* good as the one the run copied (Anchor, Fair).  A copy of /boot is of   *)
(* one moment or its manifest never comes back (Copying).                  *)
(***************************************************************************)
EXTENDS Boot, TLAPS

(* Which steps each command has, where it runs, and what runs beside it.   *)
Session ==
  /\ run.cmd = "none" => run = NoRun
  /\ run.cmd # "none" => verdict = "none"
  /\ run.cmd = "recover" =>
       /\ run.step \in {"cfg", "efi", "guard", "hook", "conf", "boot", "release", "banner"}
       /\ host.where = "live"
  /\ run.cmd = "finish" =>
       /\ run.step \in {"guard", "hook", "conf", "boot", "initrd", "copy", "update",
                       "judge", "uuid", "esp", "banner"}
       /\ host.where = "up"
  /\ run.cmd = "repair" =>
       /\ run.step \in {"guard", "initrd", "copy", "update", "judge", "uuid",
                       "release", "banner"}
       /\ host.where = "live"
  /\ run.cmd \in {"remove", "setup"} =>
       run.step \in {"conf", "hook", "guard"} /\ host.where = "up"
  /\ apt # NoApt => host.where = "up" /\ apt.op # "none" /\ apt.kernel \in Kernels
  /\ copy.step # "" => verdict = "finished" /\ run.cmd = "none" /\ host.where = "up"

(* The kernels of /boot: apt's own is the newest while it installs, and    *)
(* the only one whose initrd may not be there yet.                         *)
IsNewest(m, ks) == m \in ks /\ \A j \in ks : j <= m

StockOf(s, a) ==
  /\ s.vmlinuz \subseteq s.mods
  /\ \A k \in s.vmlinuz : k >= 1
  /\ IsNewest(Newest(s.vmlinuz), s.vmlinuz)
  /\ \A k \in Kernels :
       /\ s.initrd[k] = "stale" => k = 1
       /\ k \notin s.vmlinuz => s.initrd[k] = "none"
       /\ k \in s.vmlinuz /\ s.initrd[k] = "none" => a.op = "install" /\ a.kernel = k
  /\ a.op = "install" =>
       /\ IsNewest(a.kernel, s.vmlinuz)
       /\ \E m \in s.vmlinuz : IsNewest(m, s.vmlinuz \ {a.kernel})

Stock == StockOf(sys, apt)

Ordered ==
  AptWorks /\ (run.cmd # "remove" /\ run.step = "conf" => "hook" \in sys.guards)

(* Kernels that apt can no longer install anew. *)
Old(ks) == \A j \in ks : j <= Newest(sys.vmlinuz)

Settled == sys.half = {} /\ apt = NoApt

Clean == /\ "grub" \in sys.guards
         /\ \A k \in sys.vmlinuz : sys.initrd[k] # "stale"

Sound ==
  /\ Clean
  /\ sys.cfg.uuid = "new" /\ sys.cfg.entries # {} /\ Old(sys.cfg.entries)
  /\ Newest(sys.cfg.entries) \in sys.vmlinuz
  /\ \A k \in sys.cfg.entries \cap sys.vmlinuz : sys.initrd[k] = "good"
  /\ Newest(sys.cfg.entries) \in sys.cfg.entries
  /\ Settled => Newest(sys.cfg.entries) = Newest(sys.vmlinuz)

(* finish and repair-boot, when nothing failed. *)
Rewriting == run.cmd \in {"finish", "repair"}

After == {"uuid", "esp", "release", "banner"}

Guarding ==
  Rewriting /\ run.step \notin {"guard", "release", "banner"} => "grub" \in sys.guards

Asked == Old(run.asked)

Prepared ==
  Rewriting /\ run.fails = {} /\ run.step \in {"copy", "update", "judge"} => Clean

Updated ==
  Rewriting /\ run.fails = {} /\ run.step = "judge" /\ run.ok
    => sys.cfg.entries = {} \/ Sound

Judged ==
  Rewriting /\ run.fails = {} /\ run.step \in After
    => Sound /\ run.asked \cap sys.vmlinuz \subseteq sys.cfg.entries

Closed ==
  /\ run.cmd = "finish" /\ run.fails = {} /\ run.step = "banner"
       => sys.efi = {"shim", "grub"}
  /\ run.cmd = "repair" /\ run.fails = {} /\ run.step = "banner" => ~host.inuse
  /\ verdict \in {"finished", "repaired"} => Sound
  /\ verdict = "repaired" => ~host.inuse

Completing == Guarding /\ Asked /\ Prepared /\ Updated /\ Judged /\ Closed

(* The system booted when grub.cfg was copied, and apt has removed none of *)
(* the kernels asked for since.                                            *)
Promised == Rewriting /\ run.booted /\ run.asked \subseteq sys.vmlinuz

(* The copy of grub.cfg, if the run made one, boots e.                     *)
PutBack(e) ==
  run.copied => /\ sys.prior[run.cmd].entries # {}
                /\ sys.prior[run.cmd].uuid = "new"
                /\ Newest(sys.prior[run.cmd].entries) = e

Anchor ==
  Promised /\ run.step \in {"update", "judge"} \cup After =>
    /\ "grub" \in sys.guards
    /\ \E e \in run.asked : sys.initrd[e] = "good" /\ PutBack(e)

Fair ==
  /\ sys.cfg.uuid = "new" /\ sys.cfg.entries # {}
  /\ Newest(sys.cfg.entries) \in sys.vmlinuz
  /\ sys.initrd[Newest(sys.cfg.entries)] = "good"
  /\ \/ Newest(sys.cfg.entries) \in run.asked
     \/ Settled => Newest(sys.cfg.entries) = Newest(sys.vmlinuz)

Keeping ==
  /\ Rewriting /\ run.booted => run.step \in {"update", "judge"} \cup After
  /\ Anchor
  /\ Promised /\ run.step = "judge" /\ run.ok => sys.cfg.entries = {} \/ Fair
  /\ Promised /\ run.step \in After /\ "lost" \notin run.fails => Fair

(* /boot has moved on from a manifest, and cannot come back to it: a newer *)
(* kernel is there, one is gone for good, or an initrd has been made.      *)
Moved(m) ==
  \/ \A j \in m[1] : j < Newest(sys.vmlinuz)
  \/ \E k \in m[1] : k \notin sys.vmlinuz /\ k < Newest(sys.vmlinuz)
  \/ /\ sys.vmlinuz = m[1]
     /\ \E k \in m[1] : m[2][k] = "none" /\ sys.initrd[k] # "none"

Copying ==
  copy.step # "" =>
    /\ host.drive = "imported" /\ copy.mark = "none"
    /\ \/ Moved(copy.manifest)
       \/ /\ Files(sys) = copy.manifest
          /\ copy.step \in {"copied", "taken"} => copy.held = copy.manifest
          /\ copy.step = "taken" => copy.at = copy.manifest

BootInv == TypeOK /\ Session /\ Stock /\ Ordered /\ Completing /\ Keeping /\ Copying
-----------------------------------------------------------------------------
(* Newest is the greatest, when there is one.                              *)
LEMMA NewestIs ==
  ASSUME NEW S \in SUBSET Nat, NEW m \in S, \A j \in S : j <= m
  PROVE  Newest(S) = m
<1>1. \A k \in S : (\A j \in S : j <= k) => k = m
  OBVIOUS
<1> QED
  BY <1>1 DEF Newest

(* The steps and failures a command may have.                              *)
StepNames == {"", "cfg", "efi", "guard", "hook", "conf", "boot", "initrd", "copy",
              "update", "judge", "uuid", "esp", "release", "banner"}
FailNames == {"cfg", "efi", "boot", "initrd", "grub", "esp", "pools", "lost"}

LEMMA RunTypes ==
  ASSUME run \in RunType
  PROVE  /\ NoRun \in RunType
         /\ \A s \in StepNames : Goes(s) => run' \in RunType
         /\ \A s \in StepNames, f \in SUBSET FailNames :
              GoesWith(s, f) => run' \in RunType
         /\ \A c \in {"recover", "finish", "repair", "remove", "setup"}, s \in StepNames :
              Begin(c, s) \in RunType
<1> USE DEF RunType, StepNames
<1>1. NoRun \in RunType
  BY DEF NoRun
<1>2. \A s \in StepNames : Goes(s) => run' \in RunType
  BY ZenonT(60) DEF Goes
<1>3. \A s \in StepNames, f \in SUBSET FailNames : GoesWith(s, f) => run' \in RunType
  <2> TAKE s \in StepNames, f \in SUBSET FailNames
  <2>1. run.fails \cup f \in SUBSET FailNames
    BY DEF FailNames
  <2> QED
    BY <2>1, ZenonT(60) DEF GoesWith, FailNames
<1>4. \A c \in {"recover", "finish", "repair", "remove", "setup"}, s \in StepNames :
        Begin(c, s) \in RunType
  BY ZenonT(60) DEF Begin, NoRun
<1> QED
  BY <1>1, <1>2, <1>3, <1>4

LEMMA SpentTypes ==
  ASSUME TypeOK, Fine \/ Fault
  PROVE  spent' \in [faults : 0..MaxFaults, plugs : 0..MaxPlugs, apt : 0..MaxApt]
BY BoundsAssumption DEF TypeOK, Fine, Fault

LEMMA RewritingAt ==
  ASSUME TypeOK, Session, run.step \in {"copy", "update", "judge", "uuid"}
  PROVE  run.cmd \in {"finish", "repair"}
<1>1. run.cmd \in {"none", "recover", "finish", "repair", "remove", "setup"}
  BY DEF TypeOK, RunType
<1>2. run.cmd # "none"
  <2>1. run.cmd = "none" => run = NoRun
    BY DEF Session
  <2>2. NoRun.step = ""
    BY DEF NoRun
  <2> QED
    BY <2>1, <2>2
<1>3. run.cmd \notin {"recover", "remove", "setup"}
  BY DEF Session
<1> QED
  BY <1>1, <1>2, <1>3

(* What a regenerated initrd leaves.                                       *)
LEMMA InitrdTypes ==
  ASSUME TypeOK, NEW next \in StepNames, RegenerateInitrd(next)
  PROVE  sys' \in SysType /\ run' \in RunType /\ spent' \in [faults : 0..MaxFaults,
           plugs : 0..MaxPlugs, apt : 0..MaxApt]
<1>1. run' \in RunType
  BY RunTypes, {"initrd"} \in SUBSET FailNames DEF FailNames, RegenerateInitrd, TypeOK
<1>2. sys' \in SysType
  BY DEF RegenerateInitrd, TypeOK, SysType, InstalledKernels
<1>3. Fine \/ Fault
  BY DEF RegenerateInitrd
<1> QED
  BY <1>1, <1>2, <1>3, SpentTypes

(* update-grub leaves the file alone, lists the kernels that have an       *)
(* initrd, or leaves no entry; as the guard decides when nothing fails.    *)
Relist(s) == [entries |-> Listed(s), uuid |-> "new"]
Blank == [entries |-> {}, uuid |-> "new"]

LEMMA Outcomes ==
  ASSUME NEW s, NEW out \in UpdateGrub(s)
  PROVE  \/ out = <<s.cfg, FALSE>> /\ Refuses(s)
         \/ out = <<Relist(s), TRUE>> /\ ~Visible
         \/ out = <<Blank, TRUE>> /\ Visible /\ "grub" \notin s.guards
BY DEF UpdateGrub, Relist, Blank, Refuses

LEMMA OutcomeTypes ==
  ASSUME NEW s \in SysType, NEW out \in UpdateGrub(s) \cup UpdateGrubFails(s)
  PROVE  out[1] \in CfgType /\ out[2] \in BOOLEAN
<1>1. Relist(s) \in CfgType /\ Blank \in CfgType /\ s.cfg \in CfgType
  BY DEF SysType, Listed, CfgType, Relist, Blank
<1>2. out \in {<<s.cfg, FALSE>>, <<Relist(s), TRUE>>, <<Blank, TRUE>>}
  BY Outcomes DEF UpdateGrubFails, Blank
<1>3. <<s.cfg, FALSE>>[1] = s.cfg /\ <<s.cfg, FALSE>>[2] = FALSE
      /\ <<Relist(s), TRUE>>[1] = Relist(s) /\ <<Relist(s), TRUE>>[2] = TRUE
      /\ <<Blank, TRUE>>[1] = Blank /\ <<Blank, TRUE>>[2] = TRUE
  OBVIOUS
<1>4. \/ out[1] = s.cfg /\ out[2] = FALSE
      \/ out[1] = Relist(s) /\ out[2] = TRUE
      \/ out[1] = Blank /\ out[2] = TRUE
  BY <1>2, <1>3, Zenon
<1> QED
  BY <1>1, <1>4

(* What the verdict on grub.cfg leaves.                                    *)
LEMMA JudgeEffect ==
  ASSUME JudgeCfg
  PROVE  \/ sys' = sys /\ Goes("uuid") /\ run.ok /\ Missing = {}
         \/ /\ sys' = [sys EXCEPT !.cfg = sys.prior[run.cmd]] /\ run.copied
            /\ GoesWith("uuid", {"grub"})
         \/ sys' = sys /\ GoesWith("uuid", {"grub", "lost"})
<1>1. CASE \E r \in RestoredCfg : sys' = r[1] /\ GoesWith("uuid", {"grub"} \cup r[2])
  <2>1. {"grub"} \cup {} = {"grub"} /\ {"grub"} \cup {"lost"} = {"grub", "lost"}
    OBVIOUS
  <2>2. PICK r \in RestoredCfg : sys' = r[1] /\ GoesWith("uuid", {"grub"} \cup r[2])
    BY <1>1
  <2>3. CASE run.copied
    <3>1. r[1] = [sys EXCEPT !.cfg = sys.prior[run.cmd]] /\ r[2] = {}
      BY <2>3 DEF RestoredCfg
    <3> QED
      BY <2>1, <2>2, <2>3, <3>1
  <2>4. CASE ~run.copied
    <3>1. r[1] = sys /\ r[2] = {"lost"}
      BY <2>4 DEF RestoredCfg
    <3> QED
      BY <2>1, <2>2, <3>1
  <2> QED
    BY <2>3, <2>4
<1> QED
  BY <1>1 DEF JudgeCfg

(* Every step keeps the types: first those of a command.                   *)
LEMMA RecoverTypes ==
  ASSUME TypeOK, Session, Recovers
  PROVE  TypeOK'
<1>1. CASE RecoverCfg
  <2>1. \E u \in {"old", "new"}, f \in SUBSET {"esp", "boot"} :
          sys' = [sys EXCEPT !.cfg.uuid = u, !.fstab = f]
    <3>1. sys.cfg.uuid \in {"old", "new"}
      BY DEF TypeOK, SysType, CfgType
    <3>2. sys' = [sys EXCEPT !.cfg.uuid = "new", !.fstab = {"esp", "boot"}]
          \/ \E f \in {"esp", "boot", "uuid"} :
               sys' = [sys EXCEPT !.cfg.uuid = IF f = "uuid" THEN @ ELSE "new",
                                  !.fstab = {"esp", "boot"} \ {f}]
      BY <1>1 DEF RecoverCfg
    <3> QED
      BY <3>1, <3>2
  <2>3. sys' \in SysType
    <3>1. PICK u \in {"old", "new"}, f \in SUBSET {"esp", "boot"} :
            sys' = [sys EXCEPT !.cfg.uuid = u, !.fstab = f]
      BY <2>1
    <3>2. sys' = [sys EXCEPT !.cfg = [sys.cfg EXCEPT !.uuid = u], !.fstab = f]
      BY <3>1 DEF TypeOK, SysType
    <3>3. [sys.cfg EXCEPT !.uuid = u] \in CfgType
      BY DEF TypeOK, SysType, CfgType
    <3> QED
      BY <3>2, <3>3 DEF TypeOK, SysType
  <2>2. run' \in RunType
    BY <1>1, RunTypes DEF RecoverCfg, TypeOK, StepNames, FailNames
  <2> QED
    BY <1>1, <2>3, <2>2, SpentTypes DEF RecoverCfg, TypeOK, Keep
<1>2. CASE RecoverEfi
  <2>1. sys' \in SysType
    BY <1>2 DEF RecoverEfi, TypeOK, SysType
  <2>2. run' \in RunType
    BY <1>2, RunTypes DEF RecoverEfi, TypeOK, StepNames, FailNames
  <2> QED
    BY <1>2, <2>1, <2>2, SpentTypes DEF RecoverEfi, TypeOK, Keep
<1>3. CASE RecoverInitrd
  BY <1>3, InitrdTypes DEF RecoverInitrd, TypeOK, Keep, StepNames
<1>4. CASE RecoverRelease
  <2>1. run' \in RunType
    BY <1>4, RunTypes DEF RecoverRelease, Release, TypeOK, StepNames, FailNames
  <2>2. host' \in HostType
    BY <1>4 DEF RecoverRelease, Release, TypeOK, HostType
  <2> QED
    BY <1>4, <2>1, <2>2, SpentTypes
    DEF RecoverRelease, Release, TypeOK, Keep
<1>5. CASE RecoverBanner
  BY <1>5, RunTypes DEF RecoverBanner, TypeOK, Fine, Verdicts
<1> QED
  BY <1>1, <1>2, <1>3, <1>4, <1>5 DEF Recovers

LEMMA SharedTypes ==
  ASSUME TypeOK, Session, Shared
  PROVE  TypeOK'
<1>1. CASE InstallGuard
  <2>1. PICK file \in Guards : /\ sys' = Installed(file)
                              /\ run.step = Step(file)
                              /\ run.cmd # "remove"
                              /\ IF run.cmd = "setup" /\ file = "grub" THEN run' = NoRun
                                 ELSE Goes(CASE run.cmd = "repair" -> "initrd"
                                             [] run.cmd = "setup" /\ file = "conf" -> "guard"
                                             [] OTHER -> NextGuard(file))
    BY <1>1 DEF InstallGuard
  <2>2. sys' \in SysType
    BY <2>1 DEF TypeOK, SysType, Installed
  <2>3. run' = NoRun \/ \E s \in {"initrd", "guard", "hook", "conf", "boot"} : Goes(s)
    BY <2>1 DEF NextGuard, Guards
  <2>4. run' \in RunType
    BY <2>3, RunTypes DEF StepNames, TypeOK
  <2> QED
    BY <1>1, <2>2, <2>4 DEF TypeOK, InstallGuard, Fine, Keep
<1>2. CASE CopyCfg
  <2>1. run.cmd \in {"finish", "repair"}
    BY <1>2, RewritingAt DEF CopyCfg
  <2>2. sys' \in SysType
    BY <1>2, <2>1 DEF CopyCfg, TypeOK, SysType
  <2>3. Bootable(sys) \in BOOLEAN /\ InstalledKernels(sys) \in SUBSET Kernels
    BY DEF Bootable, InstalledKernels, TypeOK, SysType
  <2>4. \E a \in SUBSET Kernels, b \in BOOLEAN, c \in BOOLEAN :
          run' = [run EXCEPT !.step = "update", !.copied = c, !.asked = a, !.booted = b]
    <3>1. TRUE \in BOOLEAN /\ FALSE \in BOOLEAN
      OBVIOUS
    <3>2. CASE run' = [run EXCEPT !.step = "update", !.copied = TRUE,
                         !.asked = InstalledKernels(sys), !.booted = Bootable(sys)]
      BY <2>3, <3>1, <3>2, Zenon
    <3>3. CASE run' = [run EXCEPT !.step = "update", !.copied = FALSE,
                         !.asked = InstalledKernels(sys), !.booted = Bootable(sys)]
      BY <2>3, <3>1, <3>3, Zenon
    <3> QED
      BY <1>2, <3>2, <3>3 DEF CopyCfg
  <2>5. run' \in RunType
    <3>1. PICK a \in SUBSET Kernels, b \in BOOLEAN, c \in BOOLEAN :
            run' = [run EXCEPT !.step = "update", !.copied = c, !.asked = a, !.booted = b]
      BY <2>4
    <3> QED
      BY <3>1 DEF TypeOK, RunType
  <2> QED
    BY <1>2, <2>2, <2>5, SpentTypes DEF CopyCfg, TypeOK, Keep
<1>3. CASE RunUpdateGrub
  <2>1. PICK out \in UpdateGrub(sys) \cup UpdateGrubFails(sys) :
          /\ sys' = [sys EXCEPT !.cfg = out[1]]
          /\ run' = [run EXCEPT !.step = "judge", !.ok = out[2]]
    BY <1>3 DEF RunUpdateGrub
  <2>2. out[1] \in CfgType /\ out[2] \in BOOLEAN
    BY <2>1, OutcomeTypes DEF TypeOK
  <2>3. sys' \in SysType /\ run' \in RunType
    BY <2>1, <2>2 DEF TypeOK, SysType, RunType
  <2> QED
    BY <1>3, <2>3, SpentTypes DEF RunUpdateGrub, TypeOK, Keep
<1>4. CASE JudgeCfg
  <2>1. run.cmd \in {"finish", "repair"}
    BY <1>4, RewritingAt DEF JudgeCfg
  <2>2. sys.prior[run.cmd] \in CfgType
    BY <2>1 DEF TypeOK, SysType
  <2>3. sys' = sys \/ sys' = [sys EXCEPT !.cfg = sys.prior[run.cmd]]
    BY <1>4, JudgeEffect
  <2>4. sys' \in SysType
    BY <2>2, <2>3 DEF TypeOK, SysType
  <2>5. Goes("uuid") \/ GoesWith("uuid", {"grub"}) \/ GoesWith("uuid", {"grub", "lost"})
    BY <1>4, JudgeEffect
  <2>6. run' \in RunType
    BY <2>5, RunTypes DEF TypeOK, StepNames, FailNames
  <2> QED
    BY <1>4, <2>4, <2>6, SpentTypes DEF JudgeCfg, TypeOK, Keep
<1>5. CASE FinishInitrd
  BY <1>5, InitrdTypes DEF FinishInitrd, TypeOK, Keep, StepNames
<1>6. CASE FinishUuid
  <2>1. sys' \in SysType
    BY <1>6 DEF FinishUuid, FixUuid, TypeOK, SysType, CfgType
  <2>2. run' \in RunType
    BY <1>6, RunTypes DEF FinishUuid, FixUuid, TypeOK, StepNames
  <2> QED
    BY <1>6, <2>1, <2>2, SpentTypes DEF FinishUuid, FixUuid, TypeOK, Keep
<1> QED
  BY <1>1, <1>2, <1>3, <1>4, <1>5, <1>6 DEF Shared

LEMMA CommandTypes ==
  ASSUME TypeOK, Session, Finishing \/ Removal \/ Repairs \/ Kill
  PROVE  TypeOK'
<1>1. CASE StartFinish
  BY <1>1, RunTypes DEF StartFinish, TypeOK, Fine, Verdicts, StepNames
<1>2. CASE FinishBoot
  <2>1. run' \in RunType
    BY <1>2, RunTypes DEF FinishBoot, TypeOK, StepNames, FailNames
  <2>2. host' \in HostType
    BY <1>2 DEF FinishBoot, TypeOK, HostType
  <2> QED
    BY <1>2, <2>1, <2>2 DEF FinishBoot, TypeOK, Keep, Fine
<1>3. CASE FinishEsp
  <2>1. run' \in RunType
    BY <1>3, RunTypes DEF FinishEsp, TypeOK, StepNames, FailNames
  <2>2. \E e \in SUBSET {"shim", "grub"} :
          sys' = [sys EXCEPT !.fstab = @ \cup {"esp"}, !.efi = e]
    <3>1. sys.efi \in SUBSET {"shim", "grub"}
      BY DEF TypeOK, SysType
    <3>2. [sys EXCEPT !.fstab = @ \cup {"esp"}]
            = [sys EXCEPT !.fstab = @ \cup {"esp"}, !.efi = sys.efi]
      BY DEF TypeOK, SysType
    <3> QED
      BY <1>3, <3>1, <3>2 DEF FinishEsp
  <2>3. PICK e \in SUBSET {"shim", "grub"} :
          sys' = [sys EXCEPT !.fstab = @ \cup {"esp"}, !.efi = e]
    BY <2>2
  <2>4. sys.fstab \cup {"esp"} \in SUBSET {"esp", "boot"}
    BY DEF TypeOK, SysType
  <2>5. sys' \in SysType
    BY <2>3, <2>4 DEF TypeOK, SysType
  <2> QED
    BY <1>3, <2>1, <2>5, SpentTypes DEF FinishEsp, TypeOK, Keep
<1>4. CASE FinishBanner
  BY <1>4, RunTypes, SpentTypes DEF FinishBanner, TypeOK, Verdicts
<1>5. CASE StartRemoval \/ StartSetup
  BY <1>5, RunTypes DEF StartRemoval, StartSetup, TypeOK, Fine, Verdicts, StepNames
<1>6. CASE RemoveGuard
  <2>1. PICK file \in Guards : sys' = Removed(file)
    BY <1>6 DEF RemoveGuard
  <2>2. sys' \in SysType
    BY <2>1 DEF TypeOK, SysType, Removed
  <2>3. run' \in RunType
    BY <1>6, RunTypes DEF RemoveGuard, TypeOK, StepNames
  <2> QED
    BY <1>6, <2>2, <2>3 DEF RemoveGuard, TypeOK, Fine, Verdicts
<1>7. CASE StartRepair
  <2>1. host' \in HostType
    BY <1>7 DEF StartRepair, TypeOK, HostType
  <2>2. [Begin("repair", "release") EXCEPT !.fails = {"boot"}] \in RunType
    BY DEF Begin, NoRun, RunType
  <2>3. run' \in RunType
    BY <1>7, <2>2, RunTypes DEF StartRepair, TypeOK, StepNames
  <2> QED
    BY <1>7, <2>1, <2>3, SpentTypes DEF StartRepair, TypeOK, Verdicts
<1>8. CASE RepairRelease
  <2>1. run' \in RunType
    BY <1>8, RunTypes DEF RepairRelease, Release, TypeOK, StepNames, FailNames
  <2>2. host' \in HostType
    BY <1>8 DEF RepairRelease, Release, TypeOK, HostType
  <2> QED
    BY <1>8, <2>1, <2>2, SpentTypes
    DEF RepairRelease, Release, TypeOK, Keep
<1>9. CASE RepairBanner
  BY <1>9, RunTypes DEF RepairBanner, TypeOK, Fine, Verdicts
<1>10. CASE Kill
  BY <1>10, RunTypes, SpentTypes DEF Kill, TypeOK, Verdicts
<1> QED
  BY <1>1, <1>2, <1>3, <1>4, <1>5, <1>6, <1>7, <1>8, <1>9, <1>10
  DEF Finishing, Removal, Repairs

(* The systems that recover mounts have the type.                         *)
LEMMA RestoredTypes == Restored \subseteq SysType
  <1>1. /\ [entries |-> {1}, uuid |-> "old"] \in CfgType /\ NoCfg \in CfgType
        /\ {1} \in SUBSET Kernels
        /\ [k \in Kernels |-> IF k = 1 THEN "stale" ELSE "none"]
             \in [Kernels -> {"none", "stale", "good"}]
    BY KernelsAssumption DEF CfgType, NoCfg
  <1> SUFFICES ASSUME NEW s \in Restored
               PROVE  s \in SysType
    OBVIOUS
  <1> DEFINE layouts == {"bpool", "ext4"}
             modules == {{1}, Kernels}
             guards == {<<{}, FALSE>>, <<Guards, FALSE>>, <<Guards, TRUE>>}
             Such(l, m, g) ==
               [layout |-> l, vmlinuz |-> {1}, mods |-> m,
                initrd |-> [k \in Kernels |-> IF k = 1 THEN "stale" ELSE "none"],
                cfg |-> [entries |-> {1}, uuid |-> "old"],
                prior |-> [c \in {"finish", "repair"} |-> NoCfg],
                efi |-> {}, guards |-> g[1], edited |-> g[2],
                fstab |-> {}, half |-> {}]
  <1>2. s \in {Such(l, m, g) : l \in layouts, m \in modules, g \in guards}
    BY DEF Restored
  <1> HIDE DEF Such, layouts, modules, guards
  <1>3. PICK l \in layouts, m \in modules, g \in guards : s = Such(l, m, g)
    BY <1>2, SMT
  <1> USE DEF layouts, modules, guards
  <1>4. g[1] \in SUBSET Guards /\ g[2] \in BOOLEAN
    <2>1. CASE g = <<{}, FALSE>>
      BY <2>1
    <2>2. CASE g = <<Guards, FALSE>>
      BY <2>2
    <2>3. CASE g = <<Guards, TRUE>>
      BY <2>3
    <2> QED
      BY <2>1, <2>2, <2>3
  <1>5. m \in SUBSET Kernels
    BY <1>1
  <1> QED
    BY <1>1, <1>4, <1>5, <1>3 DEF SysType, Such

LEMMA OtherTypes ==
  ASSUME TypeOK, Session, Copies \/ Packages \/ Operator \/ Plug \/ ImportBackup \/ LoseEfi
  PROVE  TypeOK'
<1>1. CASE Copies
  <2>1. Files(sys) \in FilesType /\ NoCopy \in CopyType
    BY DEF Files, FilesType, NoCopy, CopyType, NoFiles, NoCfg, CfgType, TypeOK, SysType
  <2>2. copy' \in CopyType
    BY <1>1, <2>1, ZenonT(60) DEF Copies, CopyManifest, CopyBoot, TakePoint, CheckCopy, TypeOK, CopyType
  <2>3. UNCHANGED <<sys, host, run, apt, verdict>> /\ (Fine \/ Fault)
    BY <1>1 DEF Copies, CopyManifest, CopyBoot, TakePoint, CheckCopy
  <2> QED
    BY <2>2, <2>3, SpentTypes DEF TypeOK
<1>2. CASE StartInstall
  <2>1. PICK k \in Kernels :
          /\ sys' = [sys EXCEPT !.vmlinuz = @ \cup {k}, !.mods = @ \cup {k}]
          /\ apt' = [op |-> "install", kernel |-> k]
    BY <1>2 DEF StartInstall
  <2>2. sys' \in SysType /\ apt' \in AptType
    BY <2>1 DEF TypeOK, SysType, AptType
  <2> QED
    BY <1>2, <2>2, BoundsAssumption DEF StartInstall, TypeOK
<1>3. CASE StartRemove
  <2>1. PICK k \in sys.vmlinuz :
          /\ sys' = [sys EXCEPT !.vmlinuz = @ \ {k}, !.mods = @ \ {k}, !.initrd[k] = "none"]
          /\ apt' = [op |-> "remove", kernel |-> k]
    BY <1>3 DEF StartRemove
  <2>2. sys' \in SysType /\ apt' \in AptType
    BY <2>1 DEF TypeOK, SysType, AptType
  <2> QED
    BY <1>3, <2>2 DEF StartRemove, TypeOK, Fine
<1>4. CASE Configure
  <2> DEFINE built == IF apt.op = "install"
                      THEN [sys EXCEPT !.initrd[apt.kernel] = "good"] ELSE sys
  <2>1. PICK out \in UpdateGrub(built) :
          sys' = [built EXCEPT !.cfg = out[1],
                    !.half = IF out[2] THEN @ \ {apt.kernel} ELSE @ \cup {apt.kernel}]
    BY <1>4 DEF Configure
  <2>2. apt.kernel \in Kernels
    BY <1>4 DEF Configure, Session
  <2>3. built \in SysType
    BY <2>2 DEF TypeOK, SysType
  <2>4. out[1] \in CfgType
    BY <2>1, <2>3, OutcomeTypes
  <2> HIDE DEF built
  <2>5. sys' \in SysType
    BY <2>1, <2>2, <2>3, <2>4 DEF SysType
  <2> QED
    BY <1>4, <2>5 DEF Configure, TypeOK, AptType, NoApt, Fine
<1>5. CASE ConfigureAgain
  <2>1. PICK out \in UpdateGrub(sys) : sys' = [sys EXCEPT !.cfg = out[1], !.half = {}]
    BY <1>5 DEF ConfigureAgain
  <2>2. out[1] \in CfgType
    BY <2>1, OutcomeTypes DEF TypeOK
  <2>3. sys' \in SysType
    BY <2>1, <2>2 DEF TypeOK, SysType
  <2> QED
    BY <1>5, <2>3 DEF ConfigureAgain, TypeOK, Fine
<1>6. CASE Restart \/ Upgrade
  <2>1. Boots => Newest(sys.cfg.entries) \in Kernels
    BY DEF Boots, Bootable, TypeOK, SysType
  <2>2. Boots \in BOOLEAN
    BY DEF Boots, Bootable
  <2>3. Started(Boots) \in HostType
    BY <2>1, <2>2 DEF Started, HostType, TypeOK
  <2> QED
    BY <1>6, <2>3 DEF Restart, Upgrade, TypeOK, Fine, Verdicts
<1>7. CASE RecoverAgain
  <2>2. sys' \in SysType
    BY <1>7, RestoredTypes DEF RecoverAgain
  <2>3. host' \in HostType
    BY <1>7 DEF RecoverAgain, TypeOK, HostType
  <2> QED
    BY <1>7, <2>2, <2>3, RunTypes DEF RecoverAgain, TypeOK, Fine, Verdicts, StepNames
<1>8. CASE FixFstab
  <2>1. sys' \in SysType
    BY <1>8 DEF FixFstab, TypeOK, SysType
  <2> QED
    BY <1>8, <2>1 DEF FixFstab, TypeOK, Fine
<1>9. CASE Unplug \/ Plug \/ ImportBackup
  <2>1. host' \in HostType
    BY <1>9, ZenonT(60) DEF Unplug, Plug, ImportBackup, TypeOK, HostType
  <2>2. spent' \in [faults : 0..MaxFaults, plugs : 0..MaxPlugs, apt : 0..MaxApt]
    <3>1. CASE Plug
      BY <3>1, BoundsAssumption DEF Plug, TypeOK
    <3>2. CASE Unplug \/ ImportBackup
      BY <3>2 DEF Unplug, ImportBackup, TypeOK, Fine
    <3> QED
      BY <1>9, <3>1, <3>2
  <2> QED
    BY <1>9, <2>1, <2>2 DEF Unplug, Plug, ImportBackup, TypeOK
<1>10. CASE LoseEfi
  <2>1. sys' \in SysType
    BY <1>10 DEF LoseEfi, TypeOK, SysType
  <2> QED
    BY <1>10, <2>1, SpentTypes DEF LoseEfi, TypeOK
<1> QED
  BY <1>1, <1>2, <1>3, <1>4, <1>5, <1>6, <1>7, <1>8, <1>9, <1>10 DEF Packages, Operator

LEMMA TypeStep == ASSUME TypeOK, Session, [Next]_vars PROVE TypeOK'
<1>1. CASE UNCHANGED vars
  BY <1>1 DEF vars, TypeOK
<1> QED
  BY <1>1, RecoverTypes, SharedTypes, CommandTypes, OtherTypes DEF Next

(* What a move leaves of a run.                                            *)
LEMMA Moves ==
  ASSUME TypeOK
  PROVE  /\ \A s \in StepNames : Goes(s) =>
              /\ run'.cmd = run.cmd /\ run'.step = s /\ run'.fails = run.fails
              /\ run'.copied = run.copied /\ run'.ok = run.ok
              /\ run'.booted = run.booted /\ run'.asked = run.asked
         /\ \A s \in StepNames : \A f : GoesWith(s, f) =>
              /\ run'.cmd = run.cmd /\ run'.step = s /\ run'.fails = run.fails \cup f
              /\ run'.copied = run.copied /\ run'.ok = run.ok
              /\ run'.booted = run.booted /\ run'.asked = run.asked
         /\ NoRun.cmd = "none" /\ NoRun.step = "" /\ NoRun.fails = {}
         /\ NoRun.booted = FALSE /\ NoRun.asked = {}
BY DEF TypeOK, RunType, Goes, GoesWith, NoRun

(* Which command is at which step.                                         *)
LEMMA RecoverSession == ASSUME TypeOK, Session, Recovers PROVE Session'
<1> USE Moves DEF StepNames, Session, On, Keep
<1>1. CASE RecoverCfg
  BY <1>1 DEF RecoverCfg
<1>2. CASE RecoverEfi
  BY <1>2 DEF RecoverEfi
<1>3. CASE RecoverInitrd
  BY <1>3 DEF RecoverInitrd, RegenerateInitrd
<1>4. CASE RecoverRelease
  BY <1>4 DEF RecoverRelease, Release, TypeOK, HostType
<1>5. CASE RecoverBanner
  BY <1>5 DEF RecoverBanner
<1> QED
  BY <1>1, <1>2, <1>3, <1>4, <1>5 DEF Recovers

LEMMA SharedSession == ASSUME TypeOK, Session, Shared PROVE Session'
<1> USE Moves DEF StepNames, Session, On, Keep
<1>1. CASE InstallGuard
  BY <1>1, ZenonT(60) DEF InstallGuard, Step, NextGuard, Guards
<1>2. CASE CopyCfg \/ RunUpdateGrub
  <2>1. run'.cmd = run.cmd /\ run'.step \in {"update", "judge"} /\ run.cmd \in {"finish", "repair"}
    BY <1>2, RewritingAt DEF CopyCfg, RunUpdateGrub, TypeOK, RunType
  <2> QED
    BY <1>2, <2>1, ZenonT(60) DEF CopyCfg, RunUpdateGrub
<1>3. CASE JudgeCfg
  <2>1. run'.cmd = run.cmd /\ run'.step = "uuid" /\ run.cmd \in {"finish", "repair"}
    BY <1>3, RewritingAt DEF JudgeCfg
  <2> QED
    BY <1>3, <2>1 DEF JudgeCfg
<1>4. CASE FinishInitrd
  BY <1>4 DEF FinishInitrd, RegenerateInitrd
<1>5. CASE FinishUuid
  BY <1>5 DEF FinishUuid, FixUuid
<1> QED
  BY <1>1, <1>2, <1>3, <1>4, <1>5 DEF Shared

LEMMA CommandSession ==
  ASSUME TypeOK, Session, Finishing \/ Removal \/ Repairs \/ Kill
  PROVE  Session'
<1> USE Moves DEF StepNames, Session, On, Idle, Keep
<1>1. CASE StartFinish
  <2>1. run'.cmd = "finish" /\ run'.step = "guard"
    BY <1>1 DEF StartFinish, Begin, NoRun
  <2> QED
    BY <1>1, <2>1 DEF StartFinish
<1>2. CASE FinishBoot
  BY <1>2 DEF FinishBoot, TypeOK, HostType
<1>3. CASE FinishEsp
  BY <1>3 DEF FinishEsp
<1>4. CASE FinishBanner
  BY <1>4 DEF FinishBanner
<1>5. CASE StartRemoval
  <2>1. run'.cmd = "remove" /\ run'.step = "conf"
    BY <1>5 DEF StartRemoval, Begin, NoRun
  <2> QED
    BY <1>5, <2>1 DEF StartRemoval
<1>6. CASE StartSetup
  <2>1. run'.cmd = "setup" /\ run'.step = "hook"
    BY <1>6 DEF StartSetup, Begin, NoRun
  <2> QED
    BY <1>6, <2>1 DEF StartSetup
<1>7. CASE RemoveGuard
  BY <1>7 DEF RemoveGuard, Step
<1>8. CASE StartRepair
  <2>1. [Begin("repair", "release") EXCEPT !.fails = {"boot"}].cmd = "repair"
        /\ [Begin("repair", "release") EXCEPT !.fails = {"boot"}].step = "release"
    BY DEF Begin, NoRun
  <2>2. run'.cmd = "repair" /\ run'.step \in {"guard", "release"}
    BY <1>8, <2>1 DEF StartRepair, Begin, NoRun
  <2>3. host'.where = "live" /\ apt = NoApt /\ copy.step = ""
    BY <1>8 DEF StartRepair, TypeOK, HostType
  <2> QED
    BY <1>8, <2>2, <2>3 DEF StartRepair
<1>9. CASE RepairRelease
  BY <1>9 DEF RepairRelease, Release, TypeOK, HostType
<1>10. CASE RepairBanner
  BY <1>10 DEF RepairBanner
<1>11. CASE Kill
  BY <1>11 DEF Kill
<1> QED
  BY <1>1, <1>2, <1>3, <1>4, <1>5, <1>6, <1>7, <1>8, <1>9, <1>10, <1>11
  DEF Finishing, Removal, Repairs

LEMMA OtherSession ==
  ASSUME TypeOK, Session, Copies \/ Packages \/ Operator \/ Plug \/ ImportBackup \/ LoseEfi
  PROVE  Session'
<1> USE DEF Session, Idle
<1>1. CASE Copies
  <2>1. copy'.step # "" => verdict = "finished" /\ run.cmd = "none" /\ host.where = "up"
    BY <1>1 DEF Copies, CopyManifest, CopyBoot, TakePoint, CheckCopy, NoCopy, TypeOK, CopyType
  <2>2. UNCHANGED <<run, host, apt, verdict>>
    BY <1>1 DEF Copies, CopyManifest, CopyBoot, TakePoint, CheckCopy
  <2> QED
    BY <2>1, <2>2
<1>2. CASE Packages
  <2>1. UNCHANGED <<run, host, copy, verdict>>
    BY <1>2 DEF Packages, StartInstall, StartRemove, Configure, ConfigureAgain
  <2>2. apt' # NoApt => host.where = "up" /\ apt'.op # "none" /\ apt'.kernel \in Kernels
    <3>1. CASE StartInstall
      <4>1. PICK k \in Kernels : apt' = [op |-> "install", kernel |-> k]
        BY <3>1 DEF StartInstall
      <4>2. host.where = "up"
        BY <3>1 DEF StartInstall
      <4> QED
        BY <4>1, <4>2
    <3>2. CASE StartRemove
      <4>1. PICK k \in sys.vmlinuz : apt' = [op |-> "remove", kernel |-> k]
        BY <3>2 DEF StartRemove
      <4>2. host.where = "up" /\ sys.vmlinuz \subseteq Kernels
        BY <3>2 DEF StartRemove, TypeOK, SysType
      <4> QED
        BY <4>1, <4>2
    <3>3. CASE Configure \/ ConfigureAgain
      BY <3>3 DEF Configure, ConfigureAgain
    <3> QED
      BY <1>2, <3>1, <3>2, <3>3 DEF Packages
  <2> QED
    BY <2>1, <2>2
<1>3. CASE Restart \/ Upgrade
  <2>1. run.cmd = "none" /\ apt = NoApt /\ copy.step = ""
    BY <1>3 DEF Restart, Upgrade
  <2>2. UNCHANGED <<run, apt, copy>>
    BY <1>3 DEF Restart, Upgrade
  <2> QED
    BY <2>1, <2>2
<1>4. CASE RecoverAgain
  BY <1>4, Moves DEF Begin, NoRun, RecoverAgain, TypeOK, HostType
<1>5. CASE FixFstab \/ LoseEfi
  BY <1>5 DEF FixFstab, LoseEfi
<1>6. CASE Unplug \/ Plug \/ ImportBackup
  <2>1. host'.where = host.where
    BY <1>6 DEF Unplug, Plug, ImportBackup, TypeOK, HostType
  <2> QED
    BY <1>6, <2>1 DEF Unplug, Plug, ImportBackup
<1> QED
  BY <1>1, <1>2, <1>3, <1>4, <1>5, <1>6 DEF Operator

LEMMA SessionStep == ASSUME TypeOK, Session, [Next]_vars PROVE Session'
<1>1. CASE UNCHANGED vars
  BY <1>1 DEF vars, Session
<1> QED
  BY <1>1, RecoverSession, SharedSession, CommandSession, OtherSession DEF Next
-----------------------------------------------------------------------------
(* What the steps do to /boot.                                             *)
SameKernels == /\ sys'.vmlinuz = sys.vmlinuz /\ sys'.mods = sys.mods
               /\ sys'.initrd = sys.initrd /\ sys'.half = sys.half
SameChain == sys'.cfg = sys.cfg /\ sys'.prior = sys.prior /\ sys'.guards = sys.guards

(* The machine, the operator and a copy.                                   *)
Beside == \/ Copies \/ Restart \/ Upgrade \/ FixFstab \/ Unplug \/ Plug \/ ImportBackup
          \/ LoseEfi

LEMMA BesideEffect ==
  ASSUME TypeOK, Beside
  PROVE  SameKernels /\ SameChain /\ apt' = apt /\ run' = run
<1> USE DEF SameKernels, SameChain
<1>1. CASE Copies
  BY <1>1 DEF Copies, CopyManifest, CopyBoot, TakePoint, CheckCopy
<1>2. CASE Restart \/ Upgrade \/ Unplug \/ Plug \/ ImportBackup
  BY <1>2 DEF Restart, Upgrade, Unplug, Plug, ImportBackup
<1>3. CASE FixFstab
  BY <1>3 DEF FixFstab, TypeOK, SysType
<1>4. CASE LoseEfi
  BY <1>4 DEF LoseEfi, TypeOK, SysType
<1> QED
  BY <1>1, <1>2, <1>3, <1>4 DEF Beside

LEMMA InstallEffect ==
  ASSUME TypeOK, StartInstall
  PROVE  /\ \E k \in Kernels :
              /\ \A j \in sys.vmlinuz : j < k
              /\ sys'.vmlinuz = sys.vmlinuz \cup {k} /\ sys'.mods = sys.mods \cup {k}
              /\ apt' = [op |-> "install", kernel |-> k]
         /\ sys'.initrd = sys.initrd /\ sys'.half = sys.half /\ SameChain
         /\ apt = NoApt /\ UNCHANGED <<host, run, copy, verdict>>
<1>1. PICK k \in Kernels :
        /\ \A j \in sys.vmlinuz : j < k
        /\ sys' = [sys EXCEPT !.vmlinuz = @ \cup {k}, !.mods = @ \cup {k}]
        /\ apt' = [op |-> "install", kernel |-> k]
  BY DEF StartInstall
<1>2. apt = NoApt /\ UNCHANGED <<host, run, copy, verdict>>
  BY DEF StartInstall
<1> QED
  BY <1>1, <1>2 DEF TypeOK, SysType, SameChain

LEMMA RemoveEffect ==
  ASSUME TypeOK, StartRemove
  PROVE  /\ \E k \in sys.vmlinuz :
              /\ k # Newest(sys.vmlinuz)
              /\ sys'.vmlinuz = sys.vmlinuz \ {k} /\ sys'.mods = sys.mods \ {k}
              /\ sys'.initrd = [sys.initrd EXCEPT ![k] = "none"]
              /\ apt' = [op |-> "remove", kernel |-> k]
         /\ sys.half = {} /\ sys'.half = sys.half /\ SameChain
         /\ apt = NoApt /\ UNCHANGED <<host, run, copy, verdict>>
<1>1. PICK k \in sys.vmlinuz \ {Newest(sys.vmlinuz), host.kernel} :
        /\ sys' = [sys EXCEPT !.vmlinuz = @ \ {k}, !.mods = @ \ {k}, !.initrd[k] = "none"]
        /\ apt' = [op |-> "remove", kernel |-> k]
  BY DEF StartRemove
<1>2. sys.half = {} /\ apt = NoApt /\ UNCHANGED <<host, run, copy, verdict>>
  BY DEF StartRemove
<1> QED
  BY <1>1, <1>2 DEF TypeOK, SysType, SameChain

LEMMA ConfigureEffect ==
  ASSUME TypeOK, Session, Configure
  PROVE  /\ sys'.vmlinuz = sys.vmlinuz /\ sys'.mods = sys.mods
         /\ sys'.prior = sys.prior /\ sys'.guards = sys.guards
         /\ sys'.initrd = IF apt.op = "install"
                          THEN [sys.initrd EXCEPT ![apt.kernel] = "good"] ELSE sys.initrd
         /\ \/ sys'.cfg = sys.cfg /\ sys'.half = sys.half \cup {apt.kernel}
            \/ sys'.cfg = Relist(sys')
            \/ sys'.cfg = Blank /\ "grub" \notin sys.guards
         /\ apt # NoApt /\ apt' = NoApt /\ UNCHANGED <<host, run, copy, verdict>>
<1> DEFINE built == IF apt.op = "install"
                    THEN [sys EXCEPT !.initrd[apt.kernel] = "good"] ELSE sys
<1>1. PICK out \in UpdateGrub(built) :
        sys' = [built EXCEPT !.cfg = out[1],
                  !.half = IF out[2] THEN @ \ {apt.kernel} ELSE @ \cup {apt.kernel}]
  BY DEF Configure
<1>2. apt # NoApt /\ apt' = NoApt /\ UNCHANGED <<host, run, copy, verdict>>
  BY DEF Configure
<1>3. apt.kernel \in Kernels
  BY <1>2 DEF Session
<1>4. /\ built \in SysType
      /\ built.vmlinuz = sys.vmlinuz /\ built.mods = sys.mods /\ built.cfg = sys.cfg
      /\ built.prior = sys.prior /\ built.guards = sys.guards /\ built.half = sys.half
      /\ built.initrd = IF apt.op = "install"
                        THEN [sys.initrd EXCEPT ![apt.kernel] = "good"] ELSE sys.initrd
  BY <1>3 DEF TypeOK, SysType
<1> HIDE DEF built
<1>5. /\ sys'.vmlinuz = built.vmlinuz /\ sys'.mods = built.mods
      /\ sys'.prior = built.prior /\ sys'.guards = built.guards
      /\ sys'.initrd = built.initrd /\ sys'.cfg = out[1]
      /\ sys'.half = IF out[2] THEN built.half \ {apt.kernel} ELSE built.half \cup {apt.kernel}
  BY <1>1, <1>4 DEF SysType
<1>6. \/ sys'.cfg = sys.cfg /\ sys'.half = sys.half \cup {apt.kernel}
      \/ sys'.cfg = Relist(sys')
      \/ sys'.cfg = Blank /\ "grub" \notin sys.guards
  <2>1. CASE out = <<built.cfg, FALSE>>
    BY <2>1, <1>4, <1>5
  <2>2. CASE out = <<Relist(built), TRUE>>
    BY <2>2, <1>5 DEF Relist, Listed
  <2>3. CASE out = <<Blank, TRUE>> /\ "grub" \notin built.guards
    BY <2>3, <1>4, <1>5
  <2> QED
    BY <1>1, <2>1, <2>2, <2>3, Outcomes
<1> QED
  BY <1>2, <1>4, <1>5, <1>6

LEMMA AgainEffect ==
  ASSUME TypeOK, ConfigureAgain
  PROVE  /\ sys'.vmlinuz = sys.vmlinuz /\ sys'.mods = sys.mods /\ sys'.initrd = sys.initrd
         /\ sys'.prior = sys.prior /\ sys'.guards = sys.guards
         /\ sys'.cfg = Relist(sys)
         /\ apt = NoApt /\ UNCHANGED <<host, run, apt, copy, verdict>>
<1>1. PICK out \in UpdateGrub(sys) : sys' = [sys EXCEPT !.cfg = out[1], !.half = {}]
  BY DEF ConfigureAgain
<1>2. out = <<Relist(sys), TRUE>>
  BY <1>1, Outcomes DEF ConfigureAgain, Refuses
<1>3. apt = NoApt /\ UNCHANGED <<host, run, apt, copy, verdict>>
  BY DEF ConfigureAgain
<1> QED
  BY <1>1, <1>2, <1>3 DEF TypeOK, SysType

(* A system restored anew.                                                 *)
LEMMA RestoredEffect ==
  ASSUME RecoverAgain
  PROVE  /\ sys'.vmlinuz = {1} /\ 1 \in sys'.mods
         /\ sys'.initrd = [k \in Kernels |-> IF k = 1 THEN "stale" ELSE "none"]
         /\ sys'.guards \in {{}, Guards}
         /\ run' = Begin("recover", "cfg") /\ verdict' = "none"
         /\ host.where = "live" /\ UNCHANGED <<apt, copy>>
<1>1. sys' \in Restored
  BY DEF RecoverAgain
<1>2. run' = Begin("recover", "cfg") /\ verdict' = "none" /\ host.where = "live"
      /\ UNCHANGED <<apt, copy>>
  BY DEF RecoverAgain
<1>3. sys'.vmlinuz = {1}
  BY <1>1 DEF Restored
<1>4. sys'.mods \in {{1}, Kernels}
  BY <1>1 DEF Restored
<1>5. sys'.initrd = [k \in Kernels |-> IF k = 1 THEN "stale" ELSE "none"]
  BY <1>1 DEF Restored
<1>6. sys'.guards \in {{}, Guards}
  BY <1>1 DEF Restored
<1> QED
  BY <1>2, <1>3, <1>4, <1>5, <1>6, KernelsAssumption

(* The commands leave the kernels, and make the initrds of the installed.  *)
Commands == Recovers \/ Shared \/ Finishing \/ Removal \/ Repairs \/ Kill

LEMMA InitrdEffect ==
  ASSUME TypeOK, NEW next, RegenerateInitrd(next)
  PROVE  /\ sys'.vmlinuz = sys.vmlinuz /\ sys'.mods = sys.mods /\ sys'.half = sys.half
         /\ \A k \in Kernels : sys'.initrd[k] # sys.initrd[k]
              => k \in InstalledKernels(sys) /\ sys'.initrd[k] = "good"
         /\ SameChain
         /\ \/ /\ Goes(next)
               /\ \A k \in InstalledKernels(sys) : sys'.initrd[k] = "good"
            \/ GoesWith(next, {"initrd"})
<1> DEFINE kernels == InstalledKernels(sys)
<1>1. kernels \subseteq Kernels
  BY DEF InstalledKernels, TypeOK, SysType
<1>2. CASE /\ sys' = [sys EXCEPT !.initrd = [k \in Kernels |->
                       IF k \in kernels THEN "good" ELSE @[k]]]
           /\ Goes(next)
  BY <1>1, <1>2 DEF TypeOK, SysType, SameChain
<1>3. CASE UNCHANGED sys /\ GoesWith(next, {"initrd"})
  BY <1>3 DEF SameChain
<1>4. CASE /\ \E f \in kernels : sys' = [sys EXCEPT !.initrd = [k \in Kernels |->
                       IF k \in kernels \ {f} THEN "good" ELSE @[k]]]
           /\ GoesWith(next, {"initrd"})
  BY <1>1, <1>4 DEF TypeOK, SysType, SameChain
<1> QED
  BY <1>2, <1>3, <1>4 DEF RegenerateInitrd

LEMMA CommandEffect ==
  ASSUME TypeOK, Session, Commands
  PROVE  /\ sys'.vmlinuz = sys.vmlinuz /\ sys'.mods = sys.mods /\ sys'.half = sys.half
         /\ \A k \in Kernels : sys'.initrd[k] # sys.initrd[k]
              => k \in InstalledKernels(sys) /\ sys'.initrd[k] = "good"
         /\ UNCHANGED <<apt, copy>>
<1> DEFINE Same == /\ sys'.vmlinuz = sys.vmlinuz /\ sys'.mods = sys.mods
                   /\ sys'.half = sys.half /\ sys'.initrd = sys.initrd
                   /\ UNCHANGED <<apt, copy>>
<1> USE DEF Keep
<1>1. CASE RecoverInitrd \/ FinishInitrd
  BY <1>1, InitrdEffect DEF RecoverInitrd, FinishInitrd
<1>2. CASE InstallGuard
  BY <1>2 DEF InstallGuard, Installed, TypeOK, SysType
<1>3. CASE RemoveGuard
  BY <1>3 DEF RemoveGuard, Removed, TypeOK, SysType
<1>4. CASE CopyCfg
  BY <1>4 DEF CopyCfg, TypeOK, SysType
<1>5. CASE RunUpdateGrub
  BY <1>5 DEF RunUpdateGrub, TypeOK, SysType
<1>6. CASE JudgeCfg
  <2>1. sys' = sys \/ sys' = [sys EXCEPT !.cfg = sys.prior[run.cmd]]
    BY <1>6, JudgeEffect
  <2> QED
    BY <1>6, <2>1 DEF JudgeCfg, TypeOK, SysType
<1>7. CASE FinishUuid
  BY <1>7 DEF FinishUuid, FixUuid, TypeOK, SysType
<1>8. CASE RecoverCfg
  BY <1>8 DEF RecoverCfg, TypeOK, SysType
<1>9. CASE RecoverEfi
  BY <1>9 DEF RecoverEfi, TypeOK, SysType
<1>10. CASE FinishEsp
  BY <1>10 DEF FinishEsp, TypeOK, SysType
<1>11. CASE RecoverRelease \/ RecoverBanner \/ StartFinish \/ FinishBoot \/ FinishBanner
            \/ StartRemoval \/ StartSetup \/ StartRepair \/ RepairRelease \/ RepairBanner \/ Kill
  BY <1>11 DEF RecoverRelease, RecoverBanner, StartFinish, FinishBoot, FinishBanner,
               StartRemoval, StartSetup, StartRepair, RepairRelease, RepairBanner, Kill, Release
<1> QED
  BY <1>1, <1>2, <1>3, <1>4, <1>5, <1>6, <1>7, <1>8, <1>9, <1>10, <1>11
  DEF Commands, Recovers, Shared, Finishing, Removal, Repairs

(* What happens beside the commands.                                       *)
Outside == \/ UNCHANGED vars \/ Beside \/ StartInstall \/ StartRemove
           \/ Configure \/ ConfigureAgain

(* Every step is one of these.                                             *)
LEMMA AnyStep ==
  ASSUME [Next]_vars
  PROVE  Outside \/ Commands \/ RecoverAgain
BY DEF Next, Commands, Outside, Beside, Packages, Operator
-----------------------------------------------------------------------------
(* Stock.                                                                  *)
LEMMA TopIs ==
  ASSUME TypeOK, NEW m \in sys.vmlinuz, \A j \in sys.vmlinuz : j <= m
  PROVE  Newest(sys.vmlinuz) = m
BY NewestIs, KernelsAssumption DEF TypeOK, SysType

LEMMA TopIsNext ==
  ASSUME TypeOK', NEW m \in sys'.vmlinuz, \A j \in sys'.vmlinuz : j <= m
  PROVE  Newest(sys'.vmlinuz) = m
BY NewestIs, KernelsAssumption DEF TypeOK, SysType

LEMMA StockStep == ASSUME TypeOK, TypeOK', Session, Stock, [Next]_vars PROVE Stock'
<1>0. NoApt.op = "none"
  BY DEF NoApt
<1>t. /\ sys.vmlinuz \subseteq Kernels /\ sys.initrd \in [Kernels -> {"none", "stale", "good"}]
      /\ sys'.initrd \in [Kernels -> {"none", "stale", "good"}] /\ Kernels \subseteq Nat
  BY KernelsAssumption DEF TypeOK, SysType
<1>1. CASE UNCHANGED vars \/ Beside
  <2>1. SameKernels /\ apt' = apt
    BY <1>1, BesideEffect DEF vars, SameKernels
  <2> QED
    BY <2>1 DEF Stock, StockOf, SameKernels
<1>2. CASE Commands
  <2>1. /\ sys'.vmlinuz = sys.vmlinuz /\ sys'.mods = sys.mods /\ apt' = apt
        /\ \A k \in Kernels : sys'.initrd[k] # sys.initrd[k]
              => k \in sys.vmlinuz /\ sys'.initrd[k] = "good"
    BY <1>2, CommandEffect DEF InstalledKernels
  <2> QED
    BY <2>1, <1>t DEF Stock, StockOf
<1>3. CASE StartInstall
  <2>1. PICK k \in Kernels :
          /\ \A j \in sys.vmlinuz : j < k
          /\ sys'.vmlinuz = sys.vmlinuz \cup {k} /\ sys'.mods = sys.mods \cup {k}
          /\ apt' = [op |-> "install", kernel |-> k]
    BY <1>3, InstallEffect
  <2>2. sys'.initrd = sys.initrd /\ apt = NoApt
    BY <1>3, InstallEffect
  <2>3. Newest(sys'.vmlinuz) = k /\ IsNewest(k, sys'.vmlinuz)
    BY <2>1, <1>t, TopIsNext DEF IsNewest
  <2>4. sys'.vmlinuz \ {k} = sys.vmlinuz
    BY <2>1, <1>t
  <2>5. IsNewest(Newest(sys.vmlinuz), sys'.vmlinuz \ {k}) /\ Newest(sys.vmlinuz) \in sys'.vmlinuz
    BY <2>1, <2>4 DEF Stock, StockOf, IsNewest
  <2>6. \A j \in Kernels : j \in sys.vmlinuz => sys.initrd[j] # "none"
    BY <1>0, <2>2 DEF Stock, StockOf
  <2>7. apt'.op = "install" /\ apt'.kernel = k
    BY <2>1
  <2>8. sys'.vmlinuz \subseteq sys'.mods /\ \A j \in sys'.vmlinuz : j >= 1
    <3>1. Newest(sys.vmlinuz) \in sys.vmlinuz
      BY DEF Stock, StockOf, IsNewest
    <3>2. Newest(sys.vmlinuz) >= 1 /\ Newest(sys.vmlinuz) < k /\ Newest(sys.vmlinuz) \in Nat
      BY <2>1, <3>1, <1>t DEF Stock, StockOf
    <3>3. k >= 1
      BY <3>2, <1>t
    <3> QED
      BY <2>1, <3>3 DEF Stock, StockOf
  <2>9. \A j \in Kernels :
          /\ sys'.initrd[j] = "stale" => j = 1
          /\ j \notin sys'.vmlinuz => sys'.initrd[j] = "none"
          /\ j \in sys'.vmlinuz /\ sys'.initrd[j] = "none" => j = k
    BY <2>1, <2>2, <2>6 DEF Stock, StockOf
  <2> QED
    BY <2>3, <2>5, <2>7, <2>8, <2>9 DEF Stock, StockOf
<1>4. CASE StartRemove
  <2>1. PICK k \in sys.vmlinuz :
          /\ k # Newest(sys.vmlinuz)
          /\ sys'.vmlinuz = sys.vmlinuz \ {k} /\ sys'.mods = sys.mods \ {k}
          /\ sys'.initrd = [sys.initrd EXCEPT ![k] = "none"]
          /\ apt' = [op |-> "remove", kernel |-> k]
    BY <1>4, RemoveEffect
  <2>2. apt = NoApt
    BY <1>4, RemoveEffect
  <2>3. Newest(sys'.vmlinuz) = Newest(sys.vmlinuz)
    BY <2>1, TopIsNext DEF Stock, StockOf, IsNewest
  <2>4. \A j \in Kernels : j \in sys.vmlinuz => sys.initrd[j] # "none"
    BY <1>0, <2>2 DEF Stock, StockOf
  <2>5. apt'.op = "remove"
    BY <2>1
  <2> QED
    BY <2>1, <2>3, <2>4, <2>5, <1>t, SMTT(30) DEF Stock, StockOf, IsNewest
<1>5. CASE Configure
  <2>1. /\ sys'.vmlinuz = sys.vmlinuz /\ sys'.mods = sys.mods /\ apt'.op = "none"
        /\ sys'.initrd = IF apt.op = "install"
                         THEN [sys.initrd EXCEPT ![apt.kernel] = "good"] ELSE sys.initrd
    BY <1>5, <1>0, ConfigureEffect
  <2>2. apt.kernel \in Kernels
    BY <1>5, ConfigureEffect DEF Session
  <2> QED
    BY <2>1, <2>2, <1>t DEF Stock, StockOf, IsNewest
<1>6. CASE ConfigureAgain
  BY <1>6, AgainEffect DEF Stock, StockOf
<1>7. CASE RecoverAgain
  <2>1. /\ sys'.vmlinuz = {1} /\ 1 \in sys'.mods
        /\ sys'.initrd = [k \in Kernels |-> IF k = 1 THEN "stale" ELSE "none"]
    BY <1>7, RestoredEffect
  <2>2. apt'.op = "none"
    BY <1>0, <1>7, RestoredEffect DEF Session
  <2>3. Newest(sys'.vmlinuz) = 1
    BY <2>1, TopIsNext
  <2> QED
    BY <2>1, <2>2, <2>3 DEF Stock, StockOf, IsNewest
<1> QED
  BY <1>1, <1>2, <1>3, <1>4, <1>5, <1>6, <1>7, AnyStep DEF Outside

(* The newest kernel only grows, but for a system restored anew.           *)
LEMMA TopGrows ==
  ASSUME TypeOK, TypeOK', Session, Stock, Stock', Outside \/ Commands
  PROVE  /\ Newest(sys.vmlinuz) <= Newest(sys'.vmlinuz)
         /\ \A k \in sys'.vmlinuz : k \in sys.vmlinuz \/ Newest(sys.vmlinuz) < k
<1>t. sys.vmlinuz \subseteq Nat /\ sys'.vmlinuz \subseteq Nat
  BY KernelsAssumption DEF TypeOK, SysType
<1>n. IsNewest(Newest(sys.vmlinuz), sys.vmlinuz) /\ IsNewest(Newest(sys'.vmlinuz), sys'.vmlinuz)
  BY DEF Stock, StockOf
<1>1. CASE sys'.vmlinuz = sys.vmlinuz
  BY <1>1, <1>t, <1>n DEF IsNewest
<1>2. CASE StartInstall
  <2>1. PICK k \in Kernels :
          (\A j \in sys.vmlinuz : j < k) /\ sys'.vmlinuz = sys.vmlinuz \cup {k}
    BY <1>2, InstallEffect
  <2> QED
    BY <2>1, <1>t, <1>n DEF IsNewest
<1>3. CASE StartRemove
  <2>1. PICK k \in sys.vmlinuz :
          k # Newest(sys.vmlinuz) /\ sys'.vmlinuz = sys.vmlinuz \ {k}
    BY <1>3, RemoveEffect
  <2> QED
    BY <2>1, <1>t, <1>n DEF IsNewest
<1> QED
  BY <1>1, <1>2, <1>3, CommandEffect, BesideEffect, ConfigureEffect, AgainEffect
  DEF Outside, SameKernels, vars

(* The hook is there before the configuration that names it.               *)
LEMMA OrderedStep == ASSUME TypeOK, Session, Ordered, [Next]_vars PROVE Ordered'
<1> USE DEF Ordered, AptWorks, StepNames
<1>1. CASE UNCHANGED vars \/ Beside
  <2>1. sys'.guards = sys.guards /\ run' = run
    BY <1>1, BesideEffect DEF vars, SameChain
  <2> QED
    BY <2>1
<1>2. CASE StartInstall \/ StartRemove \/ Configure \/ ConfigureAgain
  <2>1. sys'.guards = sys.guards /\ run' = run
    BY <1>2, InstallEffect, RemoveEffect, ConfigureEffect, AgainEffect DEF SameChain
  <2> QED
    BY <2>1
<1>3. CASE RecoverAgain
  <2>1. run'.step = "cfg"
    BY <1>3, RestoredEffect DEF Begin, NoRun
  <2> QED
    BY <1>3, <2>1, RestoredEffect DEF Guards
<1>4. CASE InstallGuard
  <2>1. PICK file \in Guards : /\ sys' = Installed(file)
                              /\ run.step = Step(file)
                              /\ run.cmd # "remove"
                              /\ IF run.cmd = "setup" /\ file = "grub" THEN run' = NoRun
                                 ELSE Goes(CASE run.cmd = "repair" -> "initrd"
                                             [] run.cmd = "setup" /\ file = "conf" -> "guard"
                                             [] OTHER -> NextGuard(file))
    BY <1>4 DEF InstallGuard
  <2>2. sys'.guards = sys.guards \cup {file}
    BY <2>1 DEF Installed, TypeOK, SysType
  <2>3. file = "conf" => run.step = "conf"
    BY <2>1 DEF Step
  <2>4. run'.step = "conf" => file = "hook"
    <3>1. CASE file = "grub"
      <4>1. NextGuard(file) = "hook"
        BY <3>1 DEF NextGuard
      <4>2. run' = NoRun \/ Goes("initrd") \/ Goes("hook")
        BY <2>1, <3>1, <4>1
      <4> QED
        BY <4>2, Moves
    <3>2. CASE file = "conf"
      <4>1. NextGuard(file) = "boot"
        BY <3>2 DEF NextGuard
      <4>2. Goes("initrd") \/ Goes("guard") \/ Goes("boot")
        BY <2>1, <3>2, <4>1
      <4> QED
        BY <4>2, Moves
    <3> QED
      BY <3>1, <3>2 DEF Guards
  <2> QED
    BY <2>1, <2>2, <2>3, <2>4
<1>5. CASE RemoveGuard
  <2>1. PICK file \in Guards : sys' = Removed(file) /\ run.cmd = "remove"
    BY <1>5 DEF RemoveGuard
  <2>2. sys'.guards = sys.guards
        \/ (sys'.guards = sys.guards \ {file} /\ ~(file = "hook" /\ "conf" \in sys.guards))
    BY <2>1 DEF Removed, TypeOK, SysType
  <2>3. run'.cmd = "remove" \/ run'.step = ""
    BY <1>5, Moves DEF RemoveGuard
  <2> QED
    BY <2>2, <2>3
<1>6. CASE StartRemoval \/ StartSetup \/ StartFinish \/ StartRepair
  <2>1. sys' = sys
    BY <1>6 DEF StartRemoval, StartSetup, StartFinish, StartRepair
  <2>2. run'.cmd = "remove" \/ run'.step \in {"hook", "guard", "release"}
    BY <1>6 DEF StartRemoval, StartSetup, StartFinish, StartRepair, Begin, NoRun
  <2> QED
    BY <2>1, <2>2
<1>7. CASE RecoverCfg \/ RecoverEfi \/ RecoverInitrd \/ RecoverRelease \/ RecoverBanner
           \/ CopyCfg \/ RunUpdateGrub \/ JudgeCfg \/ FinishInitrd \/ FinishUuid \/ FinishBoot
           \/ FinishEsp \/ FinishBanner \/ RepairRelease \/ RepairBanner \/ Kill
  <2>1. sys'.guards = sys.guards /\ run'.step # "conf"
    <3>1. CASE RecoverCfg
      <4>1. sys'.guards = sys.guards
        BY <3>1 DEF RecoverCfg, TypeOK, SysType
      <4>2. run'.step # "conf"
        BY <3>1, Moves DEF RecoverCfg
      <4> QED
        BY <4>1, <4>2
    <3>2. CASE RecoverEfi
      <4>1. sys'.guards = sys.guards
        BY <3>2 DEF RecoverEfi, TypeOK, SysType
      <4>2. run'.step # "conf"
        BY <3>2, Moves DEF RecoverEfi
      <4> QED
        BY <4>1, <4>2
    <3>3. CASE FinishEsp
      <4>1. sys'.guards = sys.guards
        BY <3>3 DEF FinishEsp, TypeOK, SysType
      <4>2. run'.step # "conf"
        BY <3>3, Moves DEF FinishEsp
      <4> QED
        BY <4>1, <4>2
    <3>4. CASE RecoverInitrd
      BY <3>4, Moves, InitrdEffect DEF RecoverInitrd, SameChain
    <3>5. CASE FinishInitrd
      BY <3>5, Moves, InitrdEffect DEF FinishInitrd, SameChain
    <3>6. CASE CopyCfg
      BY <3>6 DEF CopyCfg, TypeOK, SysType, RunType
    <3>7. CASE RunUpdateGrub
      BY <3>7 DEF RunUpdateGrub, TypeOK, SysType, RunType
    <3>8. CASE JudgeCfg
      <4>1. sys'.guards = sys.guards
        BY <3>8, JudgeEffect DEF TypeOK, SysType
      <4>2. run'.step # "conf"
        BY <3>8, Moves DEF JudgeCfg
      <4> QED
        BY <4>1, <4>2
    <3>9. CASE FinishUuid
      <4>1. sys'.guards = sys.guards
        BY <3>9 DEF FinishUuid, FixUuid, TypeOK, SysType
      <4>2. run'.step # "conf"
        BY <3>9, Moves DEF FinishUuid, FixUuid
      <4> QED
        BY <4>1, <4>2
    <3>10. CASE RecoverRelease
      BY <3>10, Moves DEF RecoverRelease, Release
    <3>11. CASE RecoverBanner
      BY <3>11, Moves DEF RecoverBanner
    <3>12. CASE FinishBoot
      BY <3>12, Moves DEF FinishBoot
    <3>13. CASE FinishBanner
      BY <3>13, Moves DEF FinishBanner
    <3>14. CASE RepairRelease
      BY <3>14, Moves DEF RepairRelease, Release
    <3>15. CASE RepairBanner
      BY <3>15, Moves DEF RepairBanner
    <3>16. CASE Kill
      BY <3>16, Moves DEF Kill
    <3> QED
      BY <1>7, <3>1, <3>2, <3>3, <3>4, <3>5, <3>6, <3>7, <3>8, <3>9, <3>10, <3>11, <3>12,
         <3>13, <3>14, <3>15, <3>16
  <2> QED
    BY <2>1
<1> QED
  BY <1>1, <1>2, <1>3, <1>4, <1>5, <1>6, <1>7, AnyStep
  DEF Outside, Commands, Recovers, Shared, Finishing, Removal, Repairs
-----------------------------------------------------------------------------
(* What a listing of the kernels names.                                    *)
LEMMA Listing ==
  ASSUME NEW s \in SysType, NEW a, StockOf(s, a)
  PROVE  /\ IsNewest(Newest(Listed(s)), Listed(s))
         /\ Listed(s) \subseteq s.vmlinuz
         /\ \A k \in Listed(s) : s.initrd[k] # "none"
         /\ a.op # "install" => Listed(s) = s.vmlinuz
<1>1. s.vmlinuz \subseteq Kernels /\ Kernels \subseteq Nat
  BY KernelsAssumption DEF SysType
<1>2. Listed(s) \subseteq s.vmlinuz /\ \A k \in Listed(s) : s.initrd[k] # "none"
  BY DEF Listed
<1>3. a.op # "install" => Listed(s) = s.vmlinuz
  BY <1>1 DEF Listed, StockOf
<1>4. \E m \in Listed(s) : \A j \in Listed(s) : j <= m
  <2>1. CASE Listed(s) = s.vmlinuz
    BY <2>1 DEF StockOf, IsNewest
  <2>2. CASE Listed(s) # s.vmlinuz
    <3>1. a.op = "install" /\ \A k \in s.vmlinuz : s.initrd[k] = "none" => k = a.kernel
      BY <1>1, <1>3, <2>2 DEF StockOf
    <3>2. Listed(s) = s.vmlinuz \ {a.kernel}
      BY <3>1, <1>2, <2>2 DEF Listed
    <3> QED
      BY <3>1, <3>2 DEF StockOf, IsNewest
  <2> QED
    BY <2>1, <2>2
<1>5. PICK m \in Listed(s) : \A j \in Listed(s) : j <= m
  BY <1>4
<1>6. Newest(Listed(s)) = m
  BY <1>1, <1>2, <1>5, NewestIs
<1> QED
  BY <1>2, <1>3, <1>5, <1>6 DEF IsNewest

(* A listing of kernels whose initrds are new boots.                       *)
LEMMA RelistSound ==
  ASSUME TypeOK', Stock', Clean', sys'.cfg = Relist(sys')
  PROVE  Sound'
<1>1. /\ sys' \in SysType /\ StockOf(sys', apt') /\ Listed(sys') \subseteq Kernels
      /\ Kernels \subseteq Nat /\ NoApt.op = "none"
  BY KernelsAssumption DEF TypeOK, Stock, Listed, SysType, NoApt
<1> DEFINE L == Listed(sys')
<1>2. /\ IsNewest(Newest(L), L) /\ L \subseteq sys'.vmlinuz
      /\ \A k \in L : sys'.initrd[k] # "none"
      /\ apt'.op # "install" => L = sys'.vmlinuz
  BY <1>1, Listing
<1>3. sys'.cfg.uuid = "new" /\ sys'.cfg.entries = L
  BY DEF Relist
<1>4. L # {} /\ Newest(L) \in L /\ Newest(L) \in sys'.vmlinuz
  BY <1>2 DEF IsNewest
<1>5. \A k \in L \cap sys'.vmlinuz : sys'.initrd[k] = "good"
  BY <1>1, <1>2 DEF Clean, SysType
<1>6. \A j \in L : j <= Newest(sys'.vmlinuz)
  BY <1>1, <1>2 DEF StockOf, IsNewest
<1>7. apt' = NoApt => Newest(L) = Newest(sys'.vmlinuz)
  BY <1>1, <1>2
<1> HIDE DEF L
<1> QED
  BY <1>3, <1>4, <1>5, <1>6, <1>7 DEF Sound, Settled, Old

(* What happens beside the commands keeps a finished system bootable.      *)
LEMMA OutsideRun ==
  ASSUME TypeOK, Session, Outside
  PROVE  run' = run /\ sys'.guards = sys.guards /\ sys'.prior = sys.prior
BY BesideEffect, InstallEffect, RemoveEffect, ConfigureEffect, AgainEffect
DEF Outside, vars, SameChain

LEMMA CleanKept ==
  ASSUME TypeOK, Session, Stock, Clean, Outside
  PROVE  Clean'
<1>t. sys.vmlinuz \subseteq Kernels /\ sys.initrd \in [Kernels -> {"none", "stale", "good"}]
  BY DEF TypeOK, SysType
<1>g. sys'.guards = sys.guards
  BY OutsideRun
<1>1. CASE UNCHANGED vars \/ Beside
  BY <1>1, BesideEffect DEF vars, SameKernels, SameChain, Clean
<1>2. CASE StartInstall
  <2>1. PICK k \in Kernels :
          (\A j \in sys.vmlinuz : j < k) /\ sys'.vmlinuz = sys.vmlinuz \cup {k}
    BY <1>2, InstallEffect
  <2>2. k \notin sys.vmlinuz
    BY <2>1, KernelsAssumption
  <2>3. sys.initrd[k] = "none" /\ sys'.initrd = sys.initrd
    BY <1>2, <2>2, InstallEffect DEF Stock, StockOf
  <2> QED
    BY <2>1, <2>3, <1>g DEF Clean
<1>3. CASE StartRemove
  <2>1. PICK k \in sys.vmlinuz : /\ sys'.vmlinuz = sys.vmlinuz \ {k}
                                /\ sys'.initrd = [sys.initrd EXCEPT ![k] = "none"]
    BY <1>3, RemoveEffect
  <2> QED
    BY <2>1, <1>t, <1>g DEF Clean
<1>4. CASE Configure
  <2>1. sys'.initrd = IF apt.op = "install"
                      THEN [sys.initrd EXCEPT ![apt.kernel] = "good"] ELSE sys.initrd
    BY <1>4, ConfigureEffect
  <2>2. sys'.vmlinuz = sys.vmlinuz
    BY <1>4, ConfigureEffect
  <2> QED
    BY <2>1, <2>2, <1>t, <1>g DEF Clean
<1>5. CASE ConfigureAgain
  BY <1>5, AgainEffect, <1>g DEF Clean
<1> QED
  BY <1>1, <1>2, <1>3, <1>4, <1>5 DEF Outside

LEMMA SoundKept ==
  ASSUME TypeOK, TypeOK', Session, Stock, Stock', Sound, Outside
  PROVE  Sound'
<1> DEFINE e == Newest(sys.cfg.entries)
<1>t. /\ sys.vmlinuz \subseteq Kernels /\ sys.initrd \in [Kernels -> {"none", "stale", "good"}]
      /\ Kernels \subseteq Nat /\ sys'.vmlinuz \subseteq Kernels
      /\ sys.cfg.entries \subseteq Kernels
  BY KernelsAssumption DEF TypeOK, SysType, CfgType
<1>c. Clean'
  BY CleanKept DEF Sound
<1>1. CASE UNCHANGED vars \/ Beside
  <2>1. /\ SameKernels /\ SameChain /\ apt' = apt
    BY <1>1, BesideEffect DEF vars, SameKernels, SameChain
  <2> QED
    BY <2>1, <1>c DEF SameKernels, SameChain, Sound, Old, Settled
<1>2. CASE StartInstall
  <2>1. PICK k \in Kernels :
          /\ \A j \in sys.vmlinuz : j < k
          /\ sys'.vmlinuz = sys.vmlinuz \cup {k}
          /\ apt' = [op |-> "install", kernel |-> k]
    BY <1>2, InstallEffect
  <2>2. sys'.cfg = sys.cfg /\ sys'.initrd = sys.initrd
    BY <1>2, InstallEffect DEF SameChain
  <2>3. Newest(sys'.vmlinuz) = k /\ Newest(sys.vmlinuz) < k
    <3>1. Newest(sys.vmlinuz) < k
      BY <2>1 DEF Stock, StockOf, IsNewest
    <3>2. k \in sys'.vmlinuz /\ \A j \in sys'.vmlinuz : j <= k
      <4>1. k \in Nat /\ \A j \in sys.vmlinuz : j \in Nat /\ j < k
        BY <2>1, <1>t
      <4>2. \A j \in sys.vmlinuz \cup {k} : j <= k
        BY <4>1
      <4> QED
        BY <2>1, <4>2
    <3>3. Newest(sys'.vmlinuz) = k
      BY <3>2, TopIsNext
    <3> QED
      BY <3>1, <3>3
  <2>4. k \notin sys.cfg.entries /\ Old(sys.cfg.entries)'
    <3>1. Newest(sys.vmlinuz) \in Nat
      BY <1>t DEF Stock, StockOf, IsNewest
    <3>2. k \in Nat /\ \A j \in sys.cfg.entries : j \in Nat /\ j <= Newest(sys.vmlinuz)
      BY <1>t DEF Sound, Old
    <3>3. \A j \in sys.cfg.entries : j < k
      BY <2>3, <3>1, <3>2
    <3>4. \A j \in sys.cfg.entries : j <= k
      BY <3>2, <3>3
    <3>5. k \notin sys.cfg.entries
      BY <3>2, <3>3
    <3> QED
      BY <2>2, <2>3, <3>4, <3>5 DEF Old
  <2>5. ~Settled'
    <3>1. apt'.op = "install" /\ NoApt.op = "none"
      BY <2>1 DEF NoApt
    <3> QED
      BY <3>1 DEF Settled
  <2> QED
    BY <2>1, <2>2, <2>4, <2>5, <1>c DEF Sound
<1>3. CASE StartRemove
  <2>1. PICK k \in sys.vmlinuz :
          /\ k # Newest(sys.vmlinuz)
          /\ sys'.vmlinuz = sys.vmlinuz \ {k}
          /\ sys'.initrd = [sys.initrd EXCEPT ![k] = "none"]
          /\ apt' = [op |-> "remove", kernel |-> k]
    BY <1>3, RemoveEffect
  <2>2. sys'.cfg = sys.cfg /\ Settled
    BY <1>3, RemoveEffect DEF SameChain, Settled
  <2>3. Newest(sys'.vmlinuz) = Newest(sys.vmlinuz) /\ e = Newest(sys.vmlinuz)
    BY <2>1, <2>2, TopIsNext DEF Stock, StockOf, IsNewest, Sound
  <2>4. ~Settled'
    <3>1. apt'.op = "remove" /\ NoApt.op = "none"
      BY <2>1 DEF NoApt
    <3> QED
      BY <3>1 DEF Settled
  <2>5. \A j \in sys.cfg.entries \cap sys'.vmlinuz : sys'.initrd[j] = "good"
    BY <2>1, <1>t DEF Sound
  <2> QED
    BY <2>1, <2>2, <2>3, <2>4, <2>5, <1>c DEF Sound, Old
<1>4. CASE Configure
  <2>1. sys'.vmlinuz = sys.vmlinuz /\ apt' = NoApt
    BY <1>4, ConfigureEffect
  <2>2. sys'.initrd = IF apt.op = "install"
                      THEN [sys.initrd EXCEPT ![apt.kernel] = "good"] ELSE sys.initrd
    BY <1>4, ConfigureEffect
  <2>3. CASE sys'.cfg = sys.cfg /\ sys'.half = sys.half \cup {apt.kernel}
    <3>1. ~Settled'
      BY <2>3 DEF Settled
    <3>2. \A j \in sys.cfg.entries \cap sys'.vmlinuz : sys'.initrd[j] = "good"
      BY <2>1, <2>2, <1>t DEF Sound
    <3> QED
      BY <2>1, <2>3, <3>1, <3>2, <1>c DEF Sound, Old
  <2>4. CASE sys'.cfg = Relist(sys')
    BY <2>4, <1>c, RelistSound
  <2> QED
    BY <1>4, <2>3, <2>4, ConfigureEffect DEF Sound, Clean
<1>5. CASE ConfigureAgain
  <2>1. sys'.cfg = Relist(sys')
    BY <1>5, AgainEffect DEF Relist, Listed
  <2> QED
    BY <2>1, <1>c, RelistSound
<1> QED
  BY <1>1, <1>2, <1>3, <1>4, <1>5 DEF Outside
-----------------------------------------------------------------------------
(* Completing: first what happens beside a command.                        *)
LEMMA OldKept ==
  ASSUME TypeOK, TypeOK', Session, Stock, Stock', Outside \/ Commands,
         NEW ks \in SUBSET Kernels, Old(ks)
  PROVE  Old(ks)' /\ ks \cap sys'.vmlinuz \subseteq sys.vmlinuz
<1>1. /\ Newest(sys.vmlinuz) \in Nat /\ Newest(sys'.vmlinuz) \in Nat
      /\ ks \subseteq Nat /\ sys'.vmlinuz \subseteq Nat
  BY KernelsAssumption DEF TypeOK, SysType, Stock, StockOf, IsNewest
<1>2. /\ Newest(sys.vmlinuz) <= Newest(sys'.vmlinuz)
      /\ \A k \in sys'.vmlinuz : k \in sys.vmlinuz \/ Newest(sys.vmlinuz) < k
  BY TopGrows
<1>3. \A j \in ks : j \in Nat /\ j <= Newest(sys.vmlinuz)
  BY <1>1 DEF Old
<1>4. \A j \in ks : j <= Newest(sys'.vmlinuz)
  BY <1>1, <1>2, <1>3
<1>5. \A k \in ks \cap sys'.vmlinuz : k \in sys.vmlinuz
  BY <1>1, <1>2, <1>3
<1> QED
  BY <1>4, <1>5 DEF Old

LEMMA OutsideHost ==
  ASSUME TypeOK, Session, Outside
  PROVE  /\ verdict' = verdict \/ verdict' = "none"
         /\ run.cmd # "none" => sys'.efi = sys.efi
         /\ ~host.inuse => ~host'.inuse
<1>1. CASE UNCHANGED vars \/ StartInstall \/ StartRemove \/ Configure \/ ConfigureAgain
  <2>1. host' = host /\ verdict' = verdict
    BY <1>1, InstallEffect, RemoveEffect, ConfigureEffect, AgainEffect DEF vars
  <2>2. sys'.efi = sys.efi
    <3>1. CASE StartInstall
      BY <3>1 DEF StartInstall, TypeOK, SysType
    <3>2. CASE StartRemove
      BY <3>2 DEF StartRemove, TypeOK, SysType
    <3>3. CASE Configure
      BY <3>3 DEF Configure, TypeOK, SysType
    <3>4. CASE ConfigureAgain
      BY <3>4 DEF ConfigureAgain, TypeOK, SysType
    <3> QED
      BY <1>1, <3>1, <3>2, <3>3, <3>4 DEF vars
  <2> QED
    BY <2>1, <2>2
<1>2. CASE Copies
  BY <1>2 DEF Copies, CopyManifest, CopyBoot, TakePoint, CheckCopy
<1>3. CASE Restart \/ Upgrade
  <2>1. host' = Started(Boots) /\ sys' = sys
    BY <1>3 DEF Restart, Upgrade
  <2>2. host'.inuse = (host.inuse /\ ~Boots)
    BY <2>1 DEF Started
  <2>3. verdict' = verdict \/ verdict' = "none"
    BY <1>3 DEF Restart, Upgrade
  <2> QED
    BY <2>1, <2>2, <2>3
<1>4. CASE FixFstab
  BY <1>4 DEF FixFstab, TypeOK, SysType
<1>5. CASE Unplug \/ Plug \/ ImportBackup
  BY <1>5 DEF Unplug, Plug, ImportBackup, TypeOK, HostType
<1>6. CASE LoseEfi
  BY <1>6 DEF LoseEfi, Idle
<1> QED
  BY <1>1, <1>2, <1>3, <1>4, <1>5, <1>6 DEF Outside, Beside

LEMMA UpdatedKept ==
  ASSUME TypeOK, TypeOK', Session, Stock, Stock', Outside, Clean,
         sys.cfg.entries = {} \/ Sound
  PROVE  sys'.cfg.entries = {} \/ Sound'
<1>1. Clean'
  BY CleanKept
<1>2. CASE Sound
  BY <1>2, SoundKept
<1>3. CASE sys'.cfg = sys.cfg /\ sys.cfg.entries = {}
  BY <1>3
<1>4. CASE sys'.cfg = Relist(sys')
  BY <1>1, <1>4, RelistSound
<1>5. sys'.cfg = sys.cfg \/ sys'.cfg = Relist(sys')
  BY BesideEffect, InstallEffect, RemoveEffect, ConfigureEffect, AgainEffect
  DEF Outside, vars, SameChain, Clean, Relist, Listed
<1> QED
  BY <1>2, <1>3, <1>4, <1>5

LEMMA EntriesKept ==
  ASSUME TypeOK, TypeOK', Session, Stock, Stock', Outside, Clean, Asked,
         run.asked \cap sys.vmlinuz \subseteq sys.cfg.entries
  PROVE  run.asked \cap sys'.vmlinuz \subseteq sys'.cfg.entries
<1>1. run.asked \cap sys'.vmlinuz \subseteq sys.vmlinuz
  BY OldKept DEF Asked, TypeOK, RunType
<1>2. CASE sys'.cfg = sys.cfg
  BY <1>1, <1>2
<1>3. CASE sys'.cfg = Relist(sys') /\ apt' = NoApt
  <2>1. sys' \in SysType /\ StockOf(sys', apt') /\ apt'.op # "install"
    BY <1>3 DEF TypeOK, Stock, NoApt
  <2>2. sys'.cfg.entries = sys'.vmlinuz
    BY <1>3, <2>1, Listing DEF Relist
  <2> QED
    BY <2>2
<1> QED
  BY <1>2, <1>3, BesideEffect, InstallEffect, RemoveEffect, ConfigureEffect, AgainEffect
  DEF Outside, vars, SameChain, Clean, Relist, Listed

LEMMA OutsideCompleting ==
  ASSUME TypeOK, TypeOK', Session, Stock, Stock', Completing, Outside
  PROVE  Completing'
<1>r. run' = run /\ sys'.guards = sys.guards
  BY OutsideRun
<1>1. Guarding'
  BY <1>r DEF Completing, Guarding, Rewriting
<1>2. Asked'
  BY <1>r, OldKept DEF Completing, Asked, TypeOK, RunType
<1>3. Prepared'
  BY <1>r, CleanKept DEF Completing, Prepared, Rewriting
<1>4. Updated'
  BY <1>r, UpdatedKept DEF Completing, Updated, Prepared, Rewriting
<1>5. Judged'
  BY <1>r, SoundKept, EntriesKept DEF Completing, Judged, Rewriting, Sound
<1>6. Closed'
  <2>1. verdict' \in {"finished", "repaired"} => Sound'
    BY OutsideHost, SoundKept DEF Completing, Closed
  <2> QED
    BY <1>r, <2>1, OutsideHost DEF Completing, Closed
<1> QED
  BY <1>1, <1>2, <1>3, <1>4, <1>5, <1>6 DEF Completing

(* Completing: the commands.                                               *)
LEMMA SoundSame ==
  ASSUME Sound, SameKernels, sys'.cfg = sys.cfg, sys'.guards = sys.guards, apt' = apt
  PROVE  Sound'
BY DEF Sound, Clean, Old, Settled, SameKernels

(* A command that is neither finish nor repair-boot, or comes to no step   *)
(* that says anything.                                                     *)
LEMMA Elsewhere ==
  ASSUME run'.cmd \notin {"finish", "repair"} \/ run'.step = "guard",
         verdict' \notin {"finished", "repaired"}, Asked'
  PROVE  Completing'
BY DEF Completing, Guarding, Prepared, Updated, Judged, Closed, Rewriting, After

LEMMA AskedSame ==
  ASSUME TypeOK, TypeOK', Session, Stock, Stock', Asked, Commands, run'.asked = run.asked
  PROVE  Asked'
BY OldKept DEF Asked, TypeOK, RunType

LEMMA AskedNone ==
  ASSUME run'.asked = {} PROVE Asked'
BY DEF Asked, Old

LEMMA RecoverCompleting ==
  ASSUME TypeOK, TypeOK', Session, Stock, Stock', Completing, Recovers \/ Removal
  PROVE  Completing'
<1>a. Asked /\ Commands
  BY DEF Completing, Commands
<1>1. CASE RecoverCfg \/ RecoverEfi \/ RecoverInitrd \/ RecoverRelease
  <2>1. run'.cmd = "recover" /\ run'.asked = run.asked /\ verdict' = verdict /\ run.cmd = "recover"
    <3>1. CASE RecoverCfg
      BY <3>1, Moves DEF RecoverCfg, On, Keep, StepNames
    <3>2. CASE RecoverEfi
      BY <3>2, Moves DEF RecoverEfi, On, Keep, StepNames
    <3>3. CASE RecoverInitrd
      BY <3>3, Moves, InitrdEffect DEF RecoverInitrd, On, Keep, StepNames
    <3>4. CASE RecoverRelease
      BY <3>4, Moves DEF RecoverRelease, Release, On, Keep, StepNames
    <3> QED
      BY <1>1, <3>1, <3>2, <3>3, <3>4
  <2>2. Asked'
    BY <2>1, <1>a, AskedSame
  <2> QED
    BY <2>1, <2>2, Elsewhere DEF Session
<1>2. CASE RecoverBanner
  <2>1. run' = NoRun /\ verdict' \in {"recovered", "recovered with errors"}
    BY <1>2 DEF RecoverBanner
  <2>2. Asked' /\ run'.cmd = "none"
    BY <2>1, AskedNone DEF NoRun
  <2> QED
    BY <2>1, <2>2, Elsewhere
<1>3. CASE StartRemoval \/ StartSetup
  <2>1. run'.cmd \in {"remove", "setup"} /\ run'.asked = {} /\ verdict' = "none"
    BY <1>3 DEF StartRemoval, StartSetup, Begin, NoRun
  <2>2. Asked'
    BY <2>1, AskedNone
  <2> QED
    BY <2>1, <2>2, Elsewhere
<1>4. CASE RemoveGuard
  <2>1. run.cmd = "remove" /\ verdict = "none"
    BY <1>4 DEF RemoveGuard, Session
  <2>2. \/ run' = NoRun /\ verdict' = "removed"
        \/ run'.cmd = "remove" /\ run'.asked = run.asked /\ verdict' = verdict
    BY <1>4, <2>1, Moves DEF RemoveGuard, StepNames
  <2>3. Asked' /\ run'.cmd \in {"none", "remove"}
    <3>1. CASE run' = NoRun
      BY <3>1, Moves, AskedNone
    <3>2. CASE run'.cmd = "remove" /\ run'.asked = run.asked
      BY <1>a, <3>2, AskedSame
    <3> QED
      BY <2>2, <3>1, <3>2
  <2> QED
    BY <2>1, <2>2, <2>3, Elsewhere
<1> QED
  BY <1>1, <1>2, <1>3, <1>4 DEF Recovers, Removal

LEMMA GuardCompleting ==
  ASSUME TypeOK, TypeOK', Session, Stock, Stock', Completing, InstallGuard
  PROVE  Completing'
<1>a. Asked /\ Commands
  BY DEF Completing, Commands, Shared
<1>1. PICK file \in Guards : /\ sys' = Installed(file)
                            /\ run.step = Step(file)
                            /\ run.cmd # "remove"
                            /\ IF run.cmd = "setup" /\ file = "grub" THEN run' = NoRun
                               ELSE Goes(CASE run.cmd = "repair" -> "initrd"
                                           [] run.cmd = "setup" /\ file = "conf" -> "guard"
                                           [] OTHER -> NextGuard(file))
  BY DEF InstallGuard
<1>2. sys'.guards = sys.guards \cup {file} /\ host' = host /\ verdict' = verdict
  BY <1>1 DEF Installed, TypeOK, SysType, InstallGuard, Keep
<1>3. run' = NoRun \/ \E s \in {"initrd", "guard", "hook", "conf", "boot"} : Goes(s)
  BY <1>1 DEF NextGuard, Guards
<1>4. run.cmd # "none"
  <2>1. run.step # ""
    BY <1>1 DEF Step, Guards
  <2> QED
    BY <2>1, Moves DEF Session
<1>5. verdict' = "none"
  BY <1>2, <1>4 DEF Session
<1>6. CASE run' = NoRun
  BY <1>5, <1>6, AskedNone, Elsewhere DEF NoRun
<1>7. CASE \E s \in {"initrd", "guard", "hook", "conf", "boot"} : Goes(s)
  <2>1. /\ run'.step \in {"initrd", "guard", "hook", "conf", "boot"}
        /\ run'.asked = run.asked /\ run'.cmd = run.cmd
    BY <1>7, Moves DEF StepNames
  <2>2. Asked'
    BY <1>a, <2>1, AskedSame
  <2>3. Guarding'
    <3>1. CASE file = "grub"
      BY <1>2, <3>1 DEF Guarding
    <3>2. CASE file # "grub"
      <4>1. run.step = file /\ run.step \notin {"guard", "release", "banner"}
        BY <1>1, <3>2 DEF Step, Guards
      <4> QED
        BY <1>2, <2>1, <4>1 DEF Guarding, Completing, Rewriting
    <3> QED
      BY <3>1, <3>2
  <2> QED
    BY <1>5, <2>1, <2>2, <2>3 DEF Completing, Prepared, Updated, Judged, Closed, Rewriting, After
<1> QED
  BY <1>3, <1>6, <1>7

(* Completing: finish and repair-boot, up to their verdict on grub.cfg.    *)
LEMMA ToJudge ==
  ASSUME TypeOK, NEW ok, run' = [run EXCEPT !.step = "judge", !.ok = ok]
  PROVE  /\ run'.step = "judge" /\ run'.cmd = run.cmd /\ run'.fails = run.fails
         /\ run'.asked = run.asked /\ run'.ok = ok
         /\ run'.booted = run.booted /\ run'.copied = run.copied
<1>1. run'.step = "judge"
  BY DEF TypeOK, RunType
<1>2. run'.cmd = run.cmd
  BY DEF TypeOK, RunType
<1>3. run'.fails = run.fails /\ run'.asked = run.asked
  BY DEF TypeOK, RunType
<1>4. run'.ok = ok
  BY DEF TypeOK, RunType
<1>5. run'.booted = run.booted /\ run'.copied = run.copied
  BY DEF TypeOK, RunType
<1> QED
  BY <1>1, <1>2, <1>3, <1>4, <1>5

LEMMA RewriteCompleting ==
  ASSUME TypeOK, TypeOK', Session, Stock, Stock', Completing,
         CopyCfg \/ RunUpdateGrub \/ JudgeCfg \/ FinishInitrd \/ FinishUuid
  PROVE  Completing'
<1>a. Asked /\ Commands
  BY DEF Completing, Commands, Shared
<1>b. run.cmd \in {"finish", "repair"}
  BY RewritingAt DEF CopyCfg, RunUpdateGrub, JudgeCfg, FinishInitrd, FinishUuid
<1>c. verdict' = "none"
  BY <1>b DEF CopyCfg, RunUpdateGrub, JudgeCfg, FinishInitrd, FinishUuid, Keep, Session
<1>g. "grub" \in sys.guards
  BY <1>b DEF CopyCfg, RunUpdateGrub, JudgeCfg, FinishInitrd, FinishUuid, Completing, Guarding,
              Rewriting
<1>k. sys.vmlinuz \subseteq sys.mods /\ sys'.vmlinuz \subseteq Kernels
  BY DEF Stock, StockOf, TypeOK, SysType
<1>1. CASE FinishInitrd
  <2>1. /\ sys'.vmlinuz = sys.vmlinuz /\ sys'.guards = sys.guards
        /\ \/ /\ Goes("copy")
              /\ \A k \in InstalledKernels(sys) : sys'.initrd[k] = "good"
           \/ GoesWith("copy", {"initrd"})
    BY <1>1, InitrdEffect DEF FinishInitrd, SameChain
  <2>2. run'.cmd = run.cmd /\ run'.step = "copy" /\ run'.asked = run.asked
    BY <2>1, Moves DEF StepNames
  <2>3. run'.fails = {} => \A k \in sys'.vmlinuz : sys'.initrd[k] = "good"
    <3>1. GoesWith("copy", {"initrd"}) => run'.fails # {}
      BY Moves DEF StepNames
    <3> QED
      BY <2>1, <3>1, <1>k DEF InstalledKernels
  <2>4. Guarding' /\ Asked'
    BY <1>a, <1>g, <2>1, <2>2, AskedSame DEF Guarding
  <2>5. Prepared'
    BY <1>g, <2>1, <2>3 DEF Prepared, Clean
  <2> QED
    BY <1>c, <2>2, <2>4, <2>5 DEF Completing, Updated, Judged, Closed, After
<1>2. CASE CopyCfg
  <2>1. /\ sys'.guards = sys.guards /\ sys'.vmlinuz = sys.vmlinuz /\ sys'.initrd = sys.initrd
    BY <1>2 DEF CopyCfg, TypeOK, SysType
  <2>2. /\ run'.step = "update" /\ run'.cmd = run.cmd /\ run'.fails = run.fails
        /\ run'.asked = InstalledKernels(sys)
    BY <1>2, ZenonT(60) DEF CopyCfg, TypeOK, RunType
  <2>3. Asked'
    BY <2>1, <2>2 DEF Asked, Old, InstalledKernels, Stock, StockOf, IsNewest
  <2>4. Prepared'
    BY <1>2, <1>b, <2>1, <2>2 DEF CopyCfg, Prepared, Clean, Completing, Rewriting
  <2> QED
    BY <1>c, <1>g, <2>1, <2>2, <2>3, <2>4
    DEF Completing, Guarding, Updated, Judged, Closed, After
<1>3. CASE RunUpdateGrub
  <2>1. PICK out \in UpdateGrub(sys) \cup UpdateGrubFails(sys) :
          /\ sys' = [sys EXCEPT !.cfg = out[1]]
          /\ run' = [run EXCEPT !.step = "judge", !.ok = out[2]]
    BY <1>3 DEF RunUpdateGrub
  <2>2. /\ sys'.guards = sys.guards /\ sys'.vmlinuz = sys.vmlinuz /\ sys'.initrd = sys.initrd
        /\ sys'.cfg = out[1]
    BY <2>1 DEF TypeOK, SysType
  <2>3. /\ run'.step = "judge" /\ run'.cmd = run.cmd /\ run'.fails = run.fails
        /\ run'.asked = run.asked /\ run'.ok = out[2]
    BY <2>1, ToJudge
  <2>4. Asked'
    BY <1>a, <2>3, AskedSame
  <2>5. Prepared'
    <3>1. run.fails = {} => Clean
      BY <1>3, <1>b DEF RunUpdateGrub, Prepared, Completing, Rewriting
    <3>2. run.fails = {} => Clean'
      BY <2>2, <3>1 DEF Clean
    <3> QED
      BY <2>3, <3>2 DEF Prepared
  <2>6. ASSUME run'.fails = {}, run'.ok
        PROVE  sys'.cfg.entries = {} \/ Sound'
    <3>1. Clean'
      BY <1>b, <2>3, <2>5, <2>6 DEF Prepared, Rewriting
    <3>2. out \in {<<sys.cfg, FALSE>>, <<Relist(sys), TRUE>>, <<Blank, TRUE>>}
      BY <2>1, Outcomes DEF UpdateGrubFails, Blank
    <3>3. CASE out = <<sys.cfg, FALSE>>
      BY <2>3, <2>6, <3>3
    <3>4. CASE out = <<Relist(sys), TRUE>>
      <4>1. sys'.cfg = Relist(sys')
        BY <2>2, <3>4 DEF Relist, Listed
      <4> QED
        BY <3>1, <4>1, RelistSound
    <3>5. CASE out = <<Blank, TRUE>>
      BY <2>2, <3>5 DEF Blank
    <3> QED
      BY <3>2, <3>3, <3>4, <3>5
  <2> QED
    BY <1>c, <1>g, <2>2, <2>3, <2>4, <2>5, <2>6
    DEF Completing, Guarding, Updated, Judged, Closed, After
<1>4. CASE JudgeCfg
  <2>1. run'.step = "uuid" /\ run'.cmd = run.cmd /\ run'.asked = run.asked
        /\ sys'.guards = sys.guards /\ host' = host
    BY <1>4, JudgeEffect, Moves, ZenonT(60) DEF StepNames, TypeOK, SysType, JudgeCfg
  <2>2. Asked'
    BY <1>a, <2>1, AskedSame
  <2>3. ASSUME run'.fails = {}
        PROVE  Sound' /\ run'.asked \cap sys'.vmlinuz \subseteq sys'.cfg.entries
    <3>1. ~GoesWith("uuid", {"grub"}) /\ ~GoesWith("uuid", {"grub", "lost"})
      BY <2>3, Moves, ZenonT(60) DEF StepNames
    <3>2. sys' = sys /\ Goes("uuid") /\ run.ok /\ Missing = {}
      BY <1>4, <3>1, JudgeEffect
    <3>3. run.fails = {}
      BY <2>3, <3>2, Moves DEF StepNames
    <3>4. sys.cfg.entries # {} /\ run.asked \subseteq sys.cfg.entries
      BY <3>2, KernelsAssumption DEF Missing
    <3>5. Sound
      BY <1>4, <1>b, <3>2, <3>3, <3>4 DEF JudgeCfg, Completing, Updated, Rewriting
    <3>6. Sound'
      BY <1>4, <3>2, <3>5, SoundSame DEF JudgeCfg, Keep, SameKernels
    <3> QED
      BY <2>1, <3>2, <3>4, <3>6
  <2> QED
    BY <1>c, <1>g, <2>1, <2>2, <2>3
    DEF Completing, Guarding, Prepared, Updated, Judged, Closed
<1>5. CASE FinishUuid
  <2>1. /\ run'.step \in {"esp", "release"} /\ run'.cmd = run.cmd /\ run'.asked = run.asked
        /\ run'.fails = run.fails
    BY <1>5, Moves DEF FinishUuid, FixUuid, StepNames
  <2>2. Asked'
    BY <1>a, <2>1, AskedSame
  <2>3. /\ SameKernels /\ sys'.guards = sys.guards /\ apt' = apt
        /\ sys'.cfg.entries = sys.cfg.entries
        /\ sys.cfg.uuid = "new" => sys'.cfg.uuid = "new"
    BY <1>5 DEF FinishUuid, FixUuid, Keep, SameKernels, TypeOK, SysType, CfgType
  <2>4. ASSUME run'.fails = {}
        PROVE  Sound' /\ run'.asked \cap sys'.vmlinuz \subseteq sys'.cfg.entries
    <3>1. Sound /\ run.asked \cap sys.vmlinuz \subseteq sys.cfg.entries
      BY <1>5, <1>b, <2>1, <2>4 DEF FinishUuid, Completing, Judged, Rewriting, After
    <3> QED
      BY <2>1, <2>3, <3>1 DEF Sound, Clean, Old, Settled, SameKernels
  <2> QED
    BY <1>c, <1>g, <2>1, <2>2, <2>3, <2>4
    DEF Completing, Guarding, Prepared, Updated, Judged, Closed
<1> QED
  BY <1>1, <1>2, <1>3, <1>4, <1>5

(* Completing: the rest of finish and repair-boot, and their banners.      *)
LEMMA RestCompleting ==
  ASSUME TypeOK, TypeOK', Session, Stock, Stock', Completing,
         Finishing \/ Repairs \/ Kill \/ RecoverAgain
  PROVE  Completing'
<1>1. CASE Kill \/ RecoverAgain
  <2>1. run'.cmd \in {"none", "recover"} /\ run'.asked = {} /\ verdict' \in {"killed", "none"}
    BY <1>1, RestoredEffect, Moves DEF Kill, Begin, NoRun
  <2> QED
    BY <2>1, AskedNone, Elsewhere
<1>2. CASE StartFinish
  <2>1. run'.step = "guard" /\ run'.asked = {} /\ verdict' = "none"
    BY <1>2 DEF StartFinish, Begin, NoRun
  <2> QED
    BY <2>1, AskedNone, Elsewhere
<1>3. CASE StartRepair
  <2>1. run'.asked = {} /\ verdict' = "none"
    BY <1>3 DEF StartRepair, Begin, NoRun
  <2>2. run'.step = "guard" \/ (run'.step = "release" /\ run'.fails = {"boot"})
    BY <1>3 DEF StartRepair, Begin, NoRun
  <2>3. Asked'
    BY <2>1, AskedNone
  <2>4. CASE run'.step = "guard"
    BY <2>1, <2>3, <2>4, Elsewhere
  <2>5. CASE run'.step = "release" /\ run'.fails = {"boot"}
    BY <2>1, <2>3, <2>5 DEF Completing, Guarding, Prepared, Updated, Judged, Closed
  <2> QED
    BY <2>2, <2>4, <2>5
<1>4. CASE FinishBoot
  <2>1. /\ run.cmd = "finish" /\ run'.cmd = run.cmd /\ run'.asked = run.asked
        /\ run'.step = "initrd" \/ (run'.step = "esp" /\ run'.fails # {})
    BY <1>4, Moves DEF FinishBoot, On, StepNames
  <2>2. sys' = sys /\ verdict' = "none" /\ run.step = "boot"
    BY <1>4, <2>1 DEF FinishBoot, Keep, On, Session
  <2>3. Asked'
    BY <1>4, <2>1, AskedSame DEF Completing, Commands, Finishing
  <2>4. Guarding'
    BY <2>1, <2>2 DEF Completing, Guarding, Rewriting
  <2> QED
    BY <2>1, <2>2, <2>3, <2>4 DEF Completing, Prepared, Updated, Judged, Closed, After
<1>5. CASE FinishEsp
  <2>1. /\ run.cmd = "finish" /\ run'.cmd = run.cmd /\ run'.asked = run.asked
        /\ run'.step = "banner" /\ run.step = "esp" /\ verdict' = verdict
    BY <1>5, Moves DEF FinishEsp, On, StepNames, Keep
  <2>2. verdict' = "none"
    BY <2>1 DEF Session
  <2>3. run'.fails = {} => run.fails = {} /\ Goes("banner")
    <3>1. GoesWith("banner", {"esp"}) => run'.fails # {}
      BY Moves DEF StepNames
    <3>2. Goes("banner") => run'.fails = run.fails
      BY Moves DEF StepNames
    <3> QED
      BY <1>5, <3>1, <3>2 DEF FinishEsp
  <2>4. /\ SameKernels /\ sys'.cfg = sys.cfg /\ sys'.guards = sys.guards /\ apt' = apt
    BY <1>5 DEF FinishEsp, Keep, SameKernels, TypeOK, SysType
  <2>5. run'.fails = {} => sys'.efi = {"shim", "grub"}
    <3>1. GoesWith("banner", {"esp"}) => run'.fails # {}
      BY Moves DEF StepNames
    <3> QED
      BY <1>5, <3>1 DEF FinishEsp, TypeOK, SysType
  <2>6. Asked'
    BY <1>5, <2>1, AskedSame DEF Completing, Commands, Finishing
  <2>7. run'.fails = {} => Sound' /\ run'.asked \cap sys'.vmlinuz \subseteq sys'.cfg.entries
    <3>1. run.fails = {} => Sound /\ run.asked \cap sys.vmlinuz \subseteq sys.cfg.entries
      BY <2>1 DEF Completing, Judged, Rewriting, After
    <3>2. Sound => Sound'
      BY <2>4, SoundSame
    <3> QED
      BY <2>1, <2>3, <2>4, <3>1, <3>2 DEF SameKernels
  <2> QED
    BY <2>1, <2>2, <2>5, <2>6, <2>7 DEF Completing, Guarding, Prepared, Updated, Judged, Closed
<1>6. CASE FinishBanner
  <2>1. /\ run.cmd = "finish" /\ run.step = "banner" /\ run' = NoRun
        /\ UNCHANGED <<sys, apt>>
        /\ verdict' = "finished" => run.fails = {}
        /\ verdict' \in {"finished", "finish incomplete"}
    BY <1>6 DEF FinishBanner, On
  <2>2. verdict' = "finished" => Sound'
    <3>1. run.fails = {} => Sound
      BY <2>1 DEF Completing, Judged, Rewriting, After
    <3>2. Sound => Sound'
      BY <2>1, SoundSame DEF SameKernels
    <3> QED
      BY <2>1, <3>1, <3>2
  <2>3. run'.cmd = "none" /\ Asked'
    BY <2>1, Moves, AskedNone
  <2> QED
    BY <2>1, <2>2, <2>3 DEF Completing, Guarding, Prepared, Updated, Judged, Closed, Rewriting
<1>7. CASE RepairRelease
  <2>1. /\ run.cmd = "repair" /\ run'.cmd = run.cmd /\ run'.asked = run.asked
        /\ run'.step = "banner" /\ run.step = "release" /\ verdict' = "none"
        /\ UNCHANGED <<sys, apt>>
    BY <1>7, Moves DEF RepairRelease, Release, On, StepNames, Keep, Session
  <2>2. run'.fails = {} => run.fails = {} /\ ~host'.inuse
    <3>1. GoesWith("banner", {"pools"}) => run'.fails # {}
      BY Moves DEF StepNames
    <3>2. CASE Goes("banner") /\ host' = [host EXCEPT !.inuse = FALSE]
      BY <3>2, Moves DEF StepNames, TypeOK, HostType
    <3> QED
      BY <1>7, <3>1, <3>2 DEF RepairRelease, Release
  <2>3. Asked'
    BY <1>7, <2>1, AskedSame DEF Completing, Commands, Repairs
  <2>4. run'.fails = {} => Sound' /\ run'.asked \cap sys'.vmlinuz \subseteq sys'.cfg.entries
    <3>1. run.fails = {} => Sound /\ run.asked \cap sys.vmlinuz \subseteq sys.cfg.entries
      BY <2>1 DEF Completing, Judged, Rewriting, After
    <3>2. Sound => Sound'
      BY <2>1, SoundSame DEF SameKernels
    <3> QED
      BY <2>1, <2>2, <3>1, <3>2
  <2> QED
    BY <2>1, <2>2, <2>3, <2>4 DEF Completing, Guarding, Prepared, Updated, Judged, Closed
<1>8. CASE RepairBanner
  <2>1. /\ run.cmd = "repair" /\ run.step = "banner" /\ run' = NoRun
        /\ UNCHANGED <<sys, apt, host>>
        /\ verdict' = "repaired" => run.fails = {}
        /\ verdict' \in {"repaired", "fatal", "repair incomplete"}
    BY <1>8 DEF RepairBanner, On
  <2>2. verdict' = "repaired" => Sound' /\ ~host'.inuse
    <3>1. run.fails = {} => Sound /\ ~host.inuse
      BY <2>1 DEF Completing, Judged, Closed, Rewriting, After
    <3>2. Sound => Sound'
      BY <2>1, SoundSame DEF SameKernels
    <3> QED
      BY <2>1, <3>1, <3>2
  <2>3. run'.cmd = "none" /\ Asked'
    BY <2>1, Moves, AskedNone
  <2> QED
    BY <2>1, <2>2, <2>3 DEF Completing, Guarding, Prepared, Updated, Judged, Closed, Rewriting
<1> QED
  BY <1>1, <1>2, <1>3, <1>4, <1>5, <1>6, <1>7, <1>8 DEF Finishing, Repairs

LEMMA CompletingStep ==
  ASSUME TypeOK, TypeOK', Session, Stock, Stock', Completing, [Next]_vars
  PROVE  Completing'
BY AnyStep, OutsideCompleting, RecoverCompleting, GuardCompleting, RewriteCompleting,
   RestCompleting
DEF Commands, Shared
-----------------------------------------------------------------------------
(* Keeping: what happens beside a command.                                 *)
LEMMA InitrdKept ==
  ASSUME TypeOK, Session, Outside
  PROVE  \A k \in Kernels : k \in sys'.vmlinuz /\ sys.initrd[k] = "good"
                              => sys'.initrd[k] = "good"
<1>t. sys.vmlinuz \subseteq Kernels /\ sys.initrd \in [Kernels -> {"none", "stale", "good"}]
  BY DEF TypeOK, SysType
<1>1. CASE UNCHANGED vars \/ Beside \/ StartInstall \/ ConfigureAgain
  <2>1. sys'.initrd = sys.initrd
    BY <1>1, BesideEffect, InstallEffect, AgainEffect DEF vars, SameKernels
  <2> QED
    BY <2>1
<1>2. CASE StartRemove
  <2>1. PICK k \in sys.vmlinuz : /\ sys'.vmlinuz = sys.vmlinuz \ {k}
                                /\ sys'.initrd = [sys.initrd EXCEPT ![k] = "none"]
    BY <1>2, RemoveEffect
  <2> QED
    BY <2>1, <1>t
<1>3. CASE Configure
  <2>1. sys'.initrd = IF apt.op = "install"
                      THEN [sys.initrd EXCEPT ![apt.kernel] = "good"] ELSE sys.initrd
    BY <1>3, ConfigureEffect
  <2> QED
    BY <2>1, <1>t
<1> QED
  BY <1>1, <1>2, <1>3 DEF Outside

(* A listing names a kernel as new as the one that booted.                 *)
LEMMA RelistFair ==
  ASSUME TypeOK', Stock', sys'.cfg = Relist(sys'), NEW e \in run'.asked,
         run'.asked \subseteq sys'.vmlinuz, sys'.initrd[e] = "good"
  PROVE  Fair'
<1>1. /\ sys' \in SysType /\ StockOf(sys', apt') /\ Listed(sys') \subseteq Kernels
      /\ Kernels \subseteq Nat /\ NoApt.op = "none" /\ e \in Kernels
      /\ sys'.initrd \in [Kernels -> {"none", "stale", "good"}]
      /\ sys'.vmlinuz \subseteq Kernels
  BY KernelsAssumption DEF TypeOK, RunType, Stock, Listed, SysType, NoApt
<1> DEFINE L == Listed(sys')
<1>2. /\ IsNewest(Newest(L), L) /\ L \subseteq sys'.vmlinuz
      /\ \A k \in L : sys'.initrd[k] # "none"
      /\ apt'.op # "install" => L = sys'.vmlinuz
  BY <1>1, Listing
<1>3. sys'.cfg.uuid = "new" /\ sys'.cfg.entries = L
  BY DEF Relist
<1>4. e \in L
  BY DEF Listed
<1> DEFINE m == Newest(L)
<1> HIDE DEF L
<1>5. m \in L /\ e <= m /\ m \in sys'.vmlinuz /\ L # {}
  BY <1>2, <1>4 DEF IsNewest
<1>6. sys'.initrd[m] = "good"
  <2>1. m \in Kernels /\ sys'.initrd[m] # "none" /\ m \in Nat /\ e \in Nat /\ e >= 1
    BY <1>1, <1>2, <1>5 DEF StockOf
  <2>2. sys'.initrd[m] = "stale" => m = 1
    BY <1>1, <2>1 DEF StockOf
  <2>3. m = 1 => e = 1
    BY <1>5, <2>1
  <2> QED
    BY <1>1, <2>1, <2>2, <2>3
<1>7. apt' = NoApt => m = Newest(sys'.vmlinuz)
  BY <1>1, <1>2
<1> QED
  BY <1>3, <1>5, <1>6, <1>7 DEF Fair, Settled

LEMMA FairSame ==
  ASSUME Fair, SameKernels, sys'.cfg = sys.cfg, apt' = apt, run'.asked = run.asked
  PROVE  Fair'
BY DEF Fair, Settled, SameKernels

LEMMA FairKept ==
  ASSUME TypeOK, TypeOK', Session, Stock, Stock', Outside, Asked,
         run.asked \subseteq sys'.vmlinuz, "grub" \in sys.guards,
         NEW e \in run.asked, sys.initrd[e] = "good",
         sys.cfg.entries = {} \/ Fair
  PROVE  (sys'.cfg = sys.cfg /\ sys.cfg.entries = {}) \/ Fair'
<1> DEFINE n == Newest(sys.cfg.entries)
<1>r. run' = run
  BY OutsideRun
<1>a. run.asked \subseteq Kernels /\ sys'.initrd[e] = "good" /\ sys.vmlinuz \subseteq Kernels
  BY InitrdKept DEF TypeOK, RunType, SysType
<1>1. CASE sys'.cfg = Relist(sys')
  BY <1>1, <1>a, <1>r, RelistFair
<1>2. CASE UNCHANGED vars \/ Beside
  <2>1. SameKernels /\ sys'.cfg = sys.cfg /\ apt' = apt
    BY <1>2, BesideEffect DEF vars, SameKernels, SameChain
  <2> QED
    BY <2>1, <1>r, FairSame
<1>3. CASE StartInstall
  <2>1. PICK k \in Kernels : /\ sys'.vmlinuz = sys.vmlinuz \cup {k}
                            /\ apt' = [op |-> "install", kernel |-> k]
    BY <1>3, InstallEffect
  <2>2. sys'.cfg = sys.cfg /\ sys'.initrd = sys.initrd
    BY <1>3, InstallEffect DEF SameChain
  <2>3. ~Settled'
    <3>1. apt'.op = "install" /\ NoApt.op = "none"
      BY <2>1 DEF NoApt
    <3> QED
      BY <3>1 DEF Settled
  <2> QED
    BY <2>1, <2>2, <2>3, <1>r DEF Fair
<1>4. CASE StartRemove
  <2>1. PICK k \in sys.vmlinuz :
          /\ k # Newest(sys.vmlinuz)
          /\ sys'.vmlinuz = sys.vmlinuz \ {k}
          /\ sys'.initrd = [sys.initrd EXCEPT ![k] = "none"]
          /\ apt' = [op |-> "remove", kernel |-> k]
    BY <1>4, RemoveEffect
  <2>2. sys'.cfg = sys.cfg /\ Settled
    BY <1>4, RemoveEffect DEF SameChain, Settled
  <2>3. ~Settled'
    <3>1. apt'.op = "remove" /\ NoApt.op = "none"
      BY <2>1 DEF NoApt
    <3> QED
      BY <3>1 DEF Settled
  <2>4. Fair => n \in sys'.vmlinuz
    BY <2>1, <2>2 DEF Fair
  <2>5. Fair => sys'.initrd[n] = "good"
    BY <2>4, <1>a, InitrdKept DEF Fair
  <2> QED
    BY <2>2, <2>3, <2>4, <2>5, <1>r DEF Fair
<1>5. CASE Configure /\ sys'.cfg = sys.cfg /\ sys'.half = sys.half \cup {apt.kernel}
  <2>1. sys'.vmlinuz = sys.vmlinuz
    BY <1>5, ConfigureEffect
  <2>2. ~Settled'
    BY <1>5 DEF Settled
  <2>3. Fair => sys'.initrd[n] = "good"
    BY <2>1, <1>a, InitrdKept DEF Fair
  <2> QED
    BY <1>5, <2>1, <2>2, <2>3, <1>r DEF Fair
<1> QED
  BY <1>1, <1>2, <1>3, <1>4, <1>5, ConfigureEffect, AgainEffect DEF Outside, Relist, Listed

LEMMA OutsideKeeping ==
  ASSUME TypeOK, TypeOK', Session, Stock, Stock', Completing, Keeping, Outside
  PROVE  Keeping'
<1>r. run' = run /\ sys'.guards = sys.guards /\ sys'.prior = sys.prior
  BY OutsideRun
<1>a. Asked /\ run.asked \subseteq Kernels
  BY DEF Completing, TypeOK, RunType
<1>p. Promised' => Promised /\ run.asked \subseteq sys'.vmlinuz
  <2>1. run.asked \cap sys'.vmlinuz \subseteq sys.vmlinuz
    BY <1>a, OldKept DEF Asked
  <2> QED
    BY <1>r, <2>1 DEF Promised, Rewriting
<1>1. Anchor'
  <2> SUFFICES ASSUME Promised', run.step \in {"update", "judge"} \cup After
               PROVE  /\ "grub" \in sys.guards
                      /\ \E e \in run.asked : sys'.initrd[e] = "good" /\ PutBack(e)'
    BY <1>r DEF Anchor
  <2>1. PICK e \in run.asked : sys.initrd[e] = "good" /\ PutBack(e)
    BY <1>p DEF Keeping, Anchor
  <2>2. e \in Kernels /\ e \in sys'.vmlinuz
    BY <1>a, <1>p
  <2>3. sys'.initrd[e] = "good"
    BY <2>1, <2>2, InitrdKept
  <2>4. PutBack(e)'
    BY <1>r, <2>1 DEF PutBack
  <2>5. "grub" \in sys.guards
    BY <1>p DEF Keeping, Anchor
  <2> QED
    BY <2>3, <2>4, <2>5
<1>2. ASSUME Promised', run.step \in {"judge"} \cup After, sys.cfg.entries = {} \/ Fair
      PROVE  (sys'.cfg = sys.cfg /\ sys.cfg.entries = {}) \/ Fair'
  <2>1. "grub" \in sys.guards /\ \E e \in run.asked : sys.initrd[e] = "good"
    BY <1>2, <1>p DEF Keeping, Anchor
  <2>2. PICK e \in run.asked : sys.initrd[e] = "good"
    BY <2>1
  <2> QED
    BY <1>2, <1>a, <1>p, <2>1, <2>2, FairKept
<1>3. Promised' /\ run.step = "judge" /\ run.ok => sys'.cfg.entries = {} \/ Fair'
  BY <1>2, <1>p DEF Keeping
<1>4. Promised' /\ run.step \in After /\ "lost" \notin run.fails => Fair'
  <2>1. Fair => sys.cfg.entries # {}
    BY DEF Fair
  <2> QED
    BY <1>2, <1>p, <2>1 DEF Keeping
<1>5. Rewriting' /\ run'.booted => run'.step \in {"update", "judge"} \cup After
  BY <1>r DEF Keeping, Rewriting
<1> QED
  BY <1>r, <1>1, <1>3, <1>4, <1>5 DEF Keeping

(* Keeping: the commands.                                                  *)
LEMMA NotBooted ==
  ASSUME run'.cmd \notin {"finish", "repair"} \/ run'.booted = FALSE
  PROVE  Keeping'
BY DEF Keeping, Anchor, Promised, Rewriting

LEMMA AnchorSame ==
  ASSUME TypeOK, Promised => Anchor, SameKernels, sys'.guards = sys.guards, sys'.prior = sys.prior,
         run.step \in {"update", "judge"} \cup After,
         run'.asked = run.asked, run'.cmd = run.cmd, run'.booted = run.booted,
         run'.copied = run.copied
  PROVE  Anchor'
BY DEF Anchor, Promised, Rewriting, SameKernels, PutBack

LEMMA EarlyKeeping ==
  ASSUME TypeOK, Session, Keeping,
         Recovers \/ Removal \/ Kill \/ RecoverAgain \/ StartFinish \/ StartRepair
           \/ FinishBanner \/ RepairBanner \/ InstallGuard \/ FinishBoot \/ FinishInitrd
  PROVE  Keeping'
<1>1. CASE Kill \/ RecoverAgain \/ StartFinish \/ FinishBanner \/ RepairBanner \/ RecoverBanner
           \/ StartRemoval \/ StartSetup
  <2>1. run'.booted = FALSE
    BY <1>1, Moves
    DEF Kill, RecoverAgain, StartFinish, FinishBanner, RepairBanner, RecoverBanner,
        StartRemoval, StartSetup, Begin, NoRun
  <2> QED
    BY <2>1, NotBooted
<1>2. CASE StartRepair
  <2>1. run'.booted = FALSE
    BY <1>2 DEF StartRepair, Begin, NoRun
  <2> QED
    BY <2>1, NotBooted
<1>3. CASE RecoverCfg \/ RecoverEfi \/ RecoverInitrd \/ RecoverRelease
  <2>1. run'.cmd = "recover"
    <3>1. CASE RecoverCfg
      BY <3>1, Moves DEF RecoverCfg, On, StepNames
    <3>2. CASE RecoverEfi
      BY <3>2, Moves DEF RecoverEfi, On, StepNames
    <3>3. CASE RecoverInitrd
      BY <3>3, Moves, InitrdEffect DEF RecoverInitrd, On, StepNames
    <3>4. CASE RecoverRelease
      BY <3>4, Moves DEF RecoverRelease, Release, StepNames
    <3> QED
      BY <1>3, <3>1, <3>2, <3>3, <3>4
  <2> QED
    BY <2>1, NotBooted
<1>4. CASE RemoveGuard
  <2>1. run'.cmd \in {"none", "remove"}
    BY <1>4, Moves DEF RemoveGuard, StepNames
  <2> QED
    BY <2>1, NotBooted
<1>5. CASE InstallGuard \/ FinishBoot \/ FinishInitrd
  <2>1. run.step \in {"guard", "hook", "conf", "boot", "initrd"}
    BY <1>5 DEF InstallGuard, FinishBoot, FinishInitrd, On, Step, Guards
  <2>2. ~(Rewriting /\ run.booted)
    BY <2>1 DEF Keeping, After
  <2>3. run' = NoRun \/ (run'.cmd = run.cmd /\ run'.booted = run.booted)
    <3>1. CASE InstallGuard
      <4>1. run' = NoRun \/ \E s \in {"initrd", "guard", "hook", "conf", "boot"} : Goes(s)
        BY <3>1 DEF InstallGuard, NextGuard, Guards
      <4> QED
        BY <4>1, Moves DEF StepNames
    <3>2. CASE FinishBoot
      BY <3>2, Moves DEF FinishBoot, StepNames
    <3>3. CASE FinishInitrd
      BY <3>3, InitrdEffect, Moves DEF FinishInitrd, StepNames
    <3> QED
      BY <1>5, <3>1, <3>2, <3>3
  <2>4. run'.booted \in BOOLEAN => Keeping'
    BY <2>2, <2>3, Moves, NotBooted DEF Rewriting
  <2>5. run.booted \in BOOLEAN
    BY DEF TypeOK, RunType
  <2> QED
    BY <2>3, <2>4, <2>5, Moves
<1> QED
  BY <1>1, <1>2, <1>3, <1>4, <1>5 DEF Recovers, Removal

(* The copy names the newest kernel as the file it copies does.            *)
LEMMA CopyKeeping ==
  ASSUME TypeOK, Session, Keeping, Completing, CopyCfg
  PROVE  Keeping'
<1>b. run.cmd \in {"finish", "repair"}
  BY RewritingAt DEF CopyCfg
<1>1. /\ run'.step = "update" /\ run'.cmd = run.cmd
      /\ run'.asked = InstalledKernels(sys)
  BY DEF CopyCfg, TypeOK, RunType
<1>2. run'.booted = Bootable(sys)
  BY DEF CopyCfg, TypeOK, RunType
<1>3. sys'.guards = sys.guards /\ sys'.initrd = sys.initrd
  BY DEF CopyCfg, TypeOK, SysType
<1>4. run'.copied => sys'.prior[run.cmd] = sys.cfg
  <2>1. CASE sys' = [sys EXCEPT !.prior[run.cmd] = sys.cfg]
    BY <1>b, <2>1 DEF TypeOK, SysType
  <2>2. CASE run' = [run EXCEPT !.step = "update", !.copied = FALSE,
                                !.asked = InstalledKernels(sys), !.booted = Bootable(sys)]
    BY <2>2 DEF TypeOK, RunType
  <2> QED
    BY <2>1, <2>2 DEF CopyCfg
<1>5. Anchor'
  <2> SUFFICES ASSUME run'.booted
               PROVE  /\ "grub" \in sys'.guards
                      /\ \E e \in run'.asked : sys'.initrd[e] = "good" /\ PutBack(e)'
    BY DEF Anchor, Promised
  <2>1. PICK e \in InstalledKernels(sys) :
          /\ sys.cfg.uuid = "new" /\ sys.cfg.entries # {}
          /\ Newest(sys.cfg.entries) = e /\ sys.initrd[e] = "good"
    BY <1>2 DEF Bootable, InstalledKernels
  <2>2. PutBack(e)'
    BY <1>1, <1>4, <2>1 DEF PutBack
  <2>3. "grub" \in sys.guards
    BY <1>b DEF CopyCfg, Completing, Guarding, Rewriting
  <2> QED
    BY <1>1, <1>3, <2>1, <2>2, <2>3
<1> QED
  BY <1>1, <1>5 DEF Keeping, After

LEMMA UpdateKeeping ==
  ASSUME TypeOK, TypeOK', Session, Stock', Keeping, RunUpdateGrub
  PROVE  Keeping'
<1>1. PICK out \in UpdateGrub(sys) \cup UpdateGrubFails(sys) :
        /\ sys' = [sys EXCEPT !.cfg = out[1]]
        /\ run' = [run EXCEPT !.step = "judge", !.ok = out[2]]
  BY DEF RunUpdateGrub
<1>2. SameKernels /\ sys'.guards = sys.guards /\ sys'.prior = sys.prior /\ sys'.cfg = out[1]
  BY <1>1 DEF TypeOK, SysType, SameKernels
<1>3. /\ run'.step = "judge" /\ run'.cmd = run.cmd /\ run'.asked = run.asked
      /\ run'.ok = out[2] /\ run'.booted = run.booted /\ run'.copied = run.copied
  BY <1>1, ToJudge
<1>4. run.step = "update"
  BY DEF RunUpdateGrub
<1>5. Anchor'
  BY <1>2, <1>3, <1>4, AnchorSame DEF Keeping
<1>6. ASSUME Promised', run'.ok
      PROVE  sys'.cfg.entries = {} \/ Fair'
  <2>1. out \in {<<sys.cfg, FALSE>>, <<Relist(sys), TRUE>>, <<Blank, TRUE>>}
    BY Outcomes DEF UpdateGrubFails, Blank
  <2>2. CASE out = <<sys.cfg, FALSE>>
    BY <1>3, <1>6, <2>2
  <2>3. CASE out = <<Relist(sys), TRUE>>
    <3>1. sys'.cfg = Relist(sys')
      BY <1>2, <2>3 DEF Relist, Listed, SameKernels
    <3>2. \E e \in run'.asked : sys'.initrd[e] = "good"
      BY <1>3, <1>5, <1>6 DEF Anchor
    <3>3. run'.asked \subseteq sys'.vmlinuz
      BY <1>6 DEF Promised
    <3> QED
      BY <3>1, <3>2, <3>3, RelistFair
  <2>4. CASE out = <<Blank, TRUE>>
    BY <1>2, <2>4 DEF Blank
  <2> QED
    BY <2>1, <2>2, <2>3, <2>4
<1> QED
  BY <1>3, <1>5, <1>6 DEF Keeping, After

(* A grub.cfg that is accepted names a kernel; one that is not gives way   *)
(* to the copy.                                                            *)
LEMMA JudgeKeeping ==
  ASSUME TypeOK, Session, Keeping, JudgeCfg
  PROVE  Keeping'
<1>1. run.step = "judge" /\ apt' = apt
  BY DEF JudgeCfg, Keep
<1>2. /\ run'.step = "uuid" /\ run'.cmd = run.cmd /\ run'.asked = run.asked
      /\ run'.booted = run.booted /\ run'.copied = run.copied
  BY JudgeEffect, Moves DEF StepNames
<1>3. SameKernels /\ sys'.guards = sys.guards /\ sys'.prior = sys.prior
  BY JudgeEffect DEF TypeOK, SysType, SameKernels
<1>4. Anchor'
  BY <1>1, <1>2, <1>3, AnchorSame DEF Keeping
<1>5. Promised' => Promised
  BY <1>2, <1>3 DEF Promised, Rewriting, SameKernels
<1>6. ASSUME Promised', "lost" \notin run'.fails
      PROVE  Fair'
  <2>1. CASE sys' = sys /\ Goes("uuid") /\ run.ok /\ Missing = {}
    <3>1. sys.cfg.entries # {}
      BY <2>1, KernelsAssumption DEF Missing
    <3>2. Fair
      BY <1>1, <1>5, <1>6, <2>1, <3>1 DEF Keeping
    <3> QED
      BY <1>1, <1>2, <1>3, <2>1, <3>2, FairSame
  <2>2. CASE sys' = [sys EXCEPT !.cfg = sys.prior[run.cmd]] /\ run.copied
    <3>1. sys'.cfg = sys.prior[run.cmd]
      BY <2>2 DEF TypeOK, SysType
    <3>2. \E e \in run'.asked : sys'.initrd[e] = "good" /\ PutBack(e)'
      BY <1>2, <1>4, <1>6 DEF Anchor, After
    <3>3. PICK e \in run'.asked : sys'.initrd[e] = "good" /\ PutBack(e)'
      BY <3>2
    <3>4. sys'.cfg.entries # {} /\ sys'.cfg.uuid = "new" /\ Newest(sys'.cfg.entries) = e
      BY <1>2, <1>3, <2>2, <3>1, <3>3 DEF PutBack
    <3>5. e \in sys'.vmlinuz
      BY <1>6 DEF Promised
    <3> QED
      BY <3>3, <3>4, <3>5 DEF Fair
  <2>3. CASE GoesWith("uuid", {"grub", "lost"})
    <3>1. run'.fails = run.fails \cup {"grub", "lost"}
      BY <2>3, Moves DEF StepNames
    <3> QED
      BY <1>6, <3>1
  <2> QED
    BY <2>1, <2>2, <2>3, JudgeEffect
<1> QED
  BY <1>2, <1>4, <1>6 DEF Keeping, After

(* What follows grub.cfg touches neither kernels nor entries.              *)
LEMMA LateKeeping ==
  ASSUME TypeOK, Session, Keeping, FinishUuid \/ FinishEsp \/ RepairRelease
  PROVE  Keeping'
<1>1. /\ run'.step \in After /\ run'.cmd = run.cmd /\ run'.asked = run.asked
      /\ run'.booted = run.booted /\ run'.copied = run.copied /\ run.step \in After
      /\ run.fails \subseteq run'.fails
  <2>1. CASE FinishUuid
    BY <2>1, Moves DEF FinishUuid, FixUuid, StepNames, After
  <2>2. CASE FinishEsp
    BY <2>2, Moves DEF FinishEsp, On, StepNames, After
  <2>3. CASE RepairRelease
    BY <2>3, Moves DEF RepairRelease, Release, StepNames, After
  <2> QED
    BY <2>1, <2>2, <2>3
<1>2. /\ SameKernels /\ sys'.guards = sys.guards /\ sys'.prior = sys.prior
      /\ sys'.cfg.entries = sys.cfg.entries /\ apt' = apt
      /\ sys.cfg.uuid = "new" => sys'.cfg.uuid = "new"
  <2>1. CASE FinishUuid
    BY <2>1 DEF FinishUuid, FixUuid, Keep, TypeOK, SysType, CfgType, SameKernels
  <2>2. CASE FinishEsp
    BY <2>2 DEF FinishEsp, Keep, TypeOK, SysType, SameKernels
  <2>3. CASE RepairRelease
    BY <2>3 DEF RepairRelease, Keep, SameKernels
  <2> QED
    BY <2>1, <2>2, <2>3
<1>3. Anchor'
  BY <1>1, <1>2, AnchorSame DEF Keeping
<1>4. Promised' => Promised
  BY <1>1, <1>2 DEF Promised, Rewriting, SameKernels
<1>5. Fair => Fair'
  BY <1>1, <1>2 DEF Fair, Settled, SameKernels
<1>6. Promised' /\ "lost" \notin run'.fails => Fair'
  BY <1>1, <1>4, <1>5 DEF Keeping
<1>7. run'.step # "judge"
  BY <1>1 DEF After
<1> QED
  BY <1>1, <1>3, <1>6, <1>7 DEF Keeping

LEMMA KeepingStep ==
  ASSUME TypeOK, TypeOK', Session, Stock, Stock', Completing, Keeping, [Next]_vars
  PROVE  Keeping'
BY AnyStep, OutsideKeeping, EarlyKeeping, CopyKeeping, UpdateKeeping, JudgeKeeping, LateKeeping
DEF Commands, Shared, Finishing, Repairs
-----------------------------------------------------------------------------
(* Copying.                                                                *)
LEMMA MovedKept ==
  ASSUME TypeOK, TypeOK', Session, Stock, Stock', Outside,
         NEW m \in FilesType, Moved(m)
  PROVE  Moved(m)'
<1>t. /\ m[1] \subseteq Nat /\ Newest(sys.vmlinuz) \in Nat /\ Newest(sys'.vmlinuz) \in Nat
      /\ m[1] \subseteq Kernels /\ sys.initrd \in [Kernels -> {"none", "stale", "good"}]
  BY KernelsAssumption DEF FilesType, TypeOK, SysType, Stock, StockOf, IsNewest
<1>g. /\ Newest(sys.vmlinuz) <= Newest(sys'.vmlinuz)
      /\ \A k \in sys'.vmlinuz : k \in sys.vmlinuz \/ Newest(sys.vmlinuz) < k
  BY TopGrows
<1>1. CASE \A j \in m[1] : j < Newest(sys.vmlinuz)
  <2>1. \A j \in m[1] : j < Newest(sys'.vmlinuz)
    BY <1>1, <1>t, <1>g
  <2> QED
    BY <2>1 DEF Moved
<1>2. CASE \E k \in m[1] : k \notin sys.vmlinuz /\ k < Newest(sys.vmlinuz)
  <2>1. PICK k \in m[1] : k \notin sys.vmlinuz /\ k < Newest(sys.vmlinuz)
    BY <1>2
  <2>2. k \in Nat /\ k < Newest(sys'.vmlinuz) /\ k \notin sys'.vmlinuz
    <3>1. k \in Nat
      BY <1>t
    <3>2. k \notin sys'.vmlinuz
      BY <2>1, <3>1, <1>g, <1>t
    <3> QED
      BY <2>1, <3>1, <3>2, <1>g, <1>t
  <2> QED
    BY <2>2 DEF Moved
<1>3. CASE /\ sys.vmlinuz = m[1]
           /\ \E k \in m[1] : m[2][k] = "none" /\ sys.initrd[k] # "none"
  <2>1. PICK k \in m[1] : m[2][k] = "none" /\ sys.initrd[k] # "none"
    BY <1>3
  <2>2. CASE StartInstall
    <3>1. PICK j \in Kernels : (\A i \in sys.vmlinuz : i < j)
                               /\ sys'.vmlinuz = sys.vmlinuz \cup {j}
      BY <2>2, InstallEffect
    <3>2. Newest(sys'.vmlinuz) = j
      <4>1. j \in Nat /\ sys.vmlinuz \subseteq Nat
        BY KernelsAssumption DEF TypeOK, SysType
      <4>2. \A i \in sys'.vmlinuz : i <= j
        BY <3>1, <4>1
      <4> QED
        BY <3>1, <4>2, TopIsNext
    <3> QED
      BY <1>3, <3>1, <3>2 DEF Moved
  <2>3. CASE StartRemove
    <3>1. PICK j \in sys.vmlinuz : /\ j # Newest(sys.vmlinuz)
                                  /\ sys'.vmlinuz = sys.vmlinuz \ {j}
      BY <2>3, RemoveEffect
    <3>2. j <= Newest(sys.vmlinuz) /\ j \in Nat /\ j \in m[1]
      BY <1>3, <1>t, <3>1 DEF Stock, StockOf, IsNewest
    <3>3. j < Newest(sys'.vmlinuz) /\ j \notin sys'.vmlinuz
      BY <3>1, <3>2, <1>t, <1>g
    <3> QED
      BY <3>2, <3>3 DEF Moved
  <2>4. CASE Configure
    <3>1. /\ sys'.vmlinuz = sys.vmlinuz
          /\ sys'.initrd = IF apt.op = "install"
                           THEN [sys.initrd EXCEPT ![apt.kernel] = "good"] ELSE sys.initrd
      BY <2>4, ConfigureEffect
    <3>2. sys'.initrd[k] # "none"
      BY <2>1, <3>1, <1>t
    <3> QED
      BY <1>3, <2>1, <3>1, <3>2 DEF Moved
  <2>5. CASE UNCHANGED vars \/ Beside \/ ConfigureAgain
    <3>1. sys'.vmlinuz = sys.vmlinuz /\ sys'.initrd = sys.initrd
      BY <2>5, BesideEffect, AgainEffect DEF vars, SameKernels
    <3> QED
      BY <1>3, <2>1, <3>1 DEF Moved
  <2> QED
    BY <2>2, <2>3, <2>4, <2>5 DEF Outside
<1> QED
  BY <1>1, <1>2, <1>3 DEF Moved

(* The guard refuses a package's update-grub while a drive is there.       *)
LEMMA ConfigureKept ==
  ASSUME TypeOK, Session, Configure, "grub" \in sys.guards, host.drive = "imported"
  PROVE  sys'.cfg = sys.cfg
<1> DEFINE built == IF apt.op = "install"
                    THEN [sys EXCEPT !.initrd[apt.kernel] = "good"] ELSE sys
<1>1. PICK out \in UpdateGrub(built) :
        sys' = [built EXCEPT !.cfg = out[1],
                  !.half = IF out[2] THEN @ \ {apt.kernel} ELSE @ \cup {apt.kernel}]
  BY DEF Configure
<1>2. built \in SysType /\ built.cfg = sys.cfg /\ built.guards = sys.guards
  BY DEF TypeOK, SysType
<1> HIDE DEF built
<1>3. out = <<built.cfg, FALSE>>
  BY <1>1, <1>2 DEF UpdateGrub, Refuses, Visible
<1>4. sys'.cfg = out[1]
  BY <1>1, <1>2 DEF SysType
<1> QED
  BY <1>2, <1>3, <1>4

(* The first step away from a manifest, with a drive imported.             *)
LEMMA FirstMove ==
  ASSUME TypeOK, TypeOK', Session, Stock, Stock', Outside, Clean, host.drive = "imported",
         NEW m \in FilesType, Files(sys) = m
  PROVE  Files(sys') = m \/ Moved(m)'
<1>m. m[1] = sys.vmlinuz /\ m[2] = sys.initrd
  BY DEF Files
<1>t. /\ Newest(sys.vmlinuz) \in Nat /\ sys.vmlinuz \subseteq Nat /\ Newest(sys'.vmlinuz) \in Nat
      /\ sys.vmlinuz \subseteq Kernels /\ sys.initrd \in [Kernels -> {"none", "stale", "good"}]
  BY KernelsAssumption DEF TypeOK, SysType, Stock, StockOf, IsNewest
<1>g. Newest(sys.vmlinuz) <= Newest(sys'.vmlinuz)
  BY TopGrows
<1>1. CASE UNCHANGED vars \/ Beside
  BY <1>1, BesideEffect DEF vars, SameKernels, SameChain, Files
<1>2. CASE StartInstall
  <2>1. PICK j \in Kernels : (\A i \in sys.vmlinuz : i < j)
                             /\ sys'.vmlinuz = sys.vmlinuz \cup {j}
    BY <1>2, InstallEffect
  <2>2. Newest(sys'.vmlinuz) = j
    <3>1. j \in Nat
      BY KernelsAssumption
    <3>2. \A i \in sys'.vmlinuz : i <= j
      BY <2>1, <3>1, <1>t
    <3> QED
      BY <2>1, <3>2, TopIsNext
  <2>3. \A i \in sys.vmlinuz : i < Newest(sys'.vmlinuz)
    BY <2>1, <2>2
  <2> QED
    BY <1>m, <2>3 DEF Moved
<1>3. CASE StartRemove
  <2>1. PICK j \in sys.vmlinuz : /\ j # Newest(sys.vmlinuz)
                                /\ sys'.vmlinuz = sys.vmlinuz \ {j}
    BY <1>3, RemoveEffect
  <2>2. j < Newest(sys'.vmlinuz) /\ j \notin sys'.vmlinuz
    BY <2>1, <1>t, <1>g DEF Stock, StockOf, IsNewest
  <2> QED
    BY <1>m, <2>1, <2>2 DEF Moved
<1>4. CASE Configure
  <2>1. /\ sys'.vmlinuz = sys.vmlinuz
        /\ sys'.initrd = IF apt.op = "install"
                         THEN [sys.initrd EXCEPT ![apt.kernel] = "good"] ELSE sys.initrd
    BY <1>4, ConfigureEffect
  <2>2. sys'.cfg = sys.cfg
    BY <1>4, ConfigureKept DEF Clean
  <2>3. CASE sys'.initrd = sys.initrd
    BY <2>1, <2>2, <2>3 DEF Files
  <2>4. CASE sys'.initrd # sys.initrd
    <3> DEFINE k == apt.kernel
    <3>1. /\ apt.op = "install" /\ sys.initrd[k] # "good"
          /\ sys'.initrd = [sys.initrd EXCEPT ![k] = "good"]
      BY <2>1, <2>4, <1>t
    <3>2. k \in sys.vmlinuz
      BY <3>1 DEF Stock, StockOf, IsNewest
    <3>3. sys.initrd[k] = "none" /\ sys'.initrd[k] # "none"
      BY <3>1, <3>2, <1>t DEF Clean
    <3> HIDE DEF k
    <3>4. \E j \in sys.vmlinuz : sys.initrd[j] = "none" /\ sys'.initrd[j] # "none"
      BY <3>2, <3>3
    <3> QED
      BY <1>m, <2>1, <3>4 DEF Moved
  <2> QED
    BY <2>3, <2>4
<1>5. CASE ConfigureAgain
  BY <1>5 DEF ConfigureAgain, Visible
<1> QED
  BY <1>1, <1>2, <1>3, <1>4, <1>5 DEF Outside

LEMMA MovedAway ==
  ASSUME TypeOK, Stock, NEW m \in FilesType, Moved(m)
  PROVE  Files(sys) # m
<1>1. m[1] = sys.vmlinuz /\ m[2] = sys.initrd => ~Moved(m)
  <2>1. Newest(sys.vmlinuz) \in sys.vmlinuz /\ sys.vmlinuz \subseteq Nat
    BY KernelsAssumption DEF TypeOK, SysType, Stock, StockOf, IsNewest
  <2> QED
    BY <2>1 DEF Moved
<1> QED
  BY <1>1 DEF Files

LEMMA CopyingStep ==
  ASSUME TypeOK, TypeOK', Session, Stock, Stock', Completing, Copying, [Next]_vars
  PROVE  Copying'
<1>t. copy \in CopyType /\ Files(sys) \in FilesType /\ copy.manifest \in FilesType
  BY DEF TypeOK, CopyType, SysType, Files, FilesType
<1>1. CASE copy'.step = ""
  BY <1>1 DEF Copying
<1>2. CASE copy.step = "" /\ copy'.step # ""
  <2>1. CopyManifest
    <3>1. CASE Outside
      BY <1>2, <3>1, InstallEffect, RemoveEffect, ConfigureEffect, AgainEffect
      DEF Outside, vars, Beside, Copies, CopyBoot, TakePoint, CheckCopy, Restart, Upgrade,
          FixFstab, Unplug, Plug, ImportBackup, LoseEfi
    <3>2. CASE Commands \/ RecoverAgain
      BY <1>2, <3>2, CommandEffect DEF RecoverAgain
    <3> QED
      BY <3>1, <3>2, AnyStep
  <2>2. copy'.step = "read" /\ copy'.manifest = Files(sys) /\ copy'.mark = "none"
    BY <2>1, <1>t DEF CopyManifest, CopyType
  <2>3. sys' = sys /\ host' = host /\ host.drive = "imported"
    BY <2>1 DEF CopyManifest
  <2> QED
    BY <2>2, <2>3 DEF Copying
<1>3. CASE copy.step # "" /\ copy'.step # ""
  <2>0. verdict = "finished" /\ run.cmd = "none" /\ host.where = "up" /\ run = NoRun
    BY <1>3 DEF Session
  <2>1. verdict = "finished" /\ run.cmd = "none" /\ host.where = "up" /\ run.step = ""
    BY <2>0, Moves
  <2>2. Outside
    <3>1. ~RecoverAgain
      BY <2>1 DEF RecoverAgain
    <3>2. ~Commands
      <4>1. ~Recovers /\ ~Kill
        BY <2>1 DEF Recovers, RecoverCfg, RecoverEfi, RecoverInitrd, RecoverRelease,
                    RecoverBanner, On, Kill, Idle
      <4>2. ~InstallGuard /\ ~RemoveGuard
        BY <2>1 DEF InstallGuard, RemoveGuard, Step, Guards
      <4>3. ~CopyCfg /\ ~RunUpdateGrub /\ ~JudgeCfg /\ ~FinishInitrd /\ ~FinishUuid
        BY <2>1 DEF CopyCfg, RunUpdateGrub, JudgeCfg, FinishInitrd, FinishUuid
      <4>4. ~Finishing
        BY <1>3, <2>1 DEF Finishing, StartFinish, FinishBoot, FinishEsp, FinishBanner, On
      <4>5. ~StartRemoval /\ ~StartSetup
        BY <1>3, <2>1 DEF StartRemoval, StartSetup
      <4>6. ~Repairs
        BY <2>1 DEF Repairs, StartRepair, RepairRelease, RepairBanner, On
      <4> QED
        BY <4>1, <4>2, <4>3, <4>4, <4>5, <4>6 DEF Commands, Shared, Removal
    <3> QED
      BY <3>1, <3>2, AnyStep
  <2>3. Clean
    BY <2>1 DEF Completing, Closed, Sound
  <2>4. host'.drive = "imported"
    BY <1>3, <2>2, InstallEffect, RemoveEffect, ConfigureEffect, AgainEffect
    DEF Outside, vars, Beside, Copies, CopyManifest, CopyBoot, TakePoint, CheckCopy, Restart,
        Upgrade, FixFstab, Unplug, Plug, ImportBackup, LoseEfi, Copying
  <2>5. CASE copy' = copy
    <3>1. CASE Moved(copy.manifest)
      <4>1. \A m \in FilesType : Moved(m) => Moved(m)'
        BY <2>2, MovedKept
      <4>2. Moved(copy.manifest)'
        BY <1>t, <2>5, <3>1, <4>1
      <4> QED
        BY <1>3, <2>4, <2>5, <4>2 DEF Copying
    <3>2. CASE /\ Files(sys) = copy.manifest
               /\ copy.step \in {"copied", "taken"} => copy.held = copy.manifest
               /\ copy.step = "taken" => copy.at = copy.manifest
      <4>1. \A m \in FilesType : Files(sys) = m => Files(sys') = m \/ Moved(m)'
        BY <1>3, <2>2, <2>3, FirstMove DEF Copying
      <4>2. Files(sys') = copy.manifest \/ Moved(copy.manifest)'
        BY <1>t, <2>5, <3>2, <4>1
      <4> QED
        BY <1>3, <2>4, <2>5, <3>2, <4>2 DEF Copying
    <3> QED
      BY <1>3, <3>1, <3>2 DEF Copying
  <2>6. CASE CopyBoot \/ TakePoint
    <3>1. sys' = sys
      BY <2>6 DEF CopyBoot, TakePoint
    <3>2. /\ copy'.manifest = copy.manifest /\ copy'.mark = copy.mark
          /\ \/ copy'.step = "copied" /\ copy'.held = Files(sys)
             \/ /\ copy.step = "copied" /\ copy'.step = "taken"
                /\ copy'.held = copy.held /\ copy'.at = Files(sys)
      <4>1. CASE copy' = [copy EXCEPT !.step = "copied", !.held = Files(sys)]
        BY <1>t, <4>1 DEF CopyType
      <4>2. CASE copy.step = "copied" /\ copy' = [copy EXCEPT !.step = "taken", !.at = Files(sys)]
        BY <1>t, <4>2 DEF CopyType
      <4>3. copy' # NoCopy
        <5>1. NoCopy.step = ""
          BY DEF NoCopy
        <5> QED
          BY <1>3, <5>1
      <4> QED
        BY <2>6, <4>1, <4>2, <4>3 DEF CopyBoot, TakePoint
    <3>3. CASE Moved(copy.manifest)
      <4>1. Moved(copy.manifest)'
        BY <3>1, <3>2, <3>3 DEF Moved
      <4> QED
        BY <1>3, <2>4, <3>2, <4>1 DEF Copying
    <3>4. CASE /\ Files(sys) = copy.manifest
               /\ copy.step \in {"copied", "taken"} => copy.held = copy.manifest
      BY <1>3, <2>4, <3>1, <3>2, <3>4 DEF Copying
    <3> QED
      BY <1>3, <3>3, <3>4 DEF Copying
  <2>7. copy' = copy \/ CopyBoot \/ TakePoint
    BY <1>3, <2>2, InstallEffect, RemoveEffect, ConfigureEffect, AgainEffect
    DEF Outside, vars, Beside, Copies, CopyManifest, CheckCopy, NoCopy, Restart, Upgrade,
        FixFstab, Unplug, Plug, ImportBackup, LoseEfi
  <2> QED
    BY <2>5, <2>6, <2>7
<1> QED
  BY <1>1, <1>2, <1>3
-----------------------------------------------------------------------------
(* The system that recover mounts, and what the parts of BootInv say.      *)
LEMMA Beginning == ASSUME Init PROVE BootInv
<1> USE DEF Init
<1>k. 1 \in Kernels /\ Kernels \subseteq Nat
  BY KernelsAssumption
<1>0. /\ NoRun.cmd = "none" /\ run = [NoRun EXCEPT !.cmd = "recover", !.step = "cfg"]
      /\ apt = NoApt /\ copy = NoCopy /\ verdict = "none"
  BY DEF Begin, NoRun
<1>1. /\ run.cmd = "recover" /\ run.step = "cfg" /\ run.fails = {} /\ run.asked = {}
      /\ run.booted = FALSE /\ run \in RunType
  BY <1>0 DEF NoRun, RunType
<1>2. /\ sys.vmlinuz = {1} /\ sys.mods \in {{1}, Kernels} /\ sys.guards \in {{}, Guards}
      /\ sys.initrd = [k \in Kernels |-> IF k = 1 THEN "stale" ELSE "none"]
  BY DEF Restored
<1>3. sys \in SysType
  BY RestoredTypes
<1>4. TypeOK
  <2>1. host \in HostType /\ apt \in AptType
    BY DEF HostType, AptType, NoApt
  <2>2. copy \in CopyType
    BY <1>k DEF NoCopy, NoFiles, NoCfg, CopyType, FilesType, CfgType
  <2>3. spent \in [faults : 0..MaxFaults, plugs : 0..MaxPlugs, apt : 0..MaxApt]
    BY BoundsAssumption
  <2>4. verdict \in Verdicts
    BY DEF Verdicts
  <2> QED
    BY <1>1, <1>3, <2>1, <2>2, <2>3, <2>4 DEF TypeOK
<1>5. Session
  <2>1. copy.step = "" /\ host.where = "live"
    BY DEF NoCopy
  <2> QED
    BY <1>0, <1>1, <2>1 DEF Session
<1>6. Stock
  <2>1. Newest(sys.vmlinuz) = 1
    BY <1>2, NewestIs
  <2>2. apt.op = "none"
    BY DEF NoApt
  <2>3. sys.vmlinuz \subseteq sys.mods
    BY <1>k, <1>2
  <2> QED
    BY <1>2, <2>1, <2>2, <2>3 DEF Stock, StockOf, IsNewest
<1>7. Ordered
  BY <1>1, <1>2 DEF Ordered, AptWorks, Guards
<1>8. Completing
  BY <1>0, <1>1 DEF Completing, Guarding, Asked, Old, Prepared, Updated, Judged, Closed, Rewriting
<1>9. Keeping
  BY <1>1 DEF Keeping, Anchor, Promised, Rewriting
<1>10. Copying
  BY DEF Copying, NoCopy
<1> QED
  BY <1>4, <1>5, <1>6, <1>7, <1>8, <1>9, <1>10 DEF BootInv

(* BootInv is inductive.                                                   *)
LEMMA BootHolds == Spec => []BootInv
<1>1. BootInv /\ [Next]_vars => BootInv'
  <2> SUFFICES ASSUME BootInv, [Next]_vars PROVE BootInv'
    OBVIOUS
  <2>1. TypeOK' /\ Session'
    BY TypeStep, SessionStep DEF BootInv
  <2>2. Stock' /\ Ordered'
    BY <2>1, StockStep, OrderedStep DEF BootInv
  <2>3. Completing' /\ Keeping' /\ Copying'
    BY <2>1, <2>2, CompletingStep, KeepingStep, CopyingStep DEF BootInv
  <2> QED
    BY <2>1, <2>2, <2>3 DEF BootInv
<1> QED
  BY <1>1, Beginning, PTL DEF Spec

LEMMA SoundBoots ==
  ASSUME TypeOK, Stock, Sound, sys.efi = {"shim", "grub"}
  PROVE  Bootable(sys)
<1> DEFINE n == Newest(sys.cfg.entries)
<1>1. n \in sys.cfg.entries /\ n \in sys.vmlinuz /\ sys.cfg.uuid = "new" /\ sys.cfg.entries # {}
  BY DEF Sound
<1>2. sys.initrd[n] = "good"
  BY <1>1 DEF Sound
<1>3. n \in sys.vmlinuz \cap sys.mods
  BY <1>1 DEF Stock, StockOf
<1> QED
  BY <1>1, <1>2, <1>3 DEF Bootable

LEMMA FairBoots ==
  ASSUME Stock, Fair, sys.efi = {"shim", "grub"}
  PROVE  Bootable(sys)
BY DEF Stock, StockOf, Fair, Bootable

(* Every state the program reaches has the types (Boot.tla's model of      *)
(* recover, finish, repair-boot, the guards and apt).                      *)
THEOREM BootTypes == Spec => []TypeOK
BY BootHolds, PTL DEF BootInv

(* Once `zark finish` has said FINISH COMPLETE, and until the guards are   *)
(* removed, the system boots at every instant of any installation or       *)
(* removal of kernels, whenever a backup drive is plugged in; and apt is   *)
(* never left with a configuration whose hook is not there (the two        *)
(* guards, lib/grub_guard.py and lib/apt_guard.py).                        *)
THEOREM BootGuarded == Spec => []Guarded
<1>1. BootInv => Guarded
  <2> SUFFICES ASSUME BootInv PROVE Guarded
    OBVIOUS
  <2>1. StaysBootable
    BY SoundBoots DEF StaysBootable, BootInv, Completing, Closed
  <2>2. AptWorks
    BY DEF BootInv, Ordered
  <2> QED
    BY <2>1, <2>2 DEF Guarded
<1> QED
  BY <1>1, BootHolds, PTL

(* The step that says FINISH COMPLETE is the banner of a finish in which   *)
(* nothing failed.                                                         *)
LEMMA Finished ==
  ASSUME TypeOK, Session, [Next]_vars, verdict' = "finished", verdict # "finished"
  PROVE  run.cmd = "finish" /\ run.step = "banner" /\ run.fails = {}
<1>1. ~Outside
  BY OutsideHost
<1>2. ~RecoverAgain
  BY DEF RecoverAgain
<1>3. ~Recovers /\ ~Kill
  BY DEF Recovers, RecoverCfg, RecoverEfi, RecoverInitrd, RecoverRelease, RecoverBanner, Kill, Keep
<1>4. ~Shared /\ ~Removal
  BY DEF Shared, InstallGuard, CopyCfg, RunUpdateGrub, JudgeCfg, FinishInitrd, FinishUuid,
         Removal, StartRemoval, RemoveGuard, StartSetup, Keep
<1>5. ~Repairs
  BY DEF Repairs, StartRepair, RepairRelease, RepairBanner, Keep
<1>6. Finishing
  BY <1>1, <1>2, <1>3, <1>4, <1>5, AnyStep DEF Commands
<1>7. FinishBanner
  BY <1>6 DEF Finishing, StartFinish, FinishBoot, FinishEsp, Keep
<1> QED
  BY <1>7 DEF FinishBanner, On

(* FINISH COMPLETE: every kernel asked for that is still installed has a   *)
(* new initrd and an entry, and the EFI binaries are there (finish.run);   *)
(* BOOT REPAIR COMPLETE: with its EFI binaries the system boots            *)
(* (repair_boot.run); and neither leaves unbootable a system it found      *)
(* bootable, unless it says so (regenerate_grub_cfg).                      *)
THEOREM BannersHold == Spec => BannersTrue
<1>1. BootInv => RepairTrue
  <2> SUFFICES ASSUME BootInv, verdict = "repaired", sys.efi = {"shim", "grub"}
               PROVE  Boots
    BY DEF RepairTrue
  <2>1. Sound /\ ~host.inuse
    BY DEF BootInv, Completing, Closed
  <2> QED
    BY <2>1, SoundBoots DEF Boots, BootInv
<1>2. BootInv /\ [Next]_vars =>
        [verdict' = "finished" /\ verdict # "finished" =>
           /\ \A k \in run.asked \cap InstalledKernels(sys) :
                 sys.initrd[k] = "good" /\ k \in sys.cfg.entries
           /\ sys.efi = {"shim", "grub"} /\ sys.cfg.uuid = "new"]_vars
  <2> SUFFICES ASSUME BootInv, [Next]_vars, verdict' = "finished", verdict # "finished"
               PROVE  /\ \A k \in run.asked \cap InstalledKernels(sys) :
                            sys.initrd[k] = "good" /\ k \in sys.cfg.entries
                      /\ sys.efi = {"shim", "grub"} /\ sys.cfg.uuid = "new"
    OBVIOUS
  <2>1. run.cmd = "finish" /\ run.step = "banner" /\ run.fails = {}
    BY Finished DEF BootInv
  <2>2. Sound /\ run.asked \cap sys.vmlinuz \subseteq sys.cfg.entries
    BY <2>1 DEF BootInv, Completing, Judged, Rewriting, After
  <2>3. sys.efi = {"shim", "grub"}
    BY <2>1 DEF BootInv, Completing, Closed
  <2> QED
    BY <2>2, <2>3 DEF Sound, InstalledKernels
<1>3. BootInv /\ [Next]_vars =>
        [/\ run.cmd \in {"finish", "repair"} /\ run.step = "banner"
         /\ run'.cmd = "none" /\ verdict' # "killed"
         /\ run.booted /\ "lost" \notin run.fails
         /\ run.asked \subseteq sys.vmlinuz
         => (sys.efi = {"shim", "grub"} => Bootable(sys))]_vars
  <2> SUFFICES ASSUME BootInv, run.cmd \in {"finish", "repair"}, run.step = "banner",
                      run.booted, "lost" \notin run.fails, run.asked \subseteq sys.vmlinuz,
                      sys.efi = {"shim", "grub"}
               PROVE  Bootable(sys)
    OBVIOUS
  <2>1. Fair
    BY DEF BootInv, Keeping, Promised, Rewriting, After
  <2> QED
    BY <2>1, FairBoots DEF BootInv
<1> QED
  BY <1>1, <1>2, <1>3, BootHolds, PTL DEF Spec, BannersTrue, FinishTrue, KeepsBoot

(* A point marked complete holds the /boot that its root had when the      *)
(* point was taken, with kernels installed and removed under the copy      *)
(* (BootRefresh in lib/boot_layout.py).                                    *)
THEOREM PointsWhole == Spec => PointWhole
<1>1. BootInv /\ [Next]_vars =>
        [copy.step = "taken" /\ copy'.mark = "complete" => copy.held = copy.at]_vars
  <2> SUFFICES ASSUME BootInv, [Next]_vars, copy.step = "taken", copy'.mark = "complete"
               PROVE  copy.held = copy.at
    OBVIOUS
  <2>1. copy.mark = "none" /\ copy.manifest \in FilesType
    BY DEF BootInv, Copying, TypeOK, CopyType
  <2>2. CheckCopy
    <3>1. copy' # copy
      BY <2>1
    <3>2. ~Commands /\ ~RecoverAgain
      BY <3>1, CommandEffect DEF BootInv, RecoverAgain
    <3>3. Outside
      BY <3>2, AnyStep
    <3> QED
      BY <3>1, <3>3, InstallEffect, RemoveEffect, ConfigureEffect, AgainEffect
      DEF Outside, vars, Beside, Copies, CopyManifest, CopyBoot, TakePoint, Restart, Upgrade,
          FixFstab, Unplug, Plug, ImportBackup, LoseEfi, BootInv
  <2>3. Files(sys) = copy.manifest
    <3>1. copy' = [NoCopy EXCEPT !.mark = IF Files(sys) = copy.manifest THEN "complete"
                                                                        ELSE "stale"]
      BY <2>2 DEF CheckCopy
    <3>2. copy'.mark = IF Files(sys) = copy.manifest THEN "complete" ELSE "stale"
      BY <3>1 DEF NoCopy
    <3> QED
      BY <3>2
  <2>4. ~Moved(copy.manifest)
    BY <2>1, <2>3, MovedAway DEF BootInv
  <2> QED
    BY <2>4 DEF BootInv, Copying
<1> QED
  BY <1>1, BootHolds, PTL DEF Spec, PointWhole
=============================================================================
