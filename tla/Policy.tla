------------------------------- MODULE Policy -------------------------------
(***************************************************************************)
(* sanoid's policy: the sections zark setup and zark exclude write to      *)
(* /etc/sanoid/sanoid.conf for the datasets of origin, what sanoid makes   *)
(* of them, and the rest of setup (commands/setup.py, lib/alerts.py).      *)
(* sanoid reads its sections in no order: a recursive section writes its   *)
(* values into every dataset below, before or after their own section, so  *)
(* a dataset may get the policy of any section that covers it.             *)
(*                                                                         *)
(* A dataset is its name; a section is [at, kind, rec].  The user makes    *)
(* and destroys datasets and edits the file with no lock; setup and        *)
(* exclude hold it.  The guards setup installs are in Boot, the timer a    *)
(* backup stops is in Sanoid.                                              *)
(***************************************************************************)
EXTENDS Integers, FiniteSets

CONSTANTS
  Others,      \* the datasets users make, where they like
  First,       \* those of them that are there at first
  Zvols,       \* those of them that are volumes
  Inside,      \* pairs of datasets, the first somewhere below the second
  MaxChanges,  \* bound: datasets made or destroyed, exclusions, edits
  MaxFaults    \* bound: steps that fail, kills

ASSUME BoundsAssumption == MaxChanges \in Nat /\ MaxFaults \in Nat

VARIABLES
  sets,      \* the datasets of origin
  flags,     \* those with org.zark:snapshot=no
  conf,      \* sanoid.conf: sections, the template and the user's section
  copies,    \* sanoid.conf.backup.*: one holds the user's section
  autos,     \* the excludable datasets with snapshots of sanoid
  running,   \* the boot environment the system runs from
  ext4,      \* /boot is an ext4 partition
  sanoid,    \* sanoid is installed, its timer runs
  alerts,    \* the alerts: their files are written, their timer runs
  removing,  \* a zark setup --remove runs
  job,       \* the command that holds the lock
  owns,      \* history: the section the user wrote that is not zark's
  budget     \* bounds left

vars == <<sets, flags, conf, copies, autos, running, ext4, sanoid, alerts,
          removing, job, owns, budget>>

(***************************************************************************)
(* Origin's datasets: two boot environments and their copies of /boot,     *)
(* user data, bpool, and the users' own anywhere among them.               *)
(***************************************************************************)
Rpool == "rpool"
Root == "rpool/ROOT"
Be1 == "rpool/ROOT/be1"
Be2 == "rpool/ROOT/be2"
BootCopy(be) == IF be = Be1 THEN "rpool/ROOT/be1/zark-boot" ELSE "rpool/ROOT/be2/zark-boot"
Userdata == "rpool/USERDATA"
Bpool == "bpool"
BpoolBoot == "bpool/BOOT"

Tops == {Rpool, Bpool}
Fixed(boot) == {Rpool, Root, Userdata} \cup (IF boot THEN {} ELSE {Bpool, BpoolBoot})
Movable == {Be1, Be2} \cup Others
Copies == {BootCopy(Be1), BootCopy(Be2)}
Names == Fixed(FALSE) \cup Movable \cup Copies

(* A dataset and those its path goes through.                              *)
Above == [d \in Names |-> {t \in Names : d = t \/ <<d, t>> \in Inside}]

ASSUME OthersAssumption ==
  /\ Others \cap (Fixed(FALSE) \cup {Be1, Be2} \cup Copies) = {}
  /\ First \subseteq Others /\ Zvols \subseteq Others

(* A path is a finite chain, from a pool down.                             *)
ASSUME TreeAssumption ==
  /\ \A d \in Names : Above[d] \cap Tops # {}
  /\ \A d \in Names : \A t \in Above[d] : Above[t] \subseteq Above[d]
  /\ \A d \in Names : \A t \in Above[d] : d \in Above[t] => d = t
  /\ \A d \in Names : \A ts \in SUBSET Above[d] :
       ts = {} \/ \E top, end \in ts : \A t \in ts : top \in Above[t] /\ t \in Above[end]

(* Where zark's datasets are; nothing is below a volume; a dataset of the  *)
(* users' in ROOT is part of a boot environment.                           *)
ASSUME PlacesAssumption ==
  /\ \A d \in Tops : Above[d] = {d}
  /\ \A d \in {Root, Userdata} : Above[d] = {d, Rpool}
  /\ Above[BpoolBoot] = {BpoolBoot, Bpool}
  /\ \A be \in {Be1, Be2} : /\ Above[be] = {be, Root, Rpool}
                            /\ Above[BootCopy(be)] = {BootCopy(be), be, Root, Rpool}
  /\ \A d \in Others : Root \in Above[d] => Above[d] \cap {Be1, Be2} # {}
  /\ \A d \in Names : Above[d] \cap Zvols \subseteq {d}
  /\ \A d \in First : Above[d] \subseteq First \cup {Rpool, Root, Be1, Userdata}

Under(d, t) == t \in Above[d]
Below(d, t) == Under(d, t) /\ d # t
Covered(d, tops) == Above[d] \cap tops # {}

(* The datasets an exclusion is accepted on.                               *)
Excludable == Names \ (Zvols \cup {Rpool, Root, Userdata, Bpool, BpoolBoot}
                       \cup {d \in Names : Under(d, Root)})

(* Declared.no_snapshot: the flagged datasets no other one covers.         *)
NoSnapshot(f) == {t \in f : ~\E u \in f : Below(t, u)}
-----------------------------------------------------------------------------
(* The rules (_classify, _discover_rules, _split_around).                  *)

Section(d, kind, rec) == [at |-> d, kind |-> kind, rec |-> rec]
NoRule == Section("", "none", FALSE)

(* _detect_ubuntu_ds: the first boot environment zfs list names.           *)
UbuntuDs(ds) == IF Be1 \in ds THEN Be1 ELSE Be2

(* Mutant: user data gets its rule, and its children theirs.               *)
ClassifyNested(ds, d) ==
  IF d \in Zvols THEN Section(d, "off", FALSE)
  ELSE IF d \in Tops \cup {Root} THEN Section(d, "minimal", FALSE)
  ELSE IF d \in {UbuntuDs(ds), Userdata, BpoolBoot} THEN Section(d, "production", TRUE)
  ELSE IF Below(d, Root) THEN NoRule
  ELSE Section(d, "minimal", TRUE)

Classify(ds, d) ==
  IF d \in Zvols THEN Section(d, "off", FALSE)
  ELSE IF d \in Tops \cup {Root} THEN Section(d, "minimal", FALSE)
  ELSE IF d \in {UbuntuDs(ds), Userdata, BpoolBoot} THEN Section(d, "production", TRUE)
  ELSE IF Below(d, Root) \/ Below(d, Userdata) \/ Below(d, BpoolBoot) THEN NoRule
  ELSE Section(d, "minimal", TRUE)

Classified(ds) == {Classify(ds, d) : d \in ds} \ {NoRule}

(* _nearest_recursive_ancestor: none, or the longest one.                  *)
RecursiveAbove(rules, d) ==
  LET above == {s \in rules : s.rec /\ Below(d, s.at)}
  IN  {s \in above : \A u \in above : Under(s.at, u.at)}

SameRule(s, u) == s.kind = u.kind /\ s.rec = u.rec

(* A rule the nearest recursive one repeats is dropped; one that differs   *)
(* is an override.                                                         *)
Pruned(rules) ==
  {s \in rules : \A u \in RecursiveAbove(rules, s.at) : ~SameRule(s, u)}

Overrides(rules) == {s.at : s \in {u \in Pruned(rules) : RecursiveAbove(rules, u.at) # {}}}

(* expand: a dataset is opened when a drained top or an override lies      *)
(* below it, and its children without a rule of their own follow.          *)
Expand(ds, rules, drained, over, s) ==
  LET special == drained \cup over
      own == {u.at : u \in rules} \ drained
      opened(d) == d \notin special /\ \E t \in special : Below(t, d)
      way == {d \in ds : /\ Under(d, s.at)
                         /\ \A a \in ds : Under(a, s.at) /\ Below(d, a) => opened(a)
                         /\ \A a \in ds : Below(a, s.at) /\ Under(d, a) => a \notin own}
  IN  {IF d \in drained THEN Section(d, "drained", TRUE)
       ELSE Section(d, s.kind, s.rec /\ ~opened(d)) : d \in way}

SplitAround(ds, rules, drained, over) ==
  LET kept == {s \in rules : Covered(s.at, drained) => s.at \in drained}
  IN  (UNION {IF s.rec \/ s.at \in drained THEN Expand(ds, rules, drained, over, s) ELSE {s} :
                s \in kept})
        \cup {Section(t, "drained", TRUE) : t \in drained}

(* _discover_rules.                                                        *)
Rules(ds, drained) ==
  LET rules == Classified(ds)
  IN  IF drained = {} /\ Overrides(rules) = {} THEN Pruned(rules)
      ELSE SplitAround(ds, Pruned(rules), drained, Overrides(rules))

(* The policy each dataset is meant to have, from setup's documentation.   *)
Wanted(ds, drained, d) ==
  IF Covered(d, drained) THEN {"drained"}
  ELSE IF d \in Zvols THEN {"off"}
  ELSE IF \E t \in {UbuntuDs(ds), Userdata, BpoolBoot} : Under(d, t) THEN {"production"}
  ELSE IF Below(d, Root) THEN {}
  ELSE {"minimal"}

(* What sanoid may make of a dataset: its own section, or that of any      *)
(* recursive one above it.                                                 *)
Possible(sections, d) ==
  {s.kind : s \in {u \in sections : u.at = d \/ (u.rec /\ Below(d, u.at))}}
-----------------------------------------------------------------------------
(* The file.                                                               *)

NoConf == [exists |-> FALSE, sections |-> {}, templates |-> FALSE, manual |-> FALSE]

(* _generate_sanoid_conf.                                                  *)
Generate(ds, drained, manual) ==
  [exists |-> TRUE, sections |-> Rules(ds, drained), templates |-> TRUE, manual |-> manual]

(* _diff_rules: a section added, removed or changed, or another template.  *)
Differs(c, rules) == c.sections # rules \/ ~c.templates

(* sanoid_conf_gap, "" as FALSE.                                           *)
Gap == ~conf.exists \/ Differs(conf, Rules(sets, NoSnapshot(flags)))
-----------------------------------------------------------------------------
NoJob == [kind |-> "none", step |-> "", sets |-> {}, drained |-> {}, manual |-> FALSE,
          failed |-> {}]
Idle == job.kind = "none"
At(step) == job.step = step
Goto(step) == job' = [job EXCEPT !.step = step]

Init ==
  /\ ext4 \in BOOLEAN
  /\ running = IF ext4 THEN Be2 ELSE Be1
  /\ sets = Fixed(ext4) \cup {Be1, running} \cup First
  /\ flags = {}
  /\ conf = NoConf
  /\ copies = FALSE
  /\ autos = {}
  /\ sanoid = [there |-> FALSE, timer |-> FALSE]
  /\ alerts = [files |-> FALSE, timer |-> FALSE]
  /\ removing = FALSE
  /\ job = NoJob
  /\ owns = "no"
  /\ budget = [changes |-> MaxChanges, faults |-> MaxFaults]

(* No command runs, or one waits for an answer: what happens between two   *)
(* other steps of a command could as well happen before or after them.     *)
Waiting == Idle \/ At("ask")

Spend(what) == budget[what] > 0 /\ budget' = [budget EXCEPT ![what] = @ - 1]
Change == Spend("changes")
Fault == Spend("faults")

sys == <<sets, flags, running, ext4>>
host == <<autos, sanoid, alerts>>
-----------------------------------------------------------------------------
(* zark setup, up to sanoid's file.                                        *)

StartSetup ==
  /\ Idle
  /\ job' = [NoJob EXCEPT !.kind = "setup", !.step = "deps"]
  /\ UNCHANGED <<removing, sys, conf, copies, host, owns, budget>>

(* What is missing is installed, or setup ends.                            *)
Dependencies ==
  /\ At("deps")
  /\ \/ sanoid' = [sanoid EXCEPT !.there = TRUE] /\ Goto("boot") /\ UNCHANGED budget
     \/ ~sanoid.there /\ Fault /\ job' = NoJob /\ UNCHANGED sanoid
  /\ UNCHANGED <<removing, sys, conf, copies, autos, alerts, owns>>

(* keep_boot: on an ext4 system, the running boot environment's copy of    *)
(* /boot, after a question; setup ends when it cannot be made, or was made *)
(* without the properties it needs.                                        *)
KeepBoot ==
  LET ds == BootCopy(running)
  IN  /\ At("boot")
      /\ \/ ext4 /\ sets' = sets \cup {ds} /\ Goto("read") /\ UNCHANGED budget
         \/ Goto("read") /\ UNCHANGED <<sets, budget>>
         \/ /\ ext4 /\ ds \notin sets /\ Fault /\ job' = NoJob
            /\ sets' = sets \cup {ds} \/ UNCHANGED sets
      /\ UNCHANGED <<removing, flags, running, ext4, conf, copies, host, owns>>

(* After configure_sanoid: setup goes on when there is a file, exclude     *)
(* ends.                                                                   *)
Configured(goes) == IF job.kind = "setup" /\ goes THEN Goto("timer") ELSE job' = NoJob

(* configure_sanoid: the datasets, the exclusions and the file are read;   *)
(* a read that fails ends the command.  A file that holds the rules is     *)
(* left as it is.                                                          *)
ReadOrigin ==
  /\ At("read")
  /\ \/ /\ IF Gap THEN job' = [job EXCEPT !.step = "ask", !.sets = sets,
                                  !.drained = NoSnapshot(flags), !.manual = conf.manual]
                  ELSE Configured(TRUE)
        /\ UNCHANGED budget
     \/ Fault /\ job' = NoJob
  /\ UNCHANGED <<removing, sys, conf, copies, host, owns>>

(* The question.  A file that is there is copied first, a copy that fails  *)
(* going unnoticed.                                                        *)
Decline ==
  /\ At("ask")
  /\ Configured(conf.exists)
  /\ UNCHANGED <<removing, sys, conf, copies, host, owns, budget>>

Accept ==
  /\ At("ask")
  /\ Goto("write")
  /\ \/ copies' = (copies \/ conf.manual) /\ UNCHANGED <<owns, budget>>
     \/ /\ conf.exists /\ Fault /\ UNCHANGED copies
        /\ owns' = IF conf.manual /\ ~copies THEN "uncopied" ELSE owns
  /\ UNCHANGED <<removing, sys, conf, host>>

(* write_text truncates the file, then writes what was read and asked.     *)
Truncate ==
  /\ At("write")
  /\ conf' = [NoConf EXCEPT !.exists = TRUE]
  /\ Goto("text")
  /\ UNCHANGED <<removing, sys, copies, host, owns, budget>>

Write ==
  /\ At("text")
  /\ conf' = Generate(job.sets, job.drained, job.manual)
  /\ Configured(TRUE)
  /\ UNCHANGED <<removing, sys, copies, host, owns, budget>>
-----------------------------------------------------------------------------
(* sanoid: each dataset gets one of the policies it may get.  One kind     *)
(* wins wherever it is among them: enough to reach each of them.           *)
Readings ==
  {[d \in sets \cap Excludable |->
      LET p == Possible(conf.sections, d)
      IN  IF p = {} THEN "none" ELSE IF won \in p THEN won ELSE CHOOSE k \in p : TRUE] :
     won \in {"production", "minimal", "drained"}}

Taken(eff) == {d \in DOMAIN eff : eff[d] \in {"production", "minimal"}}

(* Mutant: the drained settings do not prune.                              *)
EmptiedNone == {}

(* _DRAINED_SETTINGS: no count is kept, and sanoid prunes.                 *)
Emptied == {"drained"}

SanoidRuns ==
  /\ sanoid.there /\ sanoid.timer /\ conf.exists
  /\ UNCHANGED <<removing, sys, conf, copies, sanoid, alerts, job, owns, budget>>
  /\ \E eff \in Readings :
       autos' = {d \in autos : eff[d] \notin Emptied} \cup Taken(eff)

(* The rest of setup: the timer, whose start may fail unnoticed, and the   *)
(* first snapshots, after a question.                                      *)
StartTimer ==
  /\ At("timer")
  /\ \/ sanoid' = [sanoid EXCEPT !.timer = TRUE] /\ Goto("snapshots") /\ UNCHANGED budget
     \/ /\ Fault
        /\ job' = [job EXCEPT !.step = "snapshots", !.failed = {"timer"}]
        /\ UNCHANGED sanoid
  /\ UNCHANGED <<removing, sys, conf, copies, autos, alerts, owns>>

InitialSnapshots ==
  /\ At("snapshots")
  /\ Goto("alerts")
  /\ \/ autos = {} /\ \E eff \in Readings : autos' = Taken(eff)
     \/ UNCHANGED autos
  /\ UNCHANGED <<removing, sys, conf, copies, sanoid, alerts, owns, budget>>

(* Mutant: files that are current need nothing more.                       *)
AlertFilesOnly ==
  /\ At("alerts")
  /\ alerts' = [alerts EXCEPT !.files = TRUE]
  /\ IF alerts.files THEN Goto("complete") ELSE Goto("enable")
  /\ UNCHANGED <<removing, sys, conf, copies, autos, sanoid, owns, budget>>

(* alerts.install: the files, then their timer unless it runs already.     *)
AlertFiles ==
  /\ At("alerts")
  /\ alerts' = [alerts EXCEPT !.files = TRUE]
  /\ IF alerts.files /\ alerts.timer THEN Goto("complete") ELSE Goto("enable")
  /\ UNCHANGED <<removing, sys, conf, copies, autos, sanoid, owns, budget>>

AlertTimer ==
  /\ At("enable")
  /\ \/ alerts' = [alerts EXCEPT !.timer = TRUE] /\ Goto("complete") /\ UNCHANGED budget
     \/ /\ Fault
        /\ job' = [job EXCEPT !.step = "complete", !.failed = @ \cup {"alerts"}]
        /\ UNCHANGED alerts
  /\ UNCHANGED <<removing, sys, conf, copies, autos, sanoid, owns>>

(* SETUP COMPLETE.                                                         *)
Complete ==
  /\ At("complete")
  /\ job' = NoJob
  /\ UNCHANGED <<removing, sys, conf, copies, host, owns, budget>>

(* zark setup --remove takes no lock: the alerts' timer, then their files, *)
(* while another command may run.                                          *)
Crossed == job' = IF Idle THEN NoJob ELSE [job EXCEPT !.failed = @ \cup {"removed"}]

StartRemove ==
  /\ ~removing
  /\ alerts.files
  /\ Change
  /\ removing' = TRUE
  /\ alerts' = [alerts EXCEPT !.timer = FALSE]
  /\ Crossed
  /\ UNCHANGED <<sys, conf, copies, autos, sanoid, owns>>

RemoveFiles ==
  /\ removing
  /\ removing' = FALSE
  /\ alerts' = [alerts EXCEPT !.files = FALSE]
  /\ Crossed
  /\ UNCHANGED <<sys, conf, copies, autos, sanoid, owns, budget>>
-----------------------------------------------------------------------------
(* zark exclude add and remove of the snapshot flag end in                 *)
(* configure_sanoid.                                                       *)

Flag(f) ==
  /\ Idle
  /\ Change
  /\ flags' = f
  /\ job' = [NoJob EXCEPT !.kind = "exclude", !.step = "read"]
  /\ UNCHANGED <<removing, sets, running, ext4, conf, copies, host, owns>>

Exclude(d) == d \in (Excludable \cap sets) \ flags /\ Flag(flags \cup {d})
Include(d) == d \in flags /\ Flag(flags \ {d})

(* A signal, a kill or an error ends the command.                          *)
Stop ==
  /\ ~Idle
  /\ Fault
  /\ owns' = IF At("text") /\ owns = "kept" THEN "late" ELSE owns
  /\ job' = NoJob
  /\ UNCHANGED <<removing, sys, conf, copies, host>>
-----------------------------------------------------------------------------
(* The user, at any moment.                                                *)

Make(d) ==
  /\ Waiting
  /\ d \in Movable \ sets /\ Above[d] \ {d} \subseteq sets
  /\ Change
  /\ sets' = sets \cup {d}
  /\ UNCHANGED <<removing, flags, running, ext4, conf, copies, host, job, owns>>

Destroy(d) ==
  /\ Waiting
  /\ d \in Movable \cap sets /\ d # running
  /\ ~\E x \in sets : Below(x, d)
  /\ Change
  /\ sets' = sets \ {d} /\ flags' = flags \ {d} /\ autos' = autos \ {d}
  /\ UNCHANGED <<removing, running, ext4, conf, copies, sanoid, alerts, job, owns>>

(* A section for another pool.                                             *)
AddSection ==
  /\ Waiting
  /\ conf.exists /\ ~conf.manual
  /\ Change
  /\ conf' = [conf EXCEPT !.manual = TRUE]
  /\ owns' = IF Idle THEN "kept" ELSE "late"
  /\ UNCHANGED <<removing, sys, copies, host, job>>

(* A section of zark's removed, or its template changed.                   *)
EditSection ==
  /\ Waiting
  /\ conf.exists
  /\ Change
  /\ \/ \E s \in conf.sections : conf' = [conf EXCEPT !.sections = @ \ {s}]
     \/ conf' = [conf EXCEPT !.templates = FALSE]
  /\ UNCHANGED <<removing, sys, copies, host, job, owns>>

Step ==
  \/ Dependencies \/ KeepBoot \/ ReadOrigin \/ Decline \/ Accept \/ Truncate \/ Write
  \/ StartTimer \/ InitialSnapshots \/ AlertFiles \/ AlertTimer \/ Complete

Next ==
  \/ Step \/ StartSetup \/ StartRemove \/ RemoveFiles \/ Stop \/ SanoidRuns
  \/ \E d \in Names : Exclude(d) \/ Include(d) \/ Make(d) \/ Destroy(d)
  \/ AddSection \/ EditSection

Spec == Init /\ [][Next]_vars

(* sanoid's timer fires again and again while it runs: systemd starts it   *)
(* every quarter of an hour, whatever a command does.                      *)
FairSpec == Spec /\ WF_vars(SanoidRuns)
-----------------------------------------------------------------------------
(* Properties.                                                             *)

(* TypeOK: an exclusion is a property of a dataset that is there, and the  *)
(* file holds no two sections for one dataset.                             *)
TypeOK ==
  /\ sets \subseteq Names /\ flags \subseteq sets \cap Excludable /\ autos \subseteq sets
  /\ \A d \in sets : Above[d] \subseteq sets
  /\ \A s, u \in conf.sections : s.at = u.at => s = u
  /\ conf.exists \/ conf = NoConf

(* GapTrue: when zark finds no gap in sanoid.conf, sanoid has one policy   *)
(* for every dataset of origin, in whatever order it reads the sections,   *)
(* and it is the one setup documents; whatever was made, destroyed,        *)
(* excluded or edited since the file was written.                          *)
GapTrue ==
  Gap \/ \A d \in sets : Possible(conf.sections, d) = Wanted(sets, NoSnapshot(flags), d)

(* DrainedStays: no dataset below a drained section, nor one made there    *)
(* later, can get a snapshot of sanoid, in any order of the sections and   *)
(* with a file that was half written or edited.                            *)
DrainedStays ==
  \A s \in conf.sections : s.kind = "drained" =>
    \A d \in sets : Under(d, s.at) => Possible(conf.sections, d) = {"drained"}

(* ManualKept: a section of the user's stays in the file through every     *)
(* rewrite; one added while a command asks, or when a command dies in its  *)
(* write, is in a copy, unless the copy failed.                            *)
ManualKept ==
  /\ owns = "kept" => conf.manual \/ At("text")
  /\ owns = "late" => conf.manual \/ copies

(* SetupTrue: SETUP COMPLETE says that sanoid is installed and running and *)
(* leaves the alerts on, whatever an earlier setup or removal left half    *)
(* done, unless systemctl failed in this one or a removal crossed it.      *)
SetupTrue ==
  At("complete") =>
    /\ sanoid.there /\ conf.exists
    /\ sanoid.timer \/ "timer" \in job.failed
    /\ alerts.files \/ "removed" \in job.failed
    /\ alerts.timer \/ {"alerts", "removed"} \cap job.failed # {}

(* Drains: while a subtree has its drained section and sanoid's timer      *)
(* runs, the snapshots sanoid took there go.                               *)
Draining(t) ==
  sanoid.timer /\ sanoid.there /\ \E s \in conf.sections : s.at = t /\ s.kind = "drained"
Drains ==
  \A t \in Excludable :
    Draining(t) ~> (~Draining(t) \/ \A d \in autos : ~Under(d, t))

(* PolicyTrue: sanoid.conf means what zark takes it to mean, in any order  *)
(* of its sections.                                                        *)
PolicyTrue == GapTrue /\ DrainedStays

(* SetupKeeps: setup says nothing that is not so and loses nothing of the  *)
(* user's, whatever ran, failed or was edited before or beside it.         *)
SetupKeeps == ManualKept /\ SetupTrue
=============================================================================
