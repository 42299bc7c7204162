---------------------------- MODULE RegistryTrue ----------------------------
(***************************************************************************)
(* Proof of what prepare, purge, backup, explore and the subcommands of    *)
(* registry promise of the disks, of known_drives.json and of the anchors, *)
(* for any number of disks, names, pools, commands, faults and moves.      *)
(*                                                                         *)
(* On the disks: no label is written over under an imported pool, and two  *)
(* pools of one name are never imported together, whatever runs beside     *)
(* (DiskInv).  In the registry, while explore and the commands take turns  *)
(* (RegInv): an entry's pool is on no other disk than its own name says    *)
(* (Sound), so what a command takes away is the operator's choice or its   *)
(* own disk's; a drive that is registered was proven, a banner of purge is *)
(* true and no anchor is left that nobody was told of.                     *)
(***************************************************************************)
EXTENDS Registry, TLAPS

(* Labels: a pool is on one disk, and none is imported from a disk without *)
(* a table; pools are numbered in the order they were created.             *)
Labels ==
    /\ \A d \in Disks : disks[d].guid <= spent.guid
    /\ \A d, e \in Disks : disks[d].guid = disks[e].guid /\ disks[d].guid # 0 => d = e
    /\ \A d \in Disks : disks[d].guid # 0 => disks[d].name \in Names \cup {SysPool}
    /\ \A d \in Disks : disks[d].imp # "no" => disks[d].table /\ disks[d].guid # 0

System ==
    /\ disks[Sys].name = SysPool /\ disks[Sys].imp = "rw"
    /\ disks[Sys].guid = MaxGuids + 1

(* Which steps each command has.                                           *)
Building == {"track", "send", "keystore", "snapped", "export", "judge",
             "readback", "reread", "register"}
Closing == {"save", "replace", "end"}

Order ==
    /\ Idle => run = NoRun
    /\ run.cmd = "prepare" => run.step \in {"create"} \cup Building \cup Closing
    /\ run.cmd = "purge" =>
         run.step \in {"destroy", "wipe", "zap", "verdict", "drop"} \cup Closing
    /\ run.cmd = "backup" => run.step \in {"send", "close"} \cup Closing
    /\ run.cmd = "forget" => run.step \in {"drop", "points"} \cup Closing
    /\ run.cmd \in {"fix", "retention"} => run.step \in Closing
    /\ run.step \in {"save", "replace"} =>
         /\ run.next \in {"end", "send", "points"}
         /\ run.next = "send" => run.cmd = "backup"
         /\ run.next = "points" => run.cmd = "forget"
    /\ run.cmd \in {"prepare", "purge", "backup"} => run.disk \in Disks
    /\ run.tracked => run.cmd \in {"prepare", "backup"}
    /\ run.cmd = "backup" => run.guid \in Guids

(* A command that writes labels has its disk to itself: prepare from the   *)
(* start, purge once the pool on it is destroyed.                          *)
Held == disks[run.disk]

Prepared ==
    run.cmd = "prepare" =>
        /\ run.name \in Names
        /\ run.step = "create" =>
             Held.imp = "no" /\ ~Imported(run.name) /\ spent.guid < MaxGuids
        /\ run.step # "create" =>
             /\ run.guid \in Guids /\ Held.guid = run.guid
             /\ Held.name = run.name /\ Held.table
             /\ \A d \in Disks \cup {Sys} :
                  disks[d].imp # "no" /\ disks[d].name = run.name => d = run.disk

Wiping ==
    run.cmd = "purge" =>
        IF run.step = "destroy" THEN ReadLabel(run.disk) # 0 ELSE Held.imp = "no"

DiskInv == TypeOK /\ Labels /\ System /\ Order /\ Prepared /\ Wiping

-----------------------------------------------------------------------------
(* The registry, while explore and hand edits wait for a running command.  *)
Lone ==
    /\ Idle \/ exp.step = ""
    /\ ~Idle \/ exp.step # "" => ~reg.bad

(* What entries say of disks: the pool of an entry has the entry's name,   *)
(* is no other entry's, and is on no other disk than its drive_id, unless  *)
(* explore registered it without a device.                                 *)
Believable(cfg, ds, last, blind) ==
    /\ \A n \in Names : cfg[n].guid <= last
    /\ \A m, n \in Names : cfg[m].guid = cfg[n].guid /\ cfg[m].guid # 0 => m = n
    /\ \A n \in Names, d \in Disks :
          cfg[n].guid # 0 /\ ds[d].guid = cfg[n].guid =>
              /\ ds[d].name = n
              /\ cfg[n].id \in Disks \ {d} => cfg[n].guid \in blind
Sound(cfg) == Believable(cfg, disks, spent.guid, exp.blind)

EntriesSound == Sound(reg.cfg) /\ (~Idle => Sound(run.cfg))

Scanned ==
    exp.step # "" =>
        /\ exp.cfg = reg.cfg
        /\ \A d \in exp.found : disks[d.disk].guid = d.guid /\ disks[d.disk].name = d.name

(* The copy a command works on: the registry's pools, but for what the     *)
(* command removes and adds before it saves.                               *)
Saving == run.step \in {"save", "replace"}

Copied ==
    ~Idle =>
        /\ \A n \in Names :
             \/ run.cfg[n].guid = reg.cfg[n].guid
             \/ Saving /\ n \in run.goes /\ run.cfg[n].guid = 0
             \/ Saving /\ run.cmd = "prepare" /\ n = run.name /\ run.cfg[n].guid = run.guid
        /\ run.cmd \in {"backup", "fix", "retention"} => run.goes = {}
        /\ run.cmd = "backup" => run.guid \in Registered(reg.cfg)

(* An entry that goes without the operator's word has its pool nowhere     *)
(* else.                                                                   *)
Going ==
    ~Idle /\ run.step # "end" => \A n \in run.goes \ run.agreed :
        /\ run.cmd = "purge"
        /\ reg.cfg[n].guid # 0 => ~Elsewhere(reg.cfg[n].guid)

Replacing ==
    run.cmd = "prepare" /\ run.step # "end" =>
        /\ reg.cfg[run.name].guid # 0 => run.name \in run.goes
        /\ run.step # "create" => \A n \in Names : reg.cfg[n].guid # run.guid
        /\ run.step \in Closing => run.cfg[run.name].guid = run.guid

(* What prepare has brought to the medium by each step.                    *)
Reached ==
    run.cmd = "prepare" =>
        /\ run.step \in Building \ {"track", "send"} /\ "send" \notin run.fails =>
             "data" \in Held.has /\ run.guid \in anchors
        /\ run.step \in {"export", "judge"} /\ "keystore" \notin run.fails =>
             "keystore" \in Held.has
        /\ run.step = "judge" /\ run.fails = {} => Held.imp = "no"
        /\ run.step \in {"readback", "reread", "register"} =>
             run.fails = {} /\ "keystore" \in Held.has
        /\ run.step \in {"reread", "register"} => "flushed" \in Held.has
        /\ run.step \in {"readback", "register"} => Held.imp = "no"
        /\ run.step = "reread" => run.tracked
        /\ run.step \in {"save", "replace"} =>
             Held.has = Whole /\ Held.imp = "no" /\ run.guid \in anchors

(* Whose the anchors in origin are, now and once the command has saved.    *)
Owned ==
    /\ anchors \subseteq Registered(reg.cfg) \cup excused \cup
          (IF run.cmd = "prepare" /\ run.step # "create" THEN {run.guid} ELSE {})
    /\ run.step \in Closing \cup {"points"} =>
         anchors \subseteq Registered(run.cfg) \cup excused

(* What purge has done to the disk, and to what stands for its pool.       *)
Wiped ==
    run.cmd = "purge" =>
        /\ run.step \in {"destroy", "wipe"} /\ run.guid # 0 =>
             Held.table /\ Held.guid = run.guid
        /\ run.step = "zap" /\ run.guid # 0 /\ run.fails = {} => Held.guid = 0
        /\ run.step \in {"zap", "verdict", "drop"} \cup Closing /\ run.guid # 0 =>
             \A d \in Disks \ {run.disk} : disks[d].guid # run.guid
        /\ (run.step = "verdict" /\ run.fails = {}) \/ run.step \in {"drop"} \cup Closing =>
             ~Held.table /\ (run.guid # 0 => Held.guid = 0)
        /\ run.step \notin Closing =>
             \A n \in Names : reg.cfg[n].guid = run.guid /\ run.guid # 0 => n \in run.goes
        /\ run.step \in Closing =>
             /\ run.guid \in anchors => run.guid \in excused
             /\ run.guid # 0 => \A n \in Names : run.cfg[n].guid # run.guid

Purged ==
    verdict.said = "purged" =>
        /\ Idle /\ verdict.disk \in Disks
        /\ ~disks[verdict.disk].table /\ disks[verdict.disk].imp = "no"
        /\ verdict.guid # 0 =>
             /\ disks[verdict.disk].guid = 0
             /\ \A d \in Disks : disks[d].guid # verdict.guid
             /\ \A n \in Names : reg.cfg[n].guid # verdict.guid
             /\ verdict.guid \in anchors => verdict.guid \in excused

RegInv == /\ Lone /\ EntriesSound /\ Scanned /\ Copied /\ Going /\ Replacing
          /\ Reached /\ Owned /\ Wiped /\ Purged

-----------------------------------------------------------------------------
(* Types.                                                                  *)

LEMMA NoRunType == NoRun \in RunType
<1>1. "none" \in Commands /\ "" \in Steps
  BY DEF Commands, Steps
<1>2. [n \in Names |-> None] \in Config
  BY DEF Config
<1>3. 0 \in 0..MaxGuids
  BY BoundsAssumption
<1> QED
  BY <1>1, <1>2, <1>3, Zenon DEF NoRun, RunType

(* What a step writes into the running command keeps its type.             *)
LEMMA RunEdits ==
  ASSUME NEW r \in RunType
  PROVE  /\ \A s \in Steps : [r EXCEPT !.step = s] \in RunType
         /\ \A s \in Steps, g \in 0..MaxGuids :
              [r EXCEPT !.step = s, !.guid = g] \in RunType
         /\ \A s \in Steps, t \in BOOLEAN :
              [r EXCEPT !.step = s, !.tracked = t] \in RunType
         /\ \A s \in Steps, f \in SUBSET Failures :
              /\ [r EXCEPT !.fails = f, !.step = s] \in RunType
              /\ [r EXCEPT !.step = s, !.fails = f] \in RunType
         /\ \A s, k \in Steps, c \in Config :
              /\ [r EXCEPT !.step = s, !.next = k, !.cfg = c] \in RunType
              /\ [r EXCEPT !.cfg = c, !.next = k, !.step = s] \in RunType
         /\ \A s, k \in Steps, t \in BOOLEAN :
              [r EXCEPT !.step = s, !.next = k, !.tracked = t] \in RunType
<1>1. \A s \in Steps : [r EXCEPT !.step = s] \in RunType
  BY Zenon DEF RunType
<1>2. \A s \in Steps, g \in 0..MaxGuids :
        [r EXCEPT !.step = s, !.guid = g] \in RunType
  BY Zenon DEF RunType
<1>3. \A s \in Steps, t \in BOOLEAN :
        [r EXCEPT !.step = s, !.tracked = t] \in RunType
  BY Zenon DEF RunType
<1>4. \A s \in Steps, f \in SUBSET Failures :
        [r EXCEPT !.fails = f, !.step = s] \in RunType
  BY Zenon DEF RunType
<1>5. \A s \in Steps, f \in SUBSET Failures :
        [r EXCEPT !.step = s, !.fails = f] \in RunType
  BY Zenon DEF RunType
<1>6. \A s, k \in Steps, c \in Config :
        [r EXCEPT !.step = s, !.next = k, !.cfg = c] \in RunType
  BY Zenon DEF RunType
<1>7. \A s, k \in Steps, c \in Config :
        [r EXCEPT !.cfg = c, !.next = k, !.step = s] \in RunType
  BY Zenon DEF RunType
<1>8. \A s, k \in Steps, t \in BOOLEAN :
        [r EXCEPT !.step = s, !.next = k, !.tracked = t] \in RunType
  BY Zenon DEF RunType
<1> QED
  BY <1>1, <1>2, <1>3, <1>4, <1>5, <1>6, <1>7, <1>8, Zenon

(* A command starts with a state of its type.                              *)
LEMMA RunStarts ==
  /\ \A c \in Config, s \in Steps, d \in Disks \cup {Sys}, n \in Names, x \in SUBSET Names :
       [NoRun EXCEPT !.cmd = "prepare", !.step = s, !.disk = d, !.cfg = c,
                     !.name = n, !.goes = x, !.agreed = x] \in RunType
  /\ \A c \in Config, s \in Steps, d \in Disks \cup {Sys}, g \in 0..MaxGuids,
        x, y \in SUBSET Names :
       [NoRun EXCEPT !.cmd = "purge", !.disk = d, !.cfg = c, !.step = s,
                     !.guid = g, !.goes = x, !.agreed = y] \in RunType
  /\ \A c \in Config, s \in Steps, g \in 0..MaxGuids, x \in SUBSET Names :
       [NoRun EXCEPT !.cmd = "forget", !.step = s, !.cfg = c, !.guid = g,
                     !.goes = x, !.agreed = x] \in RunType
  /\ \A c \in Config, s \in Steps, g \in 0..MaxGuids :
       [NoRun EXCEPT !.cmd = "forget", !.step = s, !.cfg = c, !.guid = g] \in RunType
  /\ \A c \in Config, s, k \in Steps :
       [NoRun EXCEPT !.cmd = "fix", !.step = s, !.next = k, !.cfg = c] \in RunType
  /\ \A c \in Config, s, k \in Steps :
       [NoRun EXCEPT !.cmd = "retention", !.step = s, !.next = k, !.cfg = c] \in RunType
  /\ \A c \in Config, s, k \in Steps, d \in Disks \cup {Sys}, n \in Names,
        g \in 0..MaxGuids :
       [NoRun EXCEPT !.cmd = "backup", !.disk = d, !.name = n, !.guid = g, !.cfg = c,
                     !.tracked = TRUE, !.next = k, !.step = s] \in RunType
<1>1. {"prepare", "purge", "backup", "forget", "fix", "retention"} \subseteq Commands
  BY DEF Commands
<1>2. \A n \in Names : n \in Names \cup {""}
  OBVIOUS
<1>3. \A c \in Config, s \in Steps, d \in Disks \cup {Sys}, n \in Names, x \in SUBSET Names :
        [NoRun EXCEPT !.cmd = "prepare", !.step = s, !.disk = d, !.cfg = c,
                      !.name = n, !.goes = x, !.agreed = x] \in RunType
  BY <1>1, <1>2, NoRunType, Zenon DEF RunType
<1>4. \A c \in Config, s \in Steps, d \in Disks \cup {Sys}, g \in 0..MaxGuids,
         x, y \in SUBSET Names :
        [NoRun EXCEPT !.cmd = "purge", !.disk = d, !.cfg = c, !.step = s,
                      !.guid = g, !.goes = x, !.agreed = y] \in RunType
  BY <1>1, NoRunType, Zenon DEF RunType
<1>5. \A c \in Config, s \in Steps, g \in 0..MaxGuids, x \in SUBSET Names :
        [NoRun EXCEPT !.cmd = "forget", !.step = s, !.cfg = c, !.guid = g,
                      !.goes = x, !.agreed = x] \in RunType
  BY <1>1, NoRunType, Zenon DEF RunType
<1>6. \A c \in Config, s \in Steps, g \in 0..MaxGuids :
        [NoRun EXCEPT !.cmd = "forget", !.step = s, !.cfg = c, !.guid = g] \in RunType
  BY <1>1, NoRunType, Zenon DEF RunType
<1>7. \A c \in Config, s, k \in Steps :
        [NoRun EXCEPT !.cmd = "fix", !.step = s, !.next = k, !.cfg = c] \in RunType
  BY <1>1, NoRunType, Zenon DEF RunType
<1>8. \A c \in Config, s, k \in Steps :
        [NoRun EXCEPT !.cmd = "retention", !.step = s, !.next = k, !.cfg = c] \in RunType
  BY <1>1, NoRunType, Zenon DEF RunType
<1>9. \A c \in Config, s, k \in Steps, d \in Disks \cup {Sys}, n \in Names,
         g \in 0..MaxGuids :
        [NoRun EXCEPT !.cmd = "backup", !.disk = d, !.name = n, !.guid = g, !.cfg = c,
                      !.tracked = TRUE, !.next = k, !.step = s] \in RunType
  <2>1. "backup" \in Commands /\ TRUE \in BOOLEAN
    BY <1>1
  <2> QED
    BY <1>2, <2>1, NoRunType, ZenonT(60) DEF RunType
<1> QED
  BY <1>3, <1>4, <1>5, <1>6, <1>7, <1>8, <1>9, Zenon

(* Entries: one that is there has a pool, and None has none.               *)
LEMMA Entries ==
  ASSUME NEW cfg \in Config
  PROVE  /\ \A n \in Names : cfg[n] \in Entry \cup {None}
         /\ \A n \in Names : n \in Known(cfg) <=> cfg[n].guid # 0
         /\ \A n \in Known(cfg) : cfg[n] \in Entry
         /\ \A g : g \in Registered(cfg) <=> g # 0 /\ \E n \in Names : cfg[n].guid = g
         /\ Registered(cfg) \subseteq Guids
<1>1. \A n \in Names : cfg[n] \in Entry \cup {None}
  BY DEF Config
<1>2. \A e \in Entry : e.guid # 0 /\ e.guid \in Guids
  BY BoundsAssumption DEF Entry, Guids
<1>3. None.guid = 0
  BY DEF None
<1> QED
  BY <1>1, <1>2, <1>3 DEF Known, Registered

LEMMA ConfigEdits ==
  ASSUME NEW cfg \in Config
  PROVE  /\ \A ns : Without(cfg, ns) \in Config
         /\ \A n \in Names, e \in Entry : [cfg EXCEPT ![n] = e] \in Config
         /\ \A n \in Known(cfg) : [cfg EXCEPT ![n].own = TRUE] \in Config
         /\ [n \in Names |-> None] \in Config
<1>1. \A n \in Known(cfg) : [cfg[n] EXCEPT !.own = TRUE] \in Entry
  <2>1. \A e \in Entry : [e EXCEPT !.own = TRUE] \in Entry
    BY Zenon DEF Entry
  <2> QED
    BY <2>1, Entries
<1>2. \A n \in Names, e \in Entry : [cfg EXCEPT ![n] = e] \in Config
  BY Zenon DEF Config
<1>3. \A n \in Known(cfg) : [cfg EXCEPT ![n].own = TRUE] \in Config
  BY <1>1, <1>2 DEF Known
<1>4. [n \in Names |-> None] \in Config
  BY DEF Config
<1>5. ASSUME NEW ns PROVE Without(cfg, ns) \in Config
  BY DEF Config, Without
<1> QED
  BY <1>2, <1>3, <1>4, <1>5

(* The names an entry is given: of the disk, or of the entry it had.       *)
LEMMA Naming ==
  ASSUME NEW d \in Disks
  PROVE  /\ RegistryNames(d).id \in {d, Box} /\ RegistryNames(d).box \in BOOLEAN
         /\ RegistryNames(d).id \in Disks => RegistryNames(d).id = d
<1>1. d \in Disks /\ Box \notin Disks
  BY DisksAssumption
<1>2. RegistryNames(d) \in {[id |-> d, box |-> Box \in Aliases(d)],
                            [id |-> Preferred(d), box |-> FALSE]}
  BY DEF RegistryNames
<1>3. Preferred(d) \in {d, Box}
  BY DEF Preferred
<1> DEFINE r == RegistryNames(d)
           b == Box \in Aliases(d)
           p == Preferred(d)
<1>4. b \in BOOLEAN
  OBVIOUS
<1>5. r = [id |-> d, box |-> b] \/ r = [id |-> p, box |-> FALSE]
  BY <1>2
<1> HIDE DEF r, b, p
<1>6. r.id \in {d, p} /\ r.box \in BOOLEAN
  <2>1. ASSUME NEW x, NEW y \in BOOLEAN, r = [id |-> x, box |-> y]
        PROVE  r.id = x /\ r.box \in BOOLEAN
    <3>1. r.id = x
      BY <2>1
    <3>2. r.box = y
      BY <2>1, Zenon
    <3> QED
      BY <3>1, <3>2, Zenon
  <2>2. FALSE \in BOOLEAN
    OBVIOUS
  <2> QED
    BY <1>4, <1>5, <2>1, <2>2, Zenon
<1>7. r.id \in {d, Box} /\ (r.id \in Disks => r.id = d) /\ r.box \in BOOLEAN
  BY <1>1, <1>3, <1>6 DEF p
<1> QED
  BY <1>7 DEF r

LEMMA Reconciled ==
  ASSUME NEW d \in Disks, NEW e \in Entry
  PROVE  /\ Reconcile(e, d) \in Entry
         /\ Reconcile(e, d).guid = e.guid
         /\ Reconcile(e, d).id \in {e.id, RegistryNames(d).id}
<1> DEFINE i == IF /\ Kind(e.id) \in {"disk", "bus"}
                   /\ Strength(RegistryNames(d).id) < Strength(e.id)
                THEN e.id ELSE RegistryNames(d).id
           b == Kind(i) = "disk" /\ (Box \in Aliases(d) \/ e.box)
<1>1. Reconcile(e, d) = [e EXCEPT !.id = i, !.box = b]
  BY Zenon DEF Reconcile
<1>2. i \in {e.id, RegistryNames(d).id}
  OBVIOUS
<1>3. b \in BOOLEAN
  BY Zenon
<1>4. i \in Disks \cup {Box, Unknown}
  BY <1>2, Naming DEF Entry
<1> HIDE DEF i, b
<1>5. [e EXCEPT !.id = i, !.box = b] \in Entry
  BY <1>3, <1>4, Zenon DEF Entry
<1>6. [e EXCEPT !.id = i, !.box = b].id = i /\ [e EXCEPT !.id = i, !.box = b].guid = e.guid
  BY DEF Entry
<1> QED
  BY <1>1, <1>2, <1>5, <1>6

LEMMA CorrectedType ==
  ASSUME NEW cfg \in Config, NEW ns \in SUBSET Known(cfg)
  PROVE  /\ Corrected(cfg, ns) \in Config
         /\ \A n \in Names :
              \/ Corrected(cfg, ns)[n] = cfg[n]
              \/ \E d \in DiskOf(cfg[n].guid) :
                   n \in ns /\ Corrected(cfg, ns)[n] = Reconcile(cfg[n], d)
<1> DEFINE X(n) == IF n \in ns /\ DiskOf(cfg[n].guid) # {}
                   THEN Reconcile(cfg[n], CHOOSE d \in DiskOf(cfg[n].guid) : TRUE)
                   ELSE cfg[n]
<1>1. \A g : DiskOf(g) \subseteq Disks
  BY DEF DiskOf, Connected
<1>2. ASSUME NEW n \in Names
      PROVE  \/ X(n) = cfg[n]
             \/ \E d \in DiskOf(cfg[n].guid) : n \in ns /\ X(n) = Reconcile(cfg[n], d)
  BY Zenon
<1>3. Corrected(cfg, ns) = [n \in Names |-> X(n)]
  BY Zenon DEF Corrected
<1> HIDE DEF X
<1>4. ASSUME NEW n \in Names PROVE X(n) \in Entry \cup {None}
  BY <1>1, <1>2, Entries, Reconciled
<1>5. Corrected(cfg, ns) \in Config
  BY <1>3, <1>4 DEF Config
<1> QED
  BY <1>2, <1>3, <1>5

(* What a command reads when it starts.                                    *)
LEMMA Reads ==
  ASSUME Records, Labels
  PROVE  /\ Loaded \in Config
         /\ \A d \in Disks : disks[d].guid \in 0..MaxGuids /\ ReadLabel(d) \in 0..MaxGuids
         /\ spent.guid \in Nat /\ spent.guid <= MaxGuids
         /\ \A cfg, d, ks : Recognised(cfg, d, ks) \subseteq Names
<1>1. reg \in [bad : BOOLEAN, cfg : Config] /\ [n \in Names |-> None] \in Config
  BY DEF Records, Config
<1>2. Loaded \in Config
  BY <1>1 DEF Loaded
<1>3. spent.guid \in Nat /\ spent.guid <= MaxGuids /\ MaxGuids \in Nat
  BY BoundsAssumption DEF Records, Guids
<1>4. \A d \in Disks : disks[d].guid \in 0..MaxGuids + 1
  BY DEF Records, DiskType
<1>5. \A d \in Disks : disks[d].guid \in 0..MaxGuids
  BY <1>3, <1>4 DEF Labels
<1>6. \A d \in Disks : ReadLabel(d) \in 0..MaxGuids
  BY <1>3, <1>5 DEF ReadLabel
<1>7. \A cfg, d, ks : Recognised(cfg, d, ks) \subseteq Names
  BY Zenon DEF Recognised, Known
<1> QED
  BY <1>2, <1>3, <1>5, <1>6, <1>7

(* The command that a step is of.                                          *)
LEMMA Lanes ==
  ASSUME Records, Order
  PROVE  /\ run.step = "" <=> Idle
         /\ run.step \in ({"create"} \cup Building) \ {"send"} => run.cmd = "prepare"
         /\ run.step \in {"destroy", "wipe", "zap", "verdict"} => run.cmd = "purge"
         /\ run.step = "send" => run.cmd \in {"prepare", "backup"}
         /\ run.step = "close" => run.cmd = "backup"
         /\ run.step = "drop" => run.cmd \in {"purge", "forget"}
         /\ run.step = "points" => run.cmd = "forget"
<1>1. run.cmd \in {"none", "prepare", "purge", "backup", "forget", "fix", "retention"}
  BY DEF Records, RunType, Commands
<1>2. run.cmd = "none" => run.step = ""
  <2>1. NoRun.step = ""
    BY Zenon DEF NoRun
  <2> QED
    BY <2>1, Zenon DEF Order, Idle
<1>3. CASE run.cmd = "none"
  BY <1>2, <1>3 DEF Idle, Building
<1>4. CASE run.cmd = "prepare"
  BY <1>4 DEF Order, Idle, Building, Closing
<1>5. CASE run.cmd = "purge"
  BY <1>5 DEF Order, Idle, Building, Closing
<1>6. CASE run.cmd \in {"backup", "forget", "fix", "retention"}
  BY <1>6 DEF Order, Idle, Building, Closing
<1> QED
  BY <1>1, <1>3, <1>4, <1>5, <1>6, Zenon

(* The running command's own state keeps its type.                         *)
LEMMA RunStep ==
  ASSUME DiskInv, [Next]_vars
  PROVE  run' \in RunType
<1>1. run \in RunType /\ NoRun \in RunType
  BY NoRunType DEF DiskInv, TypeOK, Records
<1>S. /\ "" \in Steps /\ "create" \in Steps /\ "track" \in Steps /\ "send" \in Steps
      /\ "keystore" \in Steps /\ "snapped" \in Steps /\ "export" \in Steps /\ "judge" \in Steps
      /\ "readback" \in Steps /\ "reread" \in Steps /\ "register" \in Steps /\ "destroy" \in Steps
      /\ "wipe" \in Steps /\ "zap" \in Steps /\ "verdict" \in Steps /\ "drop" \in Steps
      /\ "close" \in Steps /\ "save" \in Steps /\ "replace" \in Steps /\ "points" \in Steps
      /\ "end" \in Steps
  BY DEF Steps
<1>F. /\ run.fails \in SUBSET Failures
      /\ {"send", "keystore", "export", "held", "overwrite", "label", "wipefs", "zap"}
           \subseteq Failures
  BY <1>1 DEF RunType, Failures
<1>C. run.cfg \in Config /\ run.goes \in SUBSET Names /\ run.next \in Steps
  BY <1>1 DEF RunType
<1>L. Records /\ Labels /\ Order
  BY DEF DiskInv, TypeOK
<1>R. Loaded \in Config
  BY <1>L, Reads
<1>2. \A s \in Steps : [run EXCEPT !.step = s] \in RunType
  BY <1>1, RunEdits, Zenon
<1>3. \A s \in Steps, t \in BOOLEAN : [run EXCEPT !.step = s, !.tracked = t] \in RunType
  BY <1>1, RunEdits, Zenon
<1>4. \A s \in Steps, f \in SUBSET Failures :
        /\ [run EXCEPT !.fails = f, !.step = s] \in RunType
        /\ [run EXCEPT !.step = s, !.fails = f] \in RunType
  BY <1>1, RunEdits, Zenon
<1>5. \A s, k \in Steps, c \in Config :
        /\ [run EXCEPT !.step = s, !.next = k, !.cfg = c] \in RunType
        /\ [run EXCEPT !.cfg = c, !.next = k, !.step = s] \in RunType
  BY <1>1, RunEdits, Zenon
<1>6. ASSUME NEW d \in Disks, NEW n \in Names, StartPrepare(d, n)
      PROVE  run' \in RunType
  <2>1. PICK o \in SUBSET Names, b \in SUBSET Names :
          run' = [NoRun EXCEPT !.cmd = "prepare", !.step = "create",
                    !.disk = d, !.cfg = Loaded, !.name = n,
                    !.goes = o \cup b, !.agreed = o \cup b]
    BY <1>6, <1>L, Reads, Zenon DEF StartPrepare
  <2>2. o \cup b \in SUBSET Names
    OBVIOUS
  <2> QED
    BY <1>R, <1>S, <2>1, <2>2, RunStarts, Zenon
<1>7. CASE Create
  <2>1. \/ run' = [run EXCEPT !.step = "track", !.guid = spent.guid + 1]
        \/ run' = NoRun
    BY <1>7, Zenon DEF Create, Leave
  <2>2. At("create") => spent.guid + 1 \in 0..MaxGuids
    <3>1. At("create") => spent.guid < MaxGuids
      BY <1>L, Lanes DEF At, DiskInv, Prepared
    <3> QED
      BY <3>1, <1>L, Reads, BoundsAssumption
  <2> DEFINE g == spent.guid + 1
  <2> HIDE DEF g
  <2>3. At("create") /\ \A k \in 0..MaxGuids : [run EXCEPT !.step = "track", !.guid = k] \in RunType
    BY <1>1, <1>7, <1>S, RunEdits, Zenon DEF Create
  <2> QED
    BY <1>1, <2>1, <2>2, <2>3, Zenon DEF g
<1>8. CASE Track
  BY <1>3, <1>8, <1>S, Zenon DEF Track
<1>9. CASE Send
  <2> DEFINE s == IF run.cmd = "prepare" THEN "keystore" ELSE "close"
             f == run.fails \cup {"send"}
  <2>1. run' = [run EXCEPT !.step = s] \/ run' = [run EXCEPT !.fails = f, !.step = s]
    BY <1>9, Zenon DEF Send, Go
  <2>2. s \in Steps /\ f \in SUBSET Failures
    BY <1>S, <1>F
  <2> HIDE DEF s, f
  <2> QED
    BY <1>2, <1>4, <2>1, <2>2, Zenon
<1>10. KeystoreFails => run' \in RunType
  <2> DEFINE f == run.fails \cup {"keystore"}
  <2>1. f \in SUBSET Failures
    BY <1>F
  <2>2. KeystoreFails => run' = [run EXCEPT !.step = "export", !.fails = f]
    BY Zenon DEF KeystoreFails
  <2> HIDE DEF f
  <2>3. [run EXCEPT !.step = "export", !.fails = f] \in RunType
    BY <1>4, <1>S, <2>1, Zenon
  <2> QED
    BY <2>2, <2>3, Zenon
<1>11. CASE SnapKeystore
  BY <1>2, <1>S, <1>10, <1>11, Zenon DEF SnapKeystore, Go
<1>12. CASE SendKeystore
  BY <1>2, <1>S, <1>10, <1>12, Zenon DEF SendKeystore, Go
<1>13. CASE Export
  <2> DEFINE f == run.fails \cup {"export"}
  <2>1. f \in SUBSET Failures
    BY <1>F
  <2>2. \/ run' = [run EXCEPT !.step = "judge", !.tracked = FALSE]
        \/ run' = [run EXCEPT !.step = "judge", !.fails = f]
    BY <1>13, Zenon DEF Export
  <2> HIDE DEF f
  <2>3. [run EXCEPT !.step = "judge", !.fails = f] \in RunType
    BY <1>4, <1>S, <2>1, Zenon
  <2> QED
    BY <1>3, <1>S, <2>2, <2>3, Zenon
<1>14. CASE Judge
  BY <1>1, <1>2, <1>S, <1>14, Zenon DEF Judge, GiveUp, Leave, Go
<1>15. CASE Readback
  BY <1>1, <1>3, <1>S, <1>15, Zenon DEF Readback, GiveUp, Leave
<1>16. CASE Reread
  BY <1>1, <1>3, <1>S, <1>16, Zenon DEF Reread, Leave
<1>17. CASE Register
  <2>1. PICK own \in BOOLEAN :
          run' = [run EXCEPT !.step = "save", !.next = "end",
                !.cfg = [Without(run.cfg, run.goes) EXCEPT ![run.name] =
                    [guid |-> run.guid, id |-> RegistryNames(run.disk).id,
                     box |-> RegistryNames(run.disk).box, own |-> own]]]
    BY <1>17, Zenon DEF Register
  <2>2. run.cmd = "prepare" /\ run.disk \in Disks /\ run.name \in Names /\ run.guid \in Guids
    <3>1. run.cmd = "prepare"
      BY <1>17, <1>L, Lanes DEF Register, At, Building
    <3> QED
      BY <1>17, <3>1 DEF Register, At, DiskInv, Order, Prepared
  <2>3. [guid |-> run.guid, id |-> RegistryNames(run.disk).id,
         box |-> RegistryNames(run.disk).box, own |-> own] \in Entry
    <3>1. RegistryNames(run.disk).id \in Disks \cup {Box, Unknown}
      BY <2>2, Naming
    <3> QED
      BY <2>2, <3>1, Naming, Zenon DEF Entry
  <2>4. \A e \in Entry : [Without(run.cfg, run.goes) EXCEPT ![run.name] = e] \in Config
    <3>1. Without(run.cfg, run.goes) \in Config
      BY <1>C, ConfigEdits
    <3> QED
      BY <2>2, <3>1, ConfigEdits
  <2> QED
    BY <1>5, <1>S, <2>1, <2>3, <2>4
<1>18. ASSUME NEW d \in Disks \cup {Sys}, StartPurge(d)
       PROVE  run' \in RunType
  <2> DEFINE s == IF ReadLabel(d) # 0 THEN "destroy" ELSE "wipe"
             g == IF disks[d].name = SysPool THEN 0 ELSE ReadLabel(d)
  <2>1. PICK x \in SUBSET Names, b \in SUBSET Names :
          run' = [NoRun EXCEPT !.cmd = "purge", !.disk = d, !.cfg = Loaded, !.step = s,
                    !.guid = g, !.goes = x \cup b, !.agreed = b]
    BY <1>18, <1>L, Reads, Zenon DEF StartPurge
  <2>2. s \in Steps /\ x \cup b \in SUBSET Names
    BY <1>S
  <2>3. g \in 0..MaxGuids
    <3>1. CASE d \in Disks
      BY <3>1, <1>L, Reads, BoundsAssumption
    <3>2. CASE d = Sys
      BY <3>2, BoundsAssumption DEF DiskInv, System
    <3> QED
      BY <3>1, <3>2
  <2> HIDE DEF s, g
  <2> QED
    BY <1>R, <2>1, <2>2, <2>3, RunStarts, Zenon
<1>19. CASE DestroyLabelledPool
  BY <1>1, <1>2, <1>S, <1>19, Zenon DEF DestroyLabelledPool, WipeOnly, Destroyed,
     NotDestroyed, Go, Leave
<1>20. CASE Overwrite
  <2>1. {"held"} \in SUBSET Failures /\ SUBSET {"overwrite", "label"} \subseteq SUBSET Failures
    BY <1>F
  <2>2. \/ \E f \in SUBSET {"overwrite", "label"} :
             run' = [run EXCEPT !.step = "zap", !.fails = f]
        \/ run' = [run EXCEPT !.step = "verdict", !.fails = {"held"}]
    <3>1. \A p, q : {f \in {"overwrite", "label"} : (f = "overwrite" => p) /\ (f = "label" => q)}
                     \in SUBSET {"overwrite", "label"}
      OBVIOUS
    <3> QED
      BY <1>20, <3>1, Zenon DEF Overwrite
  <2>3. \A f \in SUBSET {"overwrite", "label"} :
          [run EXCEPT !.step = "zap", !.fails = f] \in RunType
    BY <1>4, <1>S, <2>1
  <2>4. [run EXCEPT !.step = "verdict", !.fails = {"held"}] \in RunType
    <3> DEFINE h == {"held"}
    <3> HIDE DEF h
    <3>1. [run EXCEPT !.step = "verdict", !.fails = h] \in RunType
      BY <1>4, <1>S, <2>1, Zenon DEF h
    <3> QED
      BY <3>1 DEF h
  <2> QED
    BY <2>2, <2>3, <2>4, Zenon
<1>21. CASE Zap
  <2>1. PICK u \in SUBSET {"wipefs", "zap"} :
          run' = [run EXCEPT !.step = "verdict", !.fails = run.fails \cup u]
    BY <1>21, Zenon DEF Zap
  <2>2. run.fails \cup u \in SUBSET Failures
    BY <1>F
  <2> QED
    BY <1>4, <1>S, <2>1, <2>2, Zenon
<1>22. CASE PurgeVerdict
  BY <1>1, <1>2, <1>S, <1>22, Zenon DEF PurgeVerdict, Leave, Go
<1>23. CASE Drop
  <2> DEFINE k == IF run.cmd = "forget" THEN "points" ELSE "end"
             s == IF run.goes = {} THEN k ELSE "save"
  <2>1. run' = [run EXCEPT !.cfg = Without(run.cfg, run.goes), !.next = k, !.step = s]
    BY <1>23, Zenon DEF Drop
  <2>2. Without(run.cfg, run.goes) \in Config
    BY <1>C, ConfigEdits
  <2>3. k \in Steps /\ s \in Steps
    BY <1>S
  <2> HIDE DEF k, s
  <2> QED
    BY <1>5, <2>1, <2>2, <2>3, Zenon
<1>24. ASSUME NEW n \in Names, Forget(n) PROVE run' \in RunType
  <2>1. /\ run' = [NoRun EXCEPT !.cmd = "forget", !.step = "drop", !.cfg = Loaded,
                     !.guid = Loaded[n].guid, !.goes = {n}, !.agreed = {n}]
        /\ n \in Known(Loaded)
    BY <1>24 DEF Forget
  <2>2. Loaded[n].guid \in 0..MaxGuids
    BY <1>L, <2>1, Reads, Entries, BoundsAssumption DEF Entry, Guids
  <2>3. {n} \in SUBSET Names
    OBVIOUS
  <2>4. Sys \in Disks \cup {Sys}
    OBVIOUS
  <2> QED
    BY <1>R, <1>S, <2>1, <2>2, <2>3, <2>4, RunStarts, Zenon
<1>25. ASSUME NEW n \in Names, Retention(n) PROVE run' \in RunType
  <2>1. /\ run' = [NoRun EXCEPT !.cmd = "retention", !.step = "save", !.next = "end",
                     !.cfg = [Loaded EXCEPT ![n].own = TRUE]]
        /\ n \in Known(Loaded)
    BY <1>25 DEF Retention
  <2>2. [Loaded EXCEPT ![n].own = TRUE] \in Config
    BY <1>L, <2>1, Reads, ConfigEdits
  <2> QED
    BY <1>S, <2>1, <2>2, RunStarts, Zenon
<1>26. ASSUME NEW g \in Guids, ForgetGuid(g) PROVE run' \in RunType
  <2>1. run' = [NoRun EXCEPT !.cmd = "forget", !.step = "drop", !.cfg = Loaded, !.guid = g]
    BY <1>26 DEF ForgetGuid
  <2>2. g \in 0..MaxGuids
    BY BoundsAssumption DEF Guids
  <2> QED
    BY <1>R, <1>S, <2>1, <2>2, RunStarts, Zenon
<1>27. ASSUME NEW ns \in SUBSET Names \ {{}}, Fix(ns) PROVE run' \in RunType
  <2>1. /\ run' = [NoRun EXCEPT !.cmd = "fix", !.step = "save", !.next = "end",
                     !.cfg = Corrected(Loaded, ns)]
        /\ ns \in SUBSET Known(Loaded)
    BY <1>27 DEF Fix
  <2>2. Corrected(Loaded, ns) \in Config
    BY <1>L, <2>1, Reads, CorrectedType
  <2> QED
    BY <1>S, <2>1, <2>2, RunStarts, Zenon
<1>28. ASSUME NEW n \in Names, NEW d \in Disks, StartBackup(n, d) PROVE run' \in RunType
  <2> DEFINE e == Reconcile(Loaded[n], d)
             c == [Loaded EXCEPT ![n] = e]
             s == IF e # Loaded[n] THEN "save" ELSE "send"
  <2>1. /\ run' = [NoRun EXCEPT !.cmd = "backup", !.disk = d, !.name = n,
                     !.guid = Loaded[n].guid, !.cfg = c, !.tracked = TRUE,
                     !.next = "send", !.step = s]
        /\ n \in Known(Loaded)
    BY <1>28, Zenon DEF StartBackup
  <2>2. Loaded[n] \in Entry /\ Loaded[n].guid \in 0..MaxGuids
    BY <1>L, <2>1, Reads, Entries, BoundsAssumption DEF Entry, Guids
  <2>3. c \in Config
    BY <1>L, <2>2, Reads, Reconciled, ConfigEdits
  <2>4. s \in Steps /\ d \in Disks \cup {Sys}
    BY <1>S
  <2> HIDE DEF e, c, s
  <2> QED
    BY <1>S, <2>1, <2>2, <2>3, <2>4, RunStarts, Zenon
<1>29. CASE LeftoverPoints
  BY <1>2, <1>S, <1>29, Zenon DEF LeftoverPoints, Go
<1>30. CASE CloseBackup
  <2>1. run' = NoRun \/ run' = [run EXCEPT !.step = "save", !.next = "end", !.tracked = FALSE]
    BY <1>30, Zenon DEF CloseBackup, Leave
  <2>2. FALSE \in BOOLEAN
    OBVIOUS
  <2>3. \A s, k \in Steps, t \in BOOLEAN :
          [run EXCEPT !.step = s, !.next = k, !.tracked = t] \in RunType
    BY <1>1, RunEdits, Zenon
  <2>4. [run EXCEPT !.step = "save", !.next = "end", !.tracked = FALSE] \in RunType
    BY <1>S, <2>2, <2>3
  <2> QED
    BY <1>1, <2>1, <2>4, Zenon
<1>31. CASE Write
  BY <1>1, <1>2, <1>S, <1>31, Zenon DEF Write, Leave, Go
<1>32. CASE Replace
  BY <1>2, <1>C, <1>32, Zenon DEF Replace, Go
<1>33. CASE End \/ Stop
  BY <1>1, <1>33, Zenon DEF End, Stop, Leave
<1>34. CASE Explores \/ Operator \/ Finished \/ UNCHANGED vars
  BY <1>1, <1>34, Zenon DEF Explores, Operator, Explore, RemoveStale, AutoRegister,
     Plug, Import, Edit, Finished, vars
<1> QED
  BY <1>6, <1>7, <1>8, <1>9, <1>11, <1>12, <1>13, <1>14, <1>15, <1>16, <1>17, <1>18,
     <1>19, <1>20, <1>21, <1>22, <1>23, <1>24, <1>25, <1>26, <1>27, <1>28, <1>29, <1>30,
     <1>31, <1>32, <1>33, <1>34, Zenon DEF Next, Prepares, Purges, Registers

(* What may change each part of the state.                                 *)
LEMMA Touched ==
  ASSUME [Next]_vars
  PROVE  /\ \/ UNCHANGED disks \/ Create \/ Send \/ SendKeystore \/ Export \/ Judge
            \/ Readback \/ Reread \/ DestroyLabelledPool \/ Overwrite \/ Zap
            \/ CloseBackup \/ Write \/ Stop
            \/ \E n \in Names, d \in Disks : StartBackup(n, d)
            \/ \E d \in Disks, s \in {"away", "port", "shown", "hidden"} : Plug(d, s)
            \/ \E d \in Disks, m \in {"no", "ro", "rw"} : Import(d, m)
         /\ UNCHANGED reg \/ Replace \/ RemoveStale \/ AutoRegister \/ Edit
         /\ \/ UNCHANGED anchors \/ Send \/ Judge \/ Readback \/ Reread \/ Register
            \/ Drop
         /\ \/ UNCHANGED left \/ Send \/ SnapKeystore \/ SendKeystore \/ LeftoverPoints
            \/ Stop
         /\ UNCHANGED exp \/ Explore \/ RemoveStale \/ AutoRegister
         /\ \/ UNCHANGED verdict \/ Create \/ Judge \/ Readback \/ Reread
            \/ DestroyLabelledPool \/ PurgeVerdict \/ CloseBackup \/ Write \/ End
            \/ Stop
            \/ verdict' = Quiet
         /\ \/ UNCHANGED excused \/ Judge \/ Readback \/ Register \/ Drop \/ Write
            \/ Stop \/ RemoveStale \/ AutoRegister
<1>1. \/ UNCHANGED disks \/ Create \/ Send \/ SendKeystore \/ Export \/ Judge
      \/ Readback \/ Reread \/ DestroyLabelledPool \/ Overwrite \/ Zap
      \/ CloseBackup \/ Write \/ Stop
      \/ \E n \in Names, d \in Disks : StartBackup(n, d)
      \/ \E d \in Disks, s \in {"away", "port", "shown", "hidden"} : Plug(d, s)
      \/ \E d \in Disks, m \in {"no", "ro", "rw"} : Import(d, m)
  BY Zenon DEF Next, Prepares, Purges, Registers, Explores, Operator, vars,
     StartPrepare, Track, SnapKeystore, Register, StartPurge, PurgeVerdict, Forget,
     Retention, ForgetGuid, Fix, Drop, LeftoverPoints, Replace, End, Explore,
     RemoveStale, AutoRegister, Edit, Finished
<1>2. UNCHANGED reg \/ Replace \/ RemoveStale \/ AutoRegister \/ Edit
  BY Zenon DEF Next, Prepares, Purges, Registers, Explores, Operator, vars,
     StartPrepare, Create, Track, Send, SnapKeystore, SendKeystore, Export, Judge,
     Readback, Reread, Register, StartPurge, DestroyLabelledPool, Overwrite, Zap,
     PurgeVerdict, Forget, Retention, ForgetGuid, Fix, StartBackup, Drop,
     LeftoverPoints, CloseBackup, Write, End, Explore, Stop, Plug, Import, Finished,
     GiveUp
<1>3. \/ UNCHANGED anchors \/ Send \/ Judge \/ Readback \/ Reread \/ Register
      \/ Drop
  BY Zenon DEF Next, Prepares, Purges, Registers, Explores, Operator, vars,
     StartPrepare, Create, Track, SnapKeystore, SendKeystore, Export, StartPurge,
     DestroyLabelledPool, Overwrite, Zap, PurgeVerdict, Forget, Retention, ForgetGuid,
     Fix, StartBackup, LeftoverPoints, CloseBackup, Write, Replace, End, Explore,
     RemoveStale, AutoRegister, Stop, Plug, Import, Edit, Finished
<1>4. \/ UNCHANGED left \/ Send \/ SnapKeystore \/ SendKeystore \/ LeftoverPoints
      \/ Stop
  BY Zenon DEF Next, Prepares, Purges, Registers, Explores, Operator, vars,
     StartPrepare, Create, Track, Export, Judge, Readback, Reread, Register,
     StartPurge, DestroyLabelledPool, Overwrite, Zap, PurgeVerdict, Forget, Retention,
     ForgetGuid, Fix, StartBackup, Drop, CloseBackup, Write, Replace, End, Explore,
     RemoveStale, AutoRegister, Plug, Import, Edit, Finished, GiveUp
<1>5. UNCHANGED exp \/ Explore \/ RemoveStale \/ AutoRegister
  BY Zenon DEF Next, Prepares, Purges, Registers, Explores, Operator, vars,
     StartPrepare, Create, Track, Send, SnapKeystore, SendKeystore, Export, Judge,
     Readback, Reread, Register, StartPurge, DestroyLabelledPool, Overwrite, Zap,
     PurgeVerdict, Forget, Retention, ForgetGuid, Fix, StartBackup, Drop,
     LeftoverPoints, CloseBackup, Write, Replace, End, Stop, Plug, Import, Edit,
     Finished, GiveUp
<1>6. \/ UNCHANGED verdict \/ Create \/ Judge \/ Readback \/ Reread
      \/ DestroyLabelledPool \/ PurgeVerdict \/ CloseBackup \/ Write \/ End
      \/ Stop
      \/ verdict' = Quiet
  BY Zenon DEF Next, Prepares, Purges, Registers, Explores, Operator, vars, Start, StartPrepare,
     StartPurge, Forget, Retention, ForgetGuid, Fix, StartBackup, Track,
     Send, SnapKeystore, SendKeystore, Export, Register, Overwrite, Zap, Drop,
     LeftoverPoints, Replace, Explore, RemoveStale, AutoRegister, Plug, Import, Edit,
     Finished
<1>7. \/ UNCHANGED excused \/ Judge \/ Readback \/ Register \/ Drop \/ Write
      \/ Stop \/ RemoveStale \/ AutoRegister
  BY Zenon DEF Next, Prepares, Purges, Registers, Explores, Operator, vars,
     StartPrepare, Create, Track, Send, SnapKeystore, SendKeystore, Export, Reread,
     StartPurge, DestroyLabelledPool, Overwrite, Zap, PurgeVerdict, Forget, Retention,
     ForgetGuid, Fix, StartBackup, LeftoverPoints, CloseBackup, Replace, End, Explore,
     Plug, Import, Edit, Finished
<1> QED
  BY <1>1, <1>2, <1>3, <1>4, <1>5, <1>6, <1>7, Zenon

(* What a step spends; only Create makes a pool.                           *)
LEMMA Spends ==
  ASSUME DiskInv, [Next]_vars
  PROVE  /\ spent' \in [runs : 0..MaxRuns, faults : 0..MaxFaults, moves : 0..MaxMoves,
                        guid : Guids]
         /\ \/ spent'.guid = spent.guid
            \/ Create /\ At("create") /\ spent'.guid = spent.guid + 1
         /\ spent'.guid >= spent.guid
         /\ Edit => spent'.moves # spent.moves
<1>1. \/ spent' = spent
      \/ spent.runs < MaxRuns /\ spent' = [spent EXCEPT !.runs = @ + 1]
      \/ spent.faults < MaxFaults /\ spent' = [spent EXCEPT !.faults = @ + 1]
      \/ /\ spent.runs < MaxRuns /\ spent.faults < MaxFaults
         /\ spent' = [spent EXCEPT !.runs = @ + 1, !.faults = @ + 1]
      \/ spent.moves < MaxMoves /\ spent' = [spent EXCEPT !.moves = @ + 1]
      \/ Create /\ At("create") /\ spent' = [spent EXCEPT !.guid = @ + 1]
  <2>1. Prepares => \/ spent' = spent
                    \/ spent.runs < MaxRuns /\ spent' = [spent EXCEPT !.runs = @ + 1]
                    \/ spent.faults < MaxFaults /\ spent' = [spent EXCEPT !.faults = @ + 1]
                    \/ Create /\ At("create") /\ spent' = [spent EXCEPT !.guid = @ + 1]
    BY Zenon DEF Prepares, Fault, Fine, Outcome, Start, DropAnchors, GiveUp, KeystoreFails,
       StartPrepare, Create, Track, Send, SnapKeystore, SendKeystore, Export, Judge,
       Readback, Reread, Register
  <2>2. Purges => \/ spent' = spent
                  \/ spent.runs < MaxRuns /\ spent' = [spent EXCEPT !.runs = @ + 1]
                  \/ spent.faults < MaxFaults /\ spent' = [spent EXCEPT !.faults = @ + 1]
    BY Zenon DEF Purges, Fault, Fine, Outcome, Start, StartPurge, DestroyLabelledPool,
       WipeOnly, Destroyed, NotDestroyed, Overwrite, Zap, PurgeVerdict
  <2>3. Registers => \/ spent' = spent
                     \/ spent.runs < MaxRuns /\ spent' = [spent EXCEPT !.runs = @ + 1]
                     \/ spent.faults < MaxFaults /\ spent' = [spent EXCEPT !.faults = @ + 1]
    BY Zenon DEF Registers, Fault, Fine, Outcome, Start, DropAnchors, Forget, Retention,
       ForgetGuid, Fix, StartBackup, Drop, LeftoverPoints, CloseBackup, Write, Replace, End
  <2>4. Explores => \/ spent' = spent
                    \/ spent.runs < MaxRuns /\ spent' = [spent EXCEPT !.runs = @ + 1]
                    \/ /\ spent.runs < MaxRuns /\ spent.faults < MaxFaults
                       /\ spent' = [spent EXCEPT !.runs = @ + 1, !.faults = @ + 1]
    BY Zenon DEF Explores, Explore, RemoveStale, AutoRegister
  <2>5. Operator => spent.moves < MaxMoves /\ spent' = [spent EXCEPT !.moves = @ + 1]
    BY Zenon DEF Operator, Move, Plug, Import, Edit
  <2>6. Stop => spent.faults < MaxFaults /\ spent' = [spent EXCEPT !.faults = @ + 1]
    BY Zenon DEF Stop, Fault
  <2>7. Finished \/ UNCHANGED vars => spent' = spent
    BY Zenon DEF Finished, vars
  <2> QED
    BY <2>1, <2>2, <2>3, <2>4, <2>5, <2>6, <2>7, Zenon DEF Next
<1>2. spent \in [runs : 0..MaxRuns, faults : 0..MaxFaults, moves : 0..MaxMoves, guid : Guids]
  BY DEF DiskInv, TypeOK, Records
<1>3. At("create") => spent.guid < MaxGuids
  BY Lanes DEF At, DiskInv, TypeOK, Prepared
<1>4. {MaxGuids, MaxRuns, MaxFaults, MaxMoves} \subseteq Nat
  BY BoundsAssumption
<1>5. /\ spent.runs \in 0..MaxRuns /\ spent.faults \in 0..MaxFaults
      /\ spent.moves \in 0..MaxMoves /\ spent.guid \in 1..MaxGuids
  BY <1>2 DEF Guids
<1>6. /\ spent.runs < MaxRuns => spent.runs + 1 \in 0..MaxRuns
      /\ spent.faults < MaxFaults => spent.faults + 1 \in 0..MaxFaults
      /\ spent.moves < MaxMoves => spent.moves + 1 \in 0..MaxMoves
      /\ At("create") => spent.guid + 1 \in Guids
  BY <1>3, <1>4, <1>5 DEF Guids
<1>7. spent' \in [runs : 0..MaxRuns, faults : 0..MaxFaults, moves : 0..MaxMoves, guid : Guids]
  BY <1>1, <1>2, <1>6
<1>8. spent'.guid = spent.guid \/ (Create /\ At("create") /\ spent'.guid = spent.guid + 1)
  BY <1>1, <1>2
<1>9. spent'.guid >= spent.guid
  BY <1>5, <1>8
<1>10. Edit => spent'.moves # spent.moves
  <2>1. Edit => spent' = [spent EXCEPT !.moves = @ + 1]
    BY DEF Edit, Move
  <2>2. Edit => spent'.moves = spent.moves + 1
    BY <1>2, <2>1
  <2> QED
    BY <1>5, <2>2
<1> QED
  BY <1>7, <1>8, <1>9, <1>10

(* What a step writes on a disk: its type, and what it leaves as it was.   *)
Same(x, y) == y.guid = x.guid /\ y.name = x.name /\ y.table = x.table

LEMMA DiskTurned ==
  ASSUME NEW x \in DiskType, NEW i \in {"no", "ro", "rw"}
  PROVE  /\ Turned(x, i) \in DiskType /\ Turned(x, i).imp = i
         /\ Same(x, Turned(x, i)) /\ Turned(x, i).has = x.has
  BY Zenon DEF DiskType, Turned, Same

LEMMA DiskWith ==
  ASSUME NEW x \in DiskType, NEW h \in Whole
  PROVE  /\ With(x, h) \in DiskType /\ With(x, h).imp = x.imp
         /\ Same(x, With(x, h)) /\ With(x, h).has = x.has \cup {h}
<1> DEFINE k == x.has \cup {h}
<1>1. k \in SUBSET Whole
  BY DEF DiskType
<1>2. With(x, h) = [x EXCEPT !.has = k]
  BY DEF With
<1> HIDE DEF k
<1>3. /\ [x EXCEPT !.has = k] \in DiskType /\ [x EXCEPT !.has = k].imp = x.imp
      /\ Same(x, [x EXCEPT !.has = k]) /\ [x EXCEPT !.has = k].has = k
  BY <1>1, Zenon DEF DiskType, Same
<1> QED
  BY <1>2, <1>3, Zenon DEF k

LEMMA DiskSeat ==
  ASSUME NEW x \in DiskType, NEW s \in {"away", "port", "shown", "hidden"}
  PROVE  /\ [x EXCEPT !.seat = s] \in DiskType /\ [x EXCEPT !.seat = s].imp = x.imp
         /\ Same(x, [x EXCEPT !.seat = s]) /\ [x EXCEPT !.seat = s].has = x.has
  BY Zenon DEF DiskType, Same

LEMMA DiskCreated ==
  ASSUME NEW x \in DiskType, NEW n \in Names, NEW g \in 0..MaxGuids + 1
  PROVE  /\ Created(x, n, g) \in DiskType /\ Created(x, n, g).imp = "rw"
         /\ Created(x, n, g).guid = g /\ Created(x, n, g).name = n /\ Created(x, n, g).table
<1>1. n \in Names \cup {SysPool, ""} /\ TRUE \in BOOLEAN
  OBVIOUS
<1> QED
  BY <1>1, Zenon DEF DiskType, Created

LEMMA DiskOverwritten ==
  ASSUME NEW x \in DiskType, NEW b \in BOOLEAN
  PROVE  /\ Overwritten(x, b) \in DiskType /\ Overwritten(x, b).imp = x.imp
         /\ Overwritten(x, b).table = x.table
         /\ b => Overwritten(x, b).guid = 0
         /\ ~b => Same(x, Overwritten(x, b))
<1>1. 0 \in 0..MaxGuids + 1 /\ "" \in Names \cup {SysPool, ""}
  BY BoundsAssumption
<1>2. CASE b
  BY <1>1, <1>2, Zenon DEF DiskType, Overwritten
<1>3. CASE ~b
  BY <1>3, Zenon DEF DiskType, Overwritten, Same
<1> QED
  BY <1>2, <1>3, Zenon

LEMMA DiskZapped ==
  ASSUME NEW x \in DiskType, NEW b \in BOOLEAN
  PROVE  /\ Zapped(x, b) \in DiskType /\ Zapped(x, b).imp = x.imp
         /\ Zapped(x, b).guid = x.guid /\ Zapped(x, b).name = x.name
         /\ Zapped(x, b).has = x.has
         /\ b => ~Zapped(x, b).table
         /\ ~b => Same(x, Zapped(x, b))
<1>1. FALSE \in BOOLEAN
  OBVIOUS
<1>2. CASE b
  BY <1>1, <1>2, Zenon DEF DiskType, Zapped
<1>3. CASE ~b
  BY <1>3, Zenon DEF DiskType, Zapped, Same
<1> QED
  BY <1>2, <1>3, Zenon

(* What a step does to the disks.                                          *)
Opens(e) ==
    /\ Idle \/ run.step \in {"readback", "destroy"}
    /\ disks[e].table /\ disks[e].guid # 0
    /\ \/ disks[e].imp # "no"
       \/ ~Imported(disks[e].name)
       \/ At("readback") /\ e = run.disk

Makes(e) ==
    /\ Create /\ At("create") /\ e = run.disk /\ run'.step = "track"
    /\ spent'.guid = spent.guid + 1 /\ disks'[e].guid = spent.guid + 1
    /\ disks'[e].name = run.name /\ disks'[e].table /\ disks'[e].imp = "rw"

Wipes(e) ==
    /\ e = run.disk /\ disks'[e].imp = disks[e].imp
    /\ \/ Overwrite /\ At("wipe") /\ disks'[e].guid = 0 /\ disks'[e].table = disks[e].table
       \/ /\ Zap /\ At("zap") /\ ~disks'[e].table
          /\ disks'[e].guid = disks[e].guid /\ disks'[e].name = disks[e].name

LEMMA Making ==
  ASSUME DiskInv, Create
  PROVE  /\ run.cmd = "prepare" /\ run.disk \in Disks /\ run.name \in Names
         /\ \/ UNCHANGED disks /\ run' = NoRun
            \/ /\ disks' = [disks EXCEPT ![run.disk] = Created(@, run.name, spent.guid + 1)]
               /\ Created(disks[run.disk], run.name, spent.guid + 1) \in DiskType
               /\ Makes(run.disk)
<1>1. /\ disks \in [Disks \cup {Sys} -> DiskType] /\ Records /\ Labels /\ Order
      /\ run \in RunType /\ spent.guid \in Nat
      /\ spent \in [runs : 0..MaxRuns, faults : 0..MaxFaults, moves : 0..MaxMoves,
                    guid : Guids]
  BY Reads DEF DiskInv, TypeOK, Records
<1>2. /\ run.cmd = "prepare" /\ run.disk \in Disks /\ At("create")
      /\ run.name \in Names /\ spent.guid < MaxGuids
  BY <1>1, Lanes DEF Create, At, DiskInv, Prepared, Order
<1>3. CASE UNCHANGED disks /\ Leave("refused")
  BY <1>2, <1>3, Zenon DEF Leave
<1>4. CASE /\ disks' = [disks EXCEPT ![run.disk] = Created(@, run.name, spent.guid + 1)]
           /\ run' = [run EXCEPT !.step = "track", !.guid = spent.guid + 1]
           /\ spent' = [spent EXCEPT !.guid = @ + 1]
  <2> DEFINE d == run.disk
             g == spent.guid + 1
             y == Created(disks[d], run.name, g)
  <2>1. g \in 0..MaxGuids + 1 /\ spent'.guid = g
    BY <1>1, <1>2, <1>4, BoundsAssumption
  <2>2. run'.step = "track"
    BY <1>1, <1>4 DEF RunType
  <2>3. disks[d] \in DiskType /\ disks'[d] = y
    BY <1>1, <1>2, <1>4
  <2>4. /\ y \in DiskType /\ y.imp = "rw" /\ y.guid = g /\ y.name = run.name
        /\ y.table
    <3> HIDE DEF g
    <3> QED
      BY <1>2, <2>1, <2>3, DiskCreated
  <2>5. Makes(d)
    BY <1>2, <2>1, <2>2, <2>3, <2>4, Zenon DEF Makes
  <2> QED
    BY <1>2, <1>4, <2>4, <2>5, Zenon
<1> QED
  BY <1>3, <1>4, Zenon DEF Create

LEMMA Media ==
  ASSUME DiskInv, [Next]_vars
  PROVE  /\ disks' \in [Disks \cup {Sys} -> DiskType]
         /\ disks'[Sys] = disks[Sys]
         /\ \E w \in Disks : \A e \in Disks \ {w} : disks'[e] = disks[e]
         /\ \A e \in Disks :
              /\ e = run.disk \/ Idle \/ disks'[e] = disks[e]
              /\ Same(disks[e], disks'[e]) \/ Makes(e) \/ Wipes(e)
              /\ disks'[e].imp \in {disks[e].imp, "no"} \/ Makes(e) \/ Opens(e)
              /\ disks[e].has \subseteq disks'[e].has \/ Makes(e) \/ Overwrite
<1> DEFINE All == Disks \cup {Sys}
           P(e) == /\ e = run.disk \/ Idle \/ disks'[e] = disks[e]
                   /\ Same(disks[e], disks'[e]) \/ Makes(e) \/ Wipes(e)
                   /\ disks'[e].imp \in {disks[e].imp, "no"} \/ Makes(e) \/ Opens(e)
                   /\ disks[e].has \subseteq disks'[e].has \/ Makes(e) \/ Overwrite
           Q == /\ disks' \in [All -> DiskType] /\ disks'[Sys] = disks[Sys]
                /\ \E w \in Disks : \A e \in Disks \ {w} : disks'[e] = disks[e]
                /\ \A e \in Disks : P(e)
<1>1. /\ disks \in [All -> DiskType] /\ Records /\ Labels /\ Order
      /\ run.cmd = "prepare" => run.name \in Names
  BY DEF DiskInv, TypeOK, Records, Prepared
<1>2. \A d \in All : disks[d] \in DiskType
  BY <1>1
<1>U. disks' = disks => Q
  BY <1>1, DisksAssumption DEF Same
<1>E. ASSUME NEW d \in Disks, NEW D \in DiskType, disks' = [disks EXCEPT ![d] = D],
             d = run.disk \/ Idle, P(d)
      PROVE  Q
  <2>1. disks' \in [All -> DiskType] /\ Sys # d
    BY <1>1, <1>E, DisksAssumption
  <2>2. \A e \in All \ {d} : disks'[e] = disks[e]
    BY <1>1, <1>E
  <2>3. \A e \in Disks \ {d} : P(e)
    BY <2>2 DEF Same
  <2> QED
    BY <1>E, <2>1, <2>2, <2>3
<1>T. ASSUME NEW d \in Disks, NEW i \in {"no", "ro", "rw"},
             disks' = [disks EXCEPT ![d] = Turned(@, i)], d = run.disk \/ Idle,
             i = "no" \/ Opens(d)
      PROVE  Q
  <2>1. disks'[d] = Turned(disks[d], i)
    BY <1>1, <1>T
  <2> DEFINE y == Turned(disks[d], i)
  <2>2. y \in DiskType /\ y.imp = i /\ Same(disks[d], y) /\ y.has = disks[d].has
    BY <1>2, <1>T, DiskTurned
  <2>3. P(d)
    BY <1>T, <2>1, <2>2 DEF Same
  <2> QED
    BY <1>T, <1>E, <2>2, <2>3
<1>R. disks' = Released => Q
  <2>1. CASE run.tracked
    <3>1. run.disk \in Disks /\ Released = [disks EXCEPT ![run.disk] = Turned(@, "no")]
      BY <1>1, <2>1 DEF Order, Released
    <3> QED
      BY <1>T, <3>1
  <2>2. CASE ~run.tracked
    BY <1>U, <2>2 DEF Released
  <2> QED
    BY <2>1, <2>2
<1>W. ASSUME NEW h \in Whole, disks' = [disks EXCEPT ![run.disk] = With(@, h)],
             run.disk \in Disks
      PROVE  Q
  <2> DEFINE d == run.disk
             y == With(disks[d], h)
  <2>1. disks'[d] = y
    BY <1>1, <1>W
  <2>2. /\ y \in DiskType /\ y.imp = disks[d].imp
        /\ Same(disks[d], y) /\ y.has = disks[d].has \cup {h}
    BY <1>2, <1>W, DiskWith
  <2>3. P(d)
    BY <2>1, <2>2 DEF Same
  <2> QED
    BY <1>W, <1>E, <2>2, <2>3
<1>H. "data" \in Whole /\ "keystore" \in Whole /\ "flushed" \in Whole
  BY DEF Whole
<1> SUFFICES Q
  OBVIOUS
<1>L. /\ run.step \in ({"create"} \cup Building) \ {"send"} => run.cmd = "prepare"
      /\ run.step \in {"destroy", "wipe", "zap"} => run.cmd = "purge"
      /\ run.step = "send" => run.cmd \in {"prepare", "backup"}
      /\ run.cmd \in {"prepare", "purge", "backup"} => run.disk \in Disks
      /\ Idle => run = NoRun
  BY <1>1, Lanes DEF Order
<1> HIDE DEF P, Q
<1>3. CASE Create
  <2>1. CASE UNCHANGED disks
    BY <1>U, <2>1, Zenon
  <2>2. CASE /\ disks' = [disks EXCEPT ![run.disk] = Created(@, run.name, spent.guid + 1)]
             /\ Created(disks[run.disk], run.name, spent.guid + 1) \in DiskType
             /\ run.disk \in Disks /\ Makes(run.disk)
    <3>1. P(run.disk)
      BY <2>2, Zenon DEF P
    <3> QED
      BY <1>E, <2>2, <3>1
  <2> QED
    BY <1>3, <2>1, <2>2, Making, Zenon
<1>4. CASE Send
  <2>1. run.disk \in Disks
    BY <1>4, <1>L DEF Send, At
  <2> QED
    BY <1>4, <2>1, <1>U, <1>W, <1>H, Zenon DEF Send
<1>5. CASE SendKeystore
  <2>1. run.disk \in Disks
    BY <1>5, <1>L DEF SendKeystore, At, Building
  <2> QED
    BY <1>5, <2>1, <1>U, <1>W, <1>H, Zenon DEF SendKeystore
<1>6. CASE Export
  <2>1. run.disk \in Disks
    BY <1>6, <1>L DEF Export, At, Building
  <2> DEFINE d == run.disk
             out == Turned(disks[d], "no")
             y == With(out, "flushed")
  <2>2. \/ UNCHANGED disks
        \/ disks' = [disks EXCEPT ![run.disk] = y]
        \/ disks' = [disks EXCEPT ![run.disk] = out]
    BY <1>6, Zenon DEF Export
  <2>3. out \in DiskType /\ out.imp = "no" /\ Same(disks[d], out) /\ out.has = disks[d].has
    BY <1>2, <2>1, DiskTurned
  <2>4. /\ y \in DiskType /\ y.imp = "no" /\ Same(disks[d], y)
        /\ y.has = disks[d].has \cup {"flushed"}
    <3>1. /\ y \in DiskType /\ y.imp = out.imp /\ Same(out, y)
          /\ y.has = out.has \cup {"flushed"}
      BY <1>H, <2>3, DiskWith
    <3> QED
      BY <2>3, <3>1, Zenon DEF Same
  <2>5. ASSUME disks' = [disks EXCEPT ![d] = out] PROVE Q
    <3>1. disks'[d] = out
      BY <1>1, <2>1, <2>5
    <3>2. P(d)
      BY <2>3, <3>1 DEF P, Same
    <3> QED
      BY <1>E, <2>1, <2>3, <2>5, <3>2
  <2>6. ASSUME disks' = [disks EXCEPT ![d] = y] PROVE Q
    <3>1. disks'[d] = y
      BY <1>1, <2>1, <2>6
    <3>2. P(d)
      BY <2>4, <3>1 DEF P, Same
    <3> QED
      BY <1>E, <2>1, <2>4, <2>6, <3>2
  <2> QED
    BY <1>U, <2>2, <2>5, <2>6, Zenon
<1>7. CASE Judge
  BY <1>7, <1>U, <1>R, Zenon DEF Judge, GiveUp
<1>8. CASE Readback
  <2>1. run.disk \in Disks /\ run.cmd = "prepare" /\ run.step = "readback"
    BY <1>8, <1>L DEF Readback, At, Building
  <2>2. Held.table /\ Held.guid \in Guids
    BY <2>1, Zenon DEF DiskInv, Prepared
  <2>3. Opens(run.disk)
    BY <2>1, <2>2, BoundsAssumption DEF Opens, At, Held, Guids
  <2>4. CASE disks' = [disks EXCEPT ![run.disk] = Turned(@, "ro")]
    BY <1>T, <2>1, <2>3, <2>4
  <2> QED
    BY <1>8, <1>R, <2>4, Zenon DEF Readback, GiveUp
<1>9. CASE Reread
  BY <1>9, <1>R, Zenon DEF Reread
<1>10. CASE DestroyLabelledPool
  <2>1. run.disk \in Disks /\ run.cmd = "purge" /\ run.step = "destroy"
    BY <1>10, <1>L DEF DestroyLabelledPool, At
  <2>2. Held.table /\ Held.guid # 0
    BY <2>1 DEF DiskInv, Wiping, ReadLabel, Held
  <2>3. CASE UNCHANGED disks
    BY <1>U, <2>3, Zenon
  <2>4. CASE disks' = [disks EXCEPT ![run.disk] = Turned(@, "no")]
    BY <1>T, <2>1, <2>4
  <2>5. ASSUME NEW i \in {"ro", "rw"}, disks' = [disks EXCEPT ![run.disk] = Turned(@, i)],
               Held.imp = "no" => ~Imported(Held.name)
        PROVE  Q
    <3>1. Opens(run.disk)
      BY <2>1, <2>2, <2>5 DEF Opens, Held
    <3> QED
      BY <1>T, <2>1, <2>5, <3>1
  <2>6. \/ UNCHANGED disks
        \/ disks' = [disks EXCEPT ![run.disk] = Turned(@, "no")]
        \/ /\ \/ disks' = [disks EXCEPT ![run.disk] = Turned(@, "ro")]
              \/ disks' = [disks EXCEPT ![run.disk] = Turned(@, "rw")]
           /\ Held.imp = "no" => ~Imported(Held.name)
    BY <1>10, Zenon DEF DestroyLabelledPool, WipeOnly, Destroyed, NotDestroyed, Held
  <2> QED
    BY <2>3, <2>4, <2>5, <2>6
<1>11. CASE Overwrite
  <2>1. run.disk \in Disks /\ run.step = "wipe"
    BY <1>11, <1>L DEF Overwrite, At
  <2>2. CASE UNCHANGED disks
    BY <1>U, <2>2, Zenon
  <2>3. ASSUME NEW b \in BOOLEAN, disks' = [disks EXCEPT ![run.disk] = Overwritten(@, b)]
        PROVE  Q
    <3> DEFINE d == run.disk
               y == Overwritten(disks[d], b)
    <3>1. disks[d] \in DiskType /\ disks'[d] = y
      BY <1>1, <1>2, <2>1, <2>3
    <3>2. /\ y \in DiskType /\ y.imp = disks[d].imp /\ y.table = disks[d].table
          /\ (b => y.guid = 0) /\ (~b => Same(disks[d], y))
      BY <2>3, <3>1, DiskOverwritten
    <3>3. P(d)
      BY <1>11, <2>1, <3>1, <3>2, Zenon DEF P, Same, Wipes, At
    <3> QED
      BY <1>E, <2>1, <2>3, <3>2, <3>3
  <2>4. UNCHANGED disks \/ \E b \in BOOLEAN : disks' = [disks EXCEPT ![run.disk] = Overwritten(@, b)]
    BY <1>11, Zenon DEF Overwrite
  <2> QED
    BY <2>2, <2>3, <2>4, Zenon
<1>12. CASE Zap
  <2>1. run.disk \in Disks /\ run.step = "zap"
    BY <1>12, <1>L DEF Zap, At
  <2>2. PICK b \in BOOLEAN : disks' = [disks EXCEPT ![run.disk] = Zapped(@, b)]
    BY <1>12, Zenon DEF Zap
  <2> DEFINE d == run.disk
             y == Zapped(disks[d], b)
  <2>3. disks[d] \in DiskType /\ disks'[d] = y
    BY <1>1, <1>2, <2>1, <2>2
  <2>4. /\ y \in DiskType /\ y.imp = disks[d].imp /\ y.guid = disks[d].guid
        /\ y.name = disks[d].name /\ y.has = disks[d].has
        /\ (b => ~y.table) /\ (~b => Same(disks[d], y))
    BY <2>2, <2>3, DiskZapped
  <2>5. CASE b
    <3>1. Wipes(d)
      BY <1>12, <2>1, <2>3, <2>4, <2>5, Zenon DEF Wipes, At
    <3>2. P(d)
      BY <2>3, <2>4, <3>1 DEF P
    <3> QED
      BY <1>E, <2>1, <2>2, <2>4, <3>2
  <2>6. CASE ~b
    <3>1. Same(disks[d], disks'[d])
      BY <2>3, <2>4, <2>6, Zenon DEF Same
    <3>2. P(d)
      BY <2>3, <2>4, <3>1 DEF P
    <3> QED
      BY <1>E, <2>1, <2>2, <2>4, <3>2
  <2> QED
    BY <2>5, <2>6, Zenon
<1>13. CASE CloseBackup
  BY <1>13, <1>R, Zenon DEF CloseBackup
<1>14. CASE Write
  BY <1>14, <1>U, <1>R, Zenon DEF Write
<1>15. CASE Stop
  BY <1>15, <1>U, <1>R, Zenon DEF Stop
<1>16. ASSUME NEW n \in Names, NEW d \in Disks, StartBackup(n, d) PROVE Q
  <2>1. /\ Idle /\ d \in DiskOf(Loaded[n].guid) /\ disks[d].name = n /\ ~Imported(n)
        /\ disks' = [disks EXCEPT ![d] = Turned(@, "rw")] /\ n \in Known(Loaded)
    BY <1>16, Zenon DEF StartBackup, Start
  <2>2. ReadLabel(d) # 0
    BY <1>1, <2>1, Reads, Entries DEF DiskOf
  <2>3. Opens(d)
    BY <2>1, <2>2 DEF Opens, ReadLabel
  <2> QED
    BY <1>T, <2>1, <2>3
<1>17. ASSUME NEW d \in Disks, NEW s \in {"away", "port", "shown", "hidden"}, Plug(d, s)
       PROVE  Q
  <2>1. Idle /\ disks' = [disks EXCEPT ![d].seat = s]
    BY <1>17, Zenon DEF Plug
  <2> DEFINE y == [disks[d] EXCEPT !.seat = s]
  <2>2. disks[d] \in DiskType /\ disks' = [disks EXCEPT ![d] = y] /\ disks'[d] = y
    BY <1>1, <1>2, <2>1
  <2>3. y \in DiskType /\ y.imp = disks[d].imp /\ Same(disks[d], y) /\ y.has = disks[d].has
    BY <1>17, <2>2, DiskSeat, Zenon
  <2>4. P(d)
    BY <2>1, <2>2, <2>3 DEF P, Same
  <2> HIDE DEF y
  <2> QED
    BY <1>E, <2>1, <2>2, <2>3, <2>4
<1>18. ASSUME NEW d \in Disks, NEW m \in {"no", "ro", "rw"}, Import(d, m) PROVE Q
  <2>1. /\ Idle /\ disks' = [disks EXCEPT ![d] = Turned(@, m)] /\ d \in Labelled
        /\ m = "no" \/ ~Imported(disks[d].name)
    BY <1>18, Zenon DEF Import
  <2>2. m = "no" \/ Opens(d)
    BY <2>1 DEF Opens, Labelled, ReadLabel
  <2> QED
    BY <1>18, <1>T, <2>1, <2>2
<1> QED
  BY <1>U, <1>3, <1>4, <1>5, <1>6, <1>7, <1>8, <1>9, <1>10, <1>11, <1>12, <1>13, <1>14,
     <1>15, <1>16, <1>17, <1>18, Touched, Zenon

-----------------------------------------------------------------------------
(* The steps of a command.                                                 *)
Kept(r, q) ==
    /\ q.cmd = r.cmd /\ q.disk = r.disk /\ q.name = r.name
    /\ q.goes = r.goes /\ q.agreed = r.agreed

(* The fields of a running command after a step.                           *)
After(r, q, step, guid, cfg, fails, tracked, next) ==
    /\ Kept(r, q)
    /\ q.step = step /\ q.guid = guid /\ q.cfg = cfg
    /\ q.fails = fails /\ q.tracked = tracked /\ q.next = next

LEMMA RunKept ==
  ASSUME NEW r \in RunType
  PROVE  /\ \A s : After(r, [r EXCEPT !.step = s],
                              s, r.guid, r.cfg, r.fails, r.tracked, r.next)
         /\ \A s, g : After(r, [r EXCEPT !.step = s, !.guid = g],
                              s, g, r.cfg, r.fails, r.tracked, r.next)
         /\ \A s, t : After(r, [r EXCEPT !.step = s, !.tracked = t],
                              s, r.guid, r.cfg, r.fails, t, r.next)
         /\ \A s, f : After(r, [r EXCEPT !.fails = f, !.step = s],
                              s, r.guid, r.cfg, f, r.tracked, r.next)
         /\ \A s, f : After(r, [r EXCEPT !.step = s, !.fails = f],
                              s, r.guid, r.cfg, f, r.tracked, r.next)
         /\ \A s, k, c : After(r, [r EXCEPT !.step = s, !.next = k, !.cfg = c],
                              s, r.guid, c, r.fails, r.tracked, k)
         /\ \A s, k, c : After(r, [r EXCEPT !.cfg = c, !.next = k, !.step = s],
                              s, r.guid, c, r.fails, r.tracked, k)
         /\ \A s, k, t : After(r, [r EXCEPT !.step = s, !.next = k, !.tracked = t],
                              s, r.guid, r.cfg, r.fails, t, k)
<1>1. \A s : After(r, [r EXCEPT !.step = s],
                     s, r.guid, r.cfg, r.fails, r.tracked, r.next)
  BY Zenon DEF RunType, Kept, After
<1>2. \A s, g : After(r, [r EXCEPT !.step = s, !.guid = g],
                     s, g, r.cfg, r.fails, r.tracked, r.next)
  BY Zenon DEF RunType, Kept, After
<1>3. \A s, t : After(r, [r EXCEPT !.step = s, !.tracked = t],
                     s, r.guid, r.cfg, r.fails, t, r.next)
  BY Zenon DEF RunType, Kept, After
<1>4. \A s, f : After(r, [r EXCEPT !.fails = f, !.step = s],
                     s, r.guid, r.cfg, f, r.tracked, r.next)
  BY Zenon DEF RunType, Kept, After
<1>5. \A s, f : After(r, [r EXCEPT !.step = s, !.fails = f],
                     s, r.guid, r.cfg, f, r.tracked, r.next)
  BY Zenon DEF RunType, Kept, After
<1>6. \A s, k, c : After(r, [r EXCEPT !.step = s, !.next = k, !.cfg = c],
                     s, r.guid, c, r.fails, r.tracked, k)
  BY Zenon DEF RunType, Kept, After
<1>7. \A s, k, c : After(r, [r EXCEPT !.cfg = c, !.next = k, !.step = s],
                     s, r.guid, c, r.fails, r.tracked, k)
  BY ZenonT(60) DEF RunType, Kept, After
<1>8. \A s, k, t : After(r, [r EXCEPT !.step = s, !.next = k, !.tracked = t],
                     s, r.guid, r.cfg, r.fails, t, k)
  BY Zenon DEF RunType, Kept, After
<1> QED
  BY <1>1, <1>2, <1>3, <1>4, <1>5, <1>6, <1>7, <1>8, Zenon

(* What each step makes of the running command.                            *)
LEMMA Course ==
  ASSUME Records
  PROVE  /\ Create =>
              /\ At("create")
              /\ \/ run' = NoRun
                 \/ After(run, run', "track", spent.guid + 1, run.cfg, run.fails,
                      run.tracked, run.next)
         /\ Track =>
              /\ At("track")
              /\ After(run, run', "send", run.guid, run.cfg, run.fails, TRUE, run.next)
         /\ Send =>
              /\ At("send")
              /\ \E s \in {"keystore", "close"}, f \in {run.fails, run.fails \cup {"send"}} :
                   /\ After(run, run', s, run.guid, run.cfg, f, run.tracked, run.next)
                   /\ s = "keystore" <=> run.cmd = "prepare"
         /\ SnapKeystore =>
              /\ At("keystore")
              /\ \/ After(run, run', "snapped", run.guid, run.cfg, run.fails, run.tracked, run.next)
                 \/ After(run, run', "export", run.guid, run.cfg,
                      run.fails \cup {"keystore"}, run.tracked, run.next)
         /\ SendKeystore =>
              /\ At("snapped")
              /\ \/ After(run, run', "export", run.guid, run.cfg, run.fails, run.tracked, run.next)
                 \/ After(run, run', "export", run.guid, run.cfg,
                      run.fails \cup {"keystore"}, run.tracked, run.next)
         /\ Export =>
              /\ At("export")
              /\ \/ After(run, run', "judge", run.guid, run.cfg, run.fails, FALSE, run.next)
                 \/ After(run, run', "judge", run.guid, run.cfg,
                      run.fails \cup {"export"}, run.tracked, run.next)
         /\ Judge =>
              /\ At("judge")
              /\ \/ run' = NoRun
                 \/ After(run, run', "readback", run.guid, run.cfg, run.fails, run.tracked, run.next)
         /\ Readback =>
              /\ At("readback")
              /\ \/ run' = NoRun
                 \/ After(run, run', "reread", run.guid, run.cfg, run.fails, TRUE, run.next)
         /\ Reread =>
              /\ At("reread")
              /\ \/ run' = NoRun
                 \/ After(run, run', "register", run.guid, run.cfg, run.fails, FALSE, run.next)
         /\ DestroyLabelledPool =>
              /\ At("destroy")
              /\ \/ run' = NoRun
                 \/ After(run, run', "wipe", run.guid, run.cfg, run.fails, run.tracked, run.next)
         /\ PurgeVerdict =>
              /\ At("verdict")
              /\ \/ run' = NoRun
                 \/ After(run, run', "drop", run.guid, run.cfg, run.fails, run.tracked, run.next)
         /\ LeftoverPoints =>
              /\ At("points")
              /\ After(run, run', "end", run.guid, run.cfg, run.fails, run.tracked, run.next)
         /\ CloseBackup =>
              /\ At("close")
              /\ \/ run' = NoRun
                 \/ After(run, run', "save", run.guid, run.cfg, run.fails, FALSE, "end")
         /\ Write =>
              /\ At("save")
              /\ \/ run' = NoRun
                 \/ After(run, run', "replace", run.guid, run.cfg, run.fails, run.tracked, run.next)
                 \/ After(run, run', "end", run.guid, run.cfg, run.fails, run.tracked, run.next)
         /\ Replace =>
              /\ At("replace")
              /\ After(run, run', run.next, run.guid, run.cfg, run.fails, run.tracked, run.next)
         /\ Overwrite =>
              /\ At("wipe")
              /\ \E s \in {"zap", "verdict"} : \E f :
                   /\ After(run, run', s, run.guid, run.cfg, f, run.tracked, run.next)
                   /\ s = "verdict" => f # {}
         /\ Zap =>
              /\ At("zap")
              /\ \E u \in SUBSET {"wipefs", "zap"} :
                   After(run, run', "verdict", run.guid, run.cfg, run.fails \cup u,
                         run.tracked, run.next)
         /\ Register =>
              /\ At("register")
              /\ \E own \in BOOLEAN :
                   After(run, run', "save", run.guid,
                         [Without(run.cfg, run.goes) EXCEPT ![run.name] =
                            [guid |-> run.guid, id |-> RegistryNames(run.disk).id,
                             box |-> RegistryNames(run.disk).box, own |-> own]],
                         run.fails, run.tracked, "end")
         /\ Drop =>
              /\ At("drop")
              /\ \E s, k \in {"points", "end", "save"} :
                   /\ After(run, run', s, run.guid, Without(run.cfg, run.goes), run.fails,
                            run.tracked, k)
                   /\ k = (IF run.cmd = "forget" THEN "points" ELSE "end")
                   /\ s = (IF run.goes = {} THEN k ELSE "save")
         /\ End => At("end") /\ run' = NoRun
         /\ Stop => run' = NoRun
<1>0. run \in RunType
  BY DEF Records
<1>A. \A s : After(run, [run EXCEPT !.step = s],
                     s, run.guid, run.cfg, run.fails, run.tracked, run.next)
  BY <1>0, RunKept, Zenon
<1>B. \A s, g : After(run, [run EXCEPT !.step = s, !.guid = g],
                     s, g, run.cfg, run.fails, run.tracked, run.next)
  BY <1>0, RunKept, Zenon
<1>C. \A s, t : After(run, [run EXCEPT !.step = s, !.tracked = t],
                     s, run.guid, run.cfg, run.fails, t, run.next)
  BY <1>0, RunKept, Zenon
<1>D. \A s, f : After(run, [run EXCEPT !.fails = f, !.step = s],
                     s, run.guid, run.cfg, f, run.tracked, run.next)
  BY <1>0, RunKept, Zenon
<1>E. \A s, f : After(run, [run EXCEPT !.step = s, !.fails = f],
                     s, run.guid, run.cfg, f, run.tracked, run.next)
  BY <1>0, RunKept, Zenon
<1>F. \A s, k, c : After(run, [run EXCEPT !.step = s, !.next = k, !.cfg = c],
                     s, run.guid, c, run.fails, run.tracked, k)
  BY <1>0, RunKept, Zenon
<1>G. \A s, k, c : After(run, [run EXCEPT !.cfg = c, !.next = k, !.step = s],
                     s, run.guid, c, run.fails, run.tracked, k)
  BY <1>0, RunKept, Zenon
<1>H. \A s, k, t : After(run, [run EXCEPT !.step = s, !.next = k, !.tracked = t],
                     s, run.guid, run.cfg, run.fails, t, k)
  BY <1>0, RunKept, Zenon
<1>1. Create =>
            /\ At("create")
            /\ \/ run' = NoRun
               \/ After(run, run', "track", spent.guid + 1, run.cfg, run.fails,
                    run.tracked, run.next)
  <2>1. After(run, [run EXCEPT !.step = "track", !.guid = spent.guid + 1],
              "track", spent.guid + 1, run.cfg, run.fails, run.tracked, run.next)
    BY <1>B
  <2> QED
    BY <2>1, Zenon DEF Create, Leave
<1>2. Track =>
            /\ At("track")
            /\ After(run, run', "send", run.guid, run.cfg, run.fails, TRUE, run.next)
  <2>1. After(run, [run EXCEPT !.step = "send", !.tracked = TRUE],
              "send", run.guid, run.cfg, run.fails, TRUE, run.next)
    BY <1>C
  <2> QED
    BY <2>1, Zenon DEF Track
<1>3. Send =>
            /\ At("send")
            /\ \E s \in {"keystore", "close"}, f \in {run.fails, run.fails \cup {"send"}} :
                 /\ After(run, run', s, run.guid, run.cfg, f, run.tracked, run.next)
                 /\ s = "keystore" <=> run.cmd = "prepare"
  <2> DEFINE s == IF run.cmd = "prepare" THEN "keystore" ELSE "close"
             f == run.fails \cup {"send"}
  <2>1. Send => At("send") /\ \/ run' = [run EXCEPT !.step = s]
                              \/ run' = [run EXCEPT !.fails = f, !.step = s]
    BY Zenon DEF Send, Go
  <2>2. s \in {"keystore", "close"} /\ (s = "keystore" <=> run.cmd = "prepare")
    OBVIOUS
  <2>3. f \in {run.fails, f} /\ run.fails \in {run.fails, f}
    OBVIOUS
  <2> HIDE DEF s, f
  <2>4. /\ After(run, [run EXCEPT !.step = s], s, run.guid, run.cfg, run.fails, run.tracked, run.next)
        /\ After(run, [run EXCEPT !.fails = f, !.step = s], s, run.guid, run.cfg, f, run.tracked, run.next)
    BY <1>A, <1>D, Zenon
  <2>5. Send => /\ At("send")
                /\ \E x \in {"keystore", "close"}, y \in {run.fails, f} :
                     /\ After(run, run', x, run.guid, run.cfg, y, run.tracked, run.next)
                     /\ x = "keystore" <=> run.cmd = "prepare"
    BY <2>1, <2>2, <2>3, <2>4, Zenon
  <2> QED
    BY <2>5, Zenon DEF f
<1>4. SnapKeystore =>
            /\ At("keystore")
            /\ \/ After(run, run', "snapped", run.guid, run.cfg, run.fails, run.tracked, run.next)
               \/ After(run, run', "export", run.guid, run.cfg,
                    run.fails \cup {"keystore"}, run.tracked, run.next)
  <2>1. After(run, [run EXCEPT !.step = "export", !.fails = run.fails \cup {"keystore"}],
              "export", run.guid, run.cfg, run.fails \cup {"keystore"}, run.tracked, run.next)
    BY <1>E
  <2> QED
    BY <2>1, <1>A, Zenon DEF SnapKeystore, Go, KeystoreFails
<1>5. SendKeystore =>
            /\ At("snapped")
            /\ \/ After(run, run', "export", run.guid, run.cfg, run.fails, run.tracked, run.next)
               \/ After(run, run', "export", run.guid, run.cfg,
                    run.fails \cup {"keystore"}, run.tracked, run.next)
  <2>1. After(run, [run EXCEPT !.step = "export", !.fails = run.fails \cup {"keystore"}],
              "export", run.guid, run.cfg, run.fails \cup {"keystore"}, run.tracked, run.next)
    BY <1>E
  <2> QED
    BY <2>1, <1>A, Zenon DEF SendKeystore, Go, KeystoreFails
<1>6. Export =>
            /\ At("export")
            /\ \/ After(run, run', "judge", run.guid, run.cfg, run.fails, FALSE, run.next)
               \/ After(run, run', "judge", run.guid, run.cfg,
                    run.fails \cup {"export"}, run.tracked, run.next)
  <2>1. After(run, [run EXCEPT !.step = "judge", !.tracked = FALSE],
              "judge", run.guid, run.cfg, run.fails, FALSE, run.next)
    BY <1>C
  <2>2. After(run, [run EXCEPT !.step = "judge", !.fails = run.fails \cup {"export"}],
              "judge", run.guid, run.cfg, run.fails \cup {"export"}, run.tracked, run.next)
    BY <1>E
  <2> QED
    BY <2>1, <2>2, Zenon DEF Export
<1>7. Judge =>
            /\ At("judge")
            /\ \/ run' = NoRun
               \/ After(run, run', "readback", run.guid, run.cfg, run.fails, run.tracked, run.next)
  BY <1>A, Zenon DEF Judge, GiveUp, Leave, Go
<1>8. Readback =>
            /\ At("readback")
            /\ \/ run' = NoRun
               \/ After(run, run', "reread", run.guid, run.cfg, run.fails, TRUE, run.next)
  <2>1. After(run, [run EXCEPT !.step = "reread", !.tracked = TRUE],
              "reread", run.guid, run.cfg, run.fails, TRUE, run.next)
    BY <1>C
  <2> QED
    BY <2>1, Zenon DEF Readback, GiveUp, Leave
<1>9. Reread =>
            /\ At("reread")
            /\ \/ run' = NoRun
               \/ After(run, run', "register", run.guid, run.cfg, run.fails, FALSE, run.next)
  <2>1. After(run, [run EXCEPT !.step = "register", !.tracked = FALSE],
              "register", run.guid, run.cfg, run.fails, FALSE, run.next)
    BY <1>C
  <2> QED
    BY <2>1, Zenon DEF Reread, Leave
<1>10. DestroyLabelledPool =>
            /\ At("destroy")
            /\ \/ run' = NoRun
               \/ After(run, run', "wipe", run.guid, run.cfg, run.fails, run.tracked, run.next)
  BY <1>A, Zenon DEF DestroyLabelledPool, WipeOnly, Destroyed, NotDestroyed, Go, Leave
<1>11. PurgeVerdict =>
            /\ At("verdict")
            /\ \/ run' = NoRun
               \/ After(run, run', "drop", run.guid, run.cfg, run.fails, run.tracked, run.next)
  BY <1>A, Zenon DEF PurgeVerdict, Leave, Go
<1>12. LeftoverPoints =>
            /\ At("points")
            /\ After(run, run', "end", run.guid, run.cfg, run.fails, run.tracked, run.next)
  BY <1>A, Zenon DEF LeftoverPoints, Go
<1>13. CloseBackup =>
            /\ At("close")
            /\ \/ run' = NoRun
               \/ After(run, run', "save", run.guid, run.cfg, run.fails, FALSE, "end")
  <2>1. After(run, [run EXCEPT !.step = "save", !.next = "end", !.tracked = FALSE],
              "save", run.guid, run.cfg, run.fails, FALSE, "end")
    BY <1>H
  <2> QED
    BY <2>1, Zenon DEF CloseBackup, Leave
<1>14. Write =>
            /\ At("save")
            /\ \/ run' = NoRun
               \/ After(run, run', "replace", run.guid, run.cfg, run.fails, run.tracked, run.next)
               \/ After(run, run', "end", run.guid, run.cfg, run.fails, run.tracked, run.next)
  BY <1>A, Zenon DEF Write, Leave, Go
<1>15. Replace =>
            /\ At("replace")
            /\ After(run, run', run.next, run.guid, run.cfg, run.fails, run.tracked, run.next)
  BY <1>A, Zenon DEF Replace, Go
<1>20. Overwrite =>
         /\ At("wipe")
         /\ \E s \in {"zap", "verdict"} : \E f :
              /\ After(run, run', s, run.guid, run.cfg, f, run.tracked, run.next)
              /\ s = "verdict" => f # {}
  <2>1. Overwrite => /\ At("wipe")
                     /\ \/ \E f : run' = [run EXCEPT !.step = "zap", !.fails = f]
                        \/ run' = [run EXCEPT !.step = "verdict", !.fails = {"held"}]
    BY Zenon DEF Overwrite
  <2>2. {"held"} # {} /\ "zap" # "verdict"
    OBVIOUS
  <2>3. \A f : After(run, [run EXCEPT !.step = "zap", !.fails = f],
                    "zap", run.guid, run.cfg, f, run.tracked, run.next)
    BY <1>E
  <2>4. After(run, [run EXCEPT !.step = "verdict", !.fails = {"held"}],
              "verdict", run.guid, run.cfg, {"held"}, run.tracked, run.next)
    BY <1>E
  <2>5. "zap" \in {"zap", "verdict"} /\ "verdict" \in {"zap", "verdict"}
    OBVIOUS
  <2>6. ASSUME Overwrite, NEW f, run' = [run EXCEPT !.step = "zap", !.fails = f]
        PROVE  /\ After(run, run', "zap", run.guid, run.cfg, f, run.tracked, run.next)
               /\ "zap" = "verdict" => f # {}
    BY <2>2, <2>3, <2>6, Zenon
  <2>7. ASSUME Overwrite, run' = [run EXCEPT !.step = "verdict", !.fails = {"held"}]
        PROVE  /\ After(run, run', "verdict", run.guid, run.cfg, {"held"}, run.tracked, run.next)
               /\ "verdict" = "verdict" => {"held"} # {}
    BY <2>2, <2>4, <2>7, Zenon
  <2> QED
    BY <2>1, <2>5, <2>6, <2>7, Zenon
<1>21. Zap =>
         /\ At("zap")
         /\ \E u \in SUBSET {"wipefs", "zap"} :
              After(run, run', "verdict", run.guid, run.cfg, run.fails \cup u,
                    run.tracked, run.next)
  <2>1. \A u : After(run, [run EXCEPT !.step = "verdict", !.fails = run.fails \cup u],
                    "verdict", run.guid, run.cfg, run.fails \cup u, run.tracked, run.next)
    BY <1>E
  <2> QED
    <3>1. Zap => /\ At("zap")
                 /\ \E u \in SUBSET {"wipefs", "zap"} :
                      run' = [run EXCEPT !.step = "verdict", !.fails = run.fails \cup u]
      BY Zenon DEF Zap
    <3> QED
      BY <2>1, <3>1
<1>22. Register =>
         /\ At("register")
         /\ \E own \in BOOLEAN :
              After(run, run', "save", run.guid,
                    [Without(run.cfg, run.goes) EXCEPT ![run.name] =
                       [guid |-> run.guid, id |-> RegistryNames(run.disk).id,
                        box |-> RegistryNames(run.disk).box, own |-> own]],
                    run.fails, run.tracked, "end")
  <2>1. \A c : After(run, [run EXCEPT !.step = "save", !.next = "end", !.cfg = c],
                    "save", run.guid, c, run.fails, run.tracked, "end")
    BY <1>F
  <2> QED
    BY <2>1, Zenon DEF Register
<1>23. Drop =>
         /\ At("drop")
         /\ \E s, k \in {"points", "end", "save"} :
              /\ After(run, run', s, run.guid, Without(run.cfg, run.goes), run.fails,
                       run.tracked, k)
              /\ k = (IF run.cmd = "forget" THEN "points" ELSE "end")
              /\ s = (IF run.goes = {} THEN k ELSE "save")
  <2> DEFINE k == IF run.cmd = "forget" THEN "points" ELSE "end"
             s == IF run.goes = {} THEN k ELSE "save"
  <2>1. Drop => /\ At("drop")
                /\ run' = [run EXCEPT !.cfg = Without(run.cfg, run.goes), !.next = k, !.step = s]
    BY Zenon DEF Drop
  <2>2. s \in {"points", "end", "save"} /\ k \in {"points", "end", "save"}
    OBVIOUS
  <2> HIDE DEF s, k
  <2>3. Drop => After(run, run', s, run.guid, Without(run.cfg, run.goes), run.fails,
                      run.tracked, k)
    <3> DEFINE c == Without(run.cfg, run.goes)
    <3> HIDE DEF c
    <3>1. After(run, [run EXCEPT !.cfg = c, !.next = k, !.step = s],
                s, run.guid, c, run.fails, run.tracked, k)
      BY <1>G
    <3> QED
      BY <2>1, <3>1, Zenon DEF c
  <2> QED
    BY <2>1, <2>2, <2>3, Zenon DEF s, k
<1>24. (End => At("end") /\ run' = NoRun) /\ (Stop => run' = NoRun)
  BY Zenon DEF End, Stop, Leave
<1> QED
  BY <1>1, <1>2, <1>3, <1>4, <1>5, <1>6, <1>7, <1>8, <1>9, <1>10, <1>11, <1>12, <1>13, <1>14, <1>15,
     <1>20, <1>21, <1>22, <1>23, <1>24, Zenon

(* What each command starts with.                                          *)
Begun(q, cmd, step, disk, name, cfg, guid, goes, agreed, tracked, next) ==
    /\ q.cmd = cmd /\ q.step = step /\ q.disk = disk /\ q.name = name
    /\ q.cfg = cfg /\ q.guid = guid /\ q.goes = goes /\ q.agreed = agreed
    /\ q.fails = {} /\ q.tracked = tracked /\ q.next = next

LEMMA Beginnings ==
  /\ \A d \in Disks, n \in Names : StartPrepare(d, n) =>
       \E o \in {{}, Recognised(Loaded, d, {"label", "disk"})},
          b \in SUBSET Recognised(Loaded, d, {"bus"}) :
            /\ Begun(run', "prepare", "create", d, n, Loaded, 0, o \cup b, o \cup b, FALSE, "")
            /\ n \in Known(Loaded) => n \in o \cup b
  /\ \A d \in Disks \cup {Sys} : StartPurge(d) =>
       \E b \in SUBSET Recognised(Loaded, d, {"bus"}) :
            Begun(run', "purge", IF ReadLabel(d) # 0 THEN "destroy" ELSE "wipe", d, "",
                  Loaded, IF disks[d].name = SysPool THEN 0 ELSE ReadLabel(d),
                  Recognised(Loaded, d, {"label", "disk"}) \cup b, b, FALSE, "")
  /\ \A n \in Names : Forget(n) =>
       Begun(run', "forget", "drop", Sys, "", Loaded, Loaded[n].guid, {n}, {n}, FALSE, "")
  /\ \A g \in Guids : ForgetGuid(g) =>
       Begun(run', "forget", "drop", Sys, "", Loaded, g, {}, {}, FALSE, "")
  /\ \A ns \in SUBSET Names : Fix(ns) =>
       Begun(run', "fix", "save", Sys, "", Corrected(Loaded, ns), 0, {}, {}, FALSE, "end")
  /\ \A n \in Names : Retention(n) =>
       Begun(run', "retention", "save", Sys, "", [Loaded EXCEPT ![n].own = TRUE], 0,
             {}, {}, FALSE, "end")
  /\ \A n \in Names, d \in Disks : StartBackup(n, d) =>
       \E s \in {"save", "send"} :
            Begun(run', "backup", s, d, n, [Loaded EXCEPT ![n] = Reconcile(Loaded[n], d)],
                  Loaded[n].guid, {}, {}, TRUE, "send")
<1>1. \A c, s, d, n, x :
        Begun([NoRun EXCEPT !.cmd = "prepare", !.step = s, !.disk = d, !.cfg = c,
                            !.name = n, !.goes = x, !.agreed = x],
              "prepare", s, d, n, c, 0, x, x, FALSE, "")
  BY DEF NoRun, Begun
<1>2. \A c, s, d, g, x, y :
        Begun([NoRun EXCEPT !.cmd = "purge", !.disk = d, !.cfg = c, !.step = s,
                            !.guid = g, !.goes = x, !.agreed = y],
              "purge", s, d, "", c, g, x, y, FALSE, "")
  BY DEF NoRun, Begun
<1>3. \A c, s, g, x :
        Begun([NoRun EXCEPT !.cmd = "forget", !.step = s, !.cfg = c, !.guid = g,
                            !.goes = x, !.agreed = x],
              "forget", s, Sys, "", c, g, x, x, FALSE, "")
  BY DEF NoRun, Begun
<1>4. \A c, s, g :
        Begun([NoRun EXCEPT !.cmd = "forget", !.step = s, !.cfg = c, !.guid = g],
              "forget", s, Sys, "", c, g, {}, {}, FALSE, "")
  BY DEF NoRun, Begun
<1>5. \A c, s, k :
        Begun([NoRun EXCEPT !.cmd = "fix", !.step = s, !.next = k, !.cfg = c],
              "fix", s, Sys, "", c, 0, {}, {}, FALSE, k)
  BY DEF NoRun, Begun
<1>6. \A c, s, k :
        Begun([NoRun EXCEPT !.cmd = "retention", !.step = s, !.next = k, !.cfg = c],
              "retention", s, Sys, "", c, 0, {}, {}, FALSE, k)
  BY DEF NoRun, Begun
<1>7. \A c, s, k, d, n, g :
        Begun([NoRun EXCEPT !.cmd = "backup", !.disk = d, !.name = n, !.guid = g, !.cfg = c,
                            !.tracked = TRUE, !.next = k, !.step = s],
              "backup", s, d, n, c, g, {}, {}, TRUE, k)
  BY DEF NoRun, Begun
<1>8. ASSUME NEW d \in Disks, NEW n \in Names, StartPrepare(d, n)
      PROVE  \E o \in {{}, Recognised(Loaded, d, {"label", "disk"})},
                b \in SUBSET Recognised(Loaded, d, {"bus"}) :
               /\ Begun(run', "prepare", "create", d, n, Loaded, 0, o \cup b, o \cup b, FALSE, "")
               /\ n \in Known(Loaded) => n \in o \cup b
  <2>1. PICK o \in {{}, Recognised(Loaded, d, {"label", "disk"})},
             b \in SUBSET Recognised(Loaded, d, {"bus"}) :
          /\ n \in Known(Loaded) => n \in o \cup b
          /\ run' = [NoRun EXCEPT !.cmd = "prepare", !.step = "create", !.disk = d,
                       !.cfg = Loaded, !.name = n, !.goes = o \cup b, !.agreed = o \cup b]
    BY <1>8, Zenon DEF StartPrepare
  <2> DEFINE x == o \cup b
  <2>2. run' = [NoRun EXCEPT !.cmd = "prepare", !.step = "create", !.disk = d,
                  !.cfg = Loaded, !.name = n, !.goes = x, !.agreed = x]
    BY <2>1, Zenon
  <2> HIDE DEF x
  <2>3. Begun(run', "prepare", "create", d, n, Loaded, 0, x, x, FALSE, "")
    BY <1>1, <2>2, Zenon
  <2> QED
    BY <2>1, <2>3, Zenon DEF x
<1>9. ASSUME NEW d \in Disks \cup {Sys}, StartPurge(d)
      PROVE  \E b \in SUBSET Recognised(Loaded, d, {"bus"}) :
               Begun(run', "purge", IF ReadLabel(d) # 0 THEN "destroy" ELSE "wipe", d, "",
                     Loaded, IF disks[d].name = SysPool THEN 0 ELSE ReadLabel(d),
                     Recognised(Loaded, d, {"label", "disk"}) \cup b, b, FALSE, "")
  <2> DEFINE s == IF ReadLabel(d) # 0 THEN "destroy" ELSE "wipe"
             g == IF disks[d].name = SysPool THEN 0 ELSE ReadLabel(d)
             x(b) == Recognised(Loaded, d, {"label", "disk"}) \cup b
  <2>1. PICK b \in SUBSET Recognised(Loaded, d, {"bus"}) :
          run' = [NoRun EXCEPT !.cmd = "purge", !.disk = d, !.cfg = Loaded, !.step = s,
                    !.guid = g, !.goes = x(b), !.agreed = b]
    BY <1>9, Zenon DEF StartPurge
  <2> HIDE DEF s, g, x
  <2>2. Begun(run', "purge", s, d, "", Loaded, g, x(b), b, FALSE, "")
    BY <1>2, <2>1, Zenon
  <2> QED
    BY <2>2, Zenon DEF s, g, x
<1>10. ASSUME NEW n \in Names, Forget(n)
       PROVE  Begun(run', "forget", "drop", Sys, "", Loaded, Loaded[n].guid, {n}, {n}, FALSE, "")
  <2> DEFINE x == {n}
             g == Loaded[n].guid
  <2>1. run' = [NoRun EXCEPT !.cmd = "forget", !.step = "drop", !.cfg = Loaded,
                  !.guid = g, !.goes = x, !.agreed = x]
    BY <1>10, Zenon DEF Forget
  <2> HIDE DEF x, g
  <2>2. Begun(run', "forget", "drop", Sys, "", Loaded, g, x, x, FALSE, "")
    BY <1>3, <2>1, Zenon
  <2> QED
    BY <2>2, Zenon DEF x, g
<1>11. ASSUME NEW g \in Guids, ForgetGuid(g)
       PROVE  Begun(run', "forget", "drop", Sys, "", Loaded, g, {}, {}, FALSE, "")
  BY <1>4, <1>11, Zenon DEF ForgetGuid
<1>12. ASSUME NEW ns \in SUBSET Names, Fix(ns)
       PROVE  Begun(run', "fix", "save", Sys, "", Corrected(Loaded, ns), 0, {}, {}, FALSE, "end")
  BY <1>5, <1>12, Zenon DEF Fix
<1>13. ASSUME NEW n \in Names, Retention(n)
       PROVE  Begun(run', "retention", "save", Sys, "", [Loaded EXCEPT ![n].own = TRUE], 0,
                    {}, {}, FALSE, "end")
  <2> DEFINE c == [Loaded EXCEPT ![n].own = TRUE]
  <2>1. run' = [NoRun EXCEPT !.cmd = "retention", !.step = "save", !.next = "end", !.cfg = c]
    BY <1>13, Zenon DEF Retention
  <2> HIDE DEF c
  <2>2. Begun(run', "retention", "save", Sys, "", c, 0, {}, {}, FALSE, "end")
    BY <1>6, <2>1, Zenon
  <2> QED
    BY <2>2, Zenon DEF c
<1>14. ASSUME NEW n \in Names, NEW d \in Disks, StartBackup(n, d)
       PROVE  \E s \in {"save", "send"} :
                Begun(run', "backup", s, d, n,
                      [Loaded EXCEPT ![n] = Reconcile(Loaded[n], d)],
                      Loaded[n].guid, {}, {}, TRUE, "send")
  <2> DEFINE c == [Loaded EXCEPT ![n] = Reconcile(Loaded[n], d)]
             s == IF Reconcile(Loaded[n], d) # Loaded[n] THEN "save" ELSE "send"
             g == Loaded[n].guid
  <2>1. run' = [NoRun EXCEPT !.cmd = "backup", !.disk = d, !.name = n, !.guid = g, !.cfg = c,
                  !.tracked = TRUE, !.next = "send", !.step = s]
    BY <1>14, Zenon DEF StartBackup
  <2>2. s \in {"save", "send"}
    OBVIOUS
  <2> HIDE DEF c, s, g
  <2>3. Begun(run', "backup", s, d, n, c, g, {}, {}, TRUE, "send")
    BY <1>7, <2>1, Zenon
  <2> QED
    BY <2>2, <2>3, Zenon DEF c, g
<1> QED
  BY <1>8, <1>9, <1>10, <1>11, <1>12, <1>13, <1>14, Zenon

(* What runs beside a command, and the operator, leave it as it is.        *)
LEMMA Beside ==
  /\ Explores => UNCHANGED <<disks, anchors, left, run, verdict>>
  /\ Edit => UNCHANGED <<disks, anchors, left, run, exp, verdict, excused>>
  /\ Finished \/ UNCHANGED vars => UNCHANGED vars
  /\ \A d \in Disks, s \in {"away", "port", "shown", "hidden"} : Plug(d, s) =>
       Idle /\ UNCHANGED <<reg, anchors, left, run, exp, verdict, excused>>
  /\ \A d \in Disks, m \in {"no", "ro", "rw"} : Import(d, m) =>
       Idle /\ UNCHANGED <<reg, anchors, left, run, exp, verdict, excused>>
BY Zenon DEF Explores, Explore, RemoveStale, AutoRegister, Edit, Finished, vars, Plug, Import

LEMMA NoRunIs ==
  /\ NoRun.cmd = "none" /\ NoRun.step = "" /\ NoRun.disk = Sys /\ NoRun.guid = 0
  /\ NoRun.goes = {} /\ NoRun.agreed = {} /\ NoRun.fails = {} /\ ~NoRun.tracked
BY DEF NoRun

-----------------------------------------------------------------------------
(* The disks: each part of DiskInv after a step.                           *)
LEMMA OrderStep ==
  ASSUME DiskInv, [Next]_vars
  PROVE  Order'
<1>1. Records /\ Labels /\ System /\ Order
  BY DEF DiskInv, TypeOK
<1>2. run' = run => Order'
  <2>1. run' = run /\ Order => Order'
    BY Zenon DEF Order, Idle
  <2> QED
    BY <1>1, <2>1, Zenon
<1>3. run' = NoRun => Order'
  BY NoRunIs DEF Order, Idle, Building, Closing
<1>L. /\ Loaded \in Config
      /\ \A d \in Disks : ReadLabel(d) \in 0..MaxGuids
  BY <1>1, Reads
<1>4. ASSUME NEW d \in Disks, NEW n \in Names, StartPrepare(d, n) PROVE Order'
  <2>1. run'.cmd = "prepare" /\ run'.step = "create" /\ run'.disk = d /\ ~run'.tracked
    BY <1>4, Beginnings, Zenon DEF Begun
  <2> QED
    BY <2>1 DEF Order, Idle
<1>5. ASSUME NEW d \in Disks \cup {Sys}, StartPurge(d) PROVE Order'
  <2>1. /\ run'.cmd = "purge" /\ run'.step = (IF ReadLabel(d) # 0 THEN "destroy" ELSE "wipe")
        /\ run'.disk = d /\ ~run'.tracked
    BY <1>5, Beginnings, Zenon DEF Begun
  <2>2. d \in Disks
    <3>1. ~Protected(d)
      BY <1>5, Zenon DEF StartPurge
    <3>2. disks[Sys].imp # "no" /\ disks[Sys].name # ""
      BY <1>1 DEF System, SysPool
    <3> QED
      BY <1>1, <3>1, <3>2 DEF Protected, System
  <2> QED
    BY <2>1, <2>2 DEF Order, Idle, Closing
<1>6. ASSUME NEW n \in Names, Forget(n) \/ Retention(n) PROVE Order'
  <2>1. /\ \/ run'.cmd = "forget" /\ run'.step = "drop"
           \/ run'.cmd = "retention" /\ run'.step = "save" /\ run'.next = "end"
        /\ ~run'.tracked
    BY <1>6, Beginnings, Zenon DEF Begun
  <2> QED
    BY <2>1 DEF Order, Idle, Closing
<1>7. ASSUME NEW g \in Guids, ForgetGuid(g) PROVE Order'
  <2>1. run'.cmd = "forget" /\ run'.step = "drop" /\ ~run'.tracked
    BY <1>7, Beginnings, Zenon DEF Begun
  <2> QED
    BY <2>1 DEF Order, Idle, Closing
<1>8. ASSUME NEW ns \in SUBSET Names, Fix(ns) PROVE Order'
  <2>1. run'.cmd = "fix" /\ run'.step = "save" /\ run'.next = "end" /\ ~run'.tracked
    BY <1>8, Beginnings, Zenon DEF Begun
  <2> QED
    BY <2>1 DEF Order, Idle, Closing
<1>9. ASSUME NEW n \in Names, NEW d \in Disks, StartBackup(n, d) PROVE Order'
  <2>1. /\ run'.cmd = "backup" /\ run'.step \in {"save", "send"} /\ run'.next = "send"
        /\ run'.disk = d /\ run'.guid = Loaded[n].guid
    BY <1>9, Beginnings, Zenon DEF Begun
  <2>2. Loaded[n].guid \in Guids
    <3>1. n \in Known(Loaded)
      BY <1>9, Zenon DEF StartBackup
    <3> QED
      BY <1>L, <3>1, Entries DEF Entry
  <2> QED
    BY <2>1, <2>2 DEF Order, Idle, Closing
<1>10. CASE Create
  BY <1>1, <1>3, <1>10, Course, Lanes DEF Order, After, Kept, At, Building, Closing, Idle
<1>11. CASE Track
  BY <1>1, <1>3, <1>11, Course, Lanes DEF Order, After, Kept, At, Building, Closing, Idle
<1>12. CASE Send
  BY <1>1, <1>3, <1>12, Course, Lanes DEF Order, After, Kept, At, Building, Closing, Idle
<1>13. CASE SnapKeystore
  BY <1>1, <1>3, <1>13, Course, Lanes DEF Order, After, Kept, At, Building, Closing, Idle
<1>14. CASE SendKeystore
  BY <1>1, <1>3, <1>14, Course, Lanes DEF Order, After, Kept, At, Building, Closing, Idle
<1>15. CASE Export
  BY <1>1, <1>3, <1>15, Course, Lanes DEF Order, After, Kept, At, Building, Closing, Idle
<1>16. CASE Judge
  BY <1>1, <1>3, <1>16, Course, Lanes DEF Order, After, Kept, At, Building, Closing, Idle
<1>17. CASE Readback
  BY <1>1, <1>3, <1>17, Course, Lanes DEF Order, After, Kept, At, Building, Closing, Idle
<1>18. CASE Reread
  BY <1>1, <1>3, <1>18, Course, Lanes DEF Order, After, Kept, At, Building, Closing, Idle
<1>19. CASE Register
  BY <1>1, <1>3, <1>19, Course, Lanes DEF Order, After, Kept, At, Building, Closing, Idle
<1>20. CASE DestroyLabelledPool
  BY <1>1, <1>3, <1>20, Course, Lanes DEF Order, After, Kept, At, Building, Closing, Idle
<1>21. CASE Overwrite
  BY <1>1, <1>3, <1>21, Course, Lanes DEF Order, After, Kept, At, Building, Closing, Idle
<1>22. CASE Zap
  BY <1>1, <1>3, <1>22, Course, Lanes DEF Order, After, Kept, At, Building, Closing, Idle
<1>23. CASE PurgeVerdict
  BY <1>1, <1>3, <1>23, Course, Lanes DEF Order, After, Kept, At, Building, Closing, Idle
<1>24. CASE Drop
  BY <1>1, <1>3, <1>24, Course, Lanes DEF Order, After, Kept, At, Building, Closing, Idle
<1>25. CASE LeftoverPoints
  BY <1>1, <1>3, <1>25, Course, Lanes DEF Order, After, Kept, At, Building, Closing, Idle
<1>26. CASE CloseBackup
  BY <1>1, <1>3, <1>26, Course, Lanes DEF Order, After, Kept, At, Building, Closing, Idle
<1>27. CASE Write
  BY <1>1, <1>3, <1>27, Course, Lanes DEF Order, After, Kept, At, Building, Closing, Idle
<1>28. CASE Replace
  BY <1>1, <1>3, <1>28, Course, Lanes DEF Order, After, Kept, At, Building, Closing, Idle
<1>29. CASE End
  BY <1>1, <1>3, <1>29, Course, Lanes DEF Order, After, Kept, At, Building, Closing, Idle
<1>30. CASE Stop
  BY <1>1, <1>3, <1>30, Course, Lanes DEF Order, After, Kept, At, Building, Closing, Idle
<1>31. run' = run \/ ~(Explores \/ Operator \/ Finished \/ UNCHANGED vars)
  BY Beside, Zenon DEF Operator, vars
<1> QED
  BY <1>2, <1>4, <1>5, <1>6, <1>7, <1>8, <1>9, <1>10, <1>11, <1>12, <1>13, <1>14, <1>15, <1>16, <1>17, <1>18, <1>19, <1>20, <1>21, <1>22, <1>23, <1>24, <1>25, <1>26, <1>27, <1>28, <1>29, <1>30, <1>31, Zenon DEF Next, Prepares, Purges, Registers

LEMMA LabelsStep ==
  ASSUME DiskInv, [Next]_vars
  PROVE  Labels' /\ System'
<1>1. /\ Records /\ Labels /\ System /\ Order /\ Wiping
      /\ run.cmd = "prepare" => run.name \in Names
      /\ spent.guid \in Nat
  BY Reads DEF DiskInv, TypeOK, Prepared
<1>2. /\ \A e \in Disks : disks[e].guid \in Nat
      /\ \A e \in Disks : Same(disks[e], disks'[e]) \/ Makes(e) \/ Wipes(e)
      /\ spent'.guid >= spent.guid /\ spent'.guid \in Nat
  BY <1>1, Reads, Media, Spends, BoundsAssumption DEF Guids
<1>3. \A e \in Disks : /\ Makes(e) => run.name \in Names /\ e = run.disk
                       /\ Wipes(e) => e = run.disk /\ disks[e].imp = "no"
  <2>1. At("create") => run.cmd = "prepare"
    BY <1>1, Lanes DEF At
  <2>2. At("wipe") \/ At("zap") => run.cmd = "purge" /\ run.step # "destroy"
    BY <1>1, Lanes DEF At
  <2> QED
    BY <1>1, <2>1, <2>2 DEF Makes, Wipes, Wiping, Held
<1>4. ASSUME NEW d \in Disks PROVE disks'[d].guid <= spent'.guid
  <2>1. disks[d].guid <= spent.guid
    BY <1>1 DEF Labels
  <2>2. \/ disks'[d].guid = disks[d].guid \/ disks'[d].guid = 0
        \/ disks'[d].guid = spent'.guid
    BY <1>2 DEF Same, Makes, Wipes
  <2> QED
    BY <1>1, <1>2, <2>1, <2>2
<1>5. ASSUME NEW d \in Disks, NEW e \in Disks,
             disks'[d].guid = disks'[e].guid, disks'[d].guid # 0
      PROVE  d = e
  <2>1. CASE Makes(d) \/ Makes(e)
    <3>1. \A x \in Disks : disks[x].guid # spent.guid + 1 /\ spent.guid + 1 # 0
      BY <1>1, <1>2 DEF Labels
    <3> QED
      BY <1>2, <1>3, <1>5, <2>1, <3>1 DEF Makes, Wipes, Same
  <2>2. CASE ~Makes(d) /\ ~Makes(e)
    <3>1. disks'[d].guid = disks[d].guid /\ disks'[e].guid = disks[e].guid
      BY <1>2, <1>5, <2>2 DEF Same, Wipes
    <3> QED
      BY <1>1, <1>5, <3>1 DEF Labels
  <2> QED
    BY <2>1, <2>2
<1>6. ASSUME NEW d \in Disks, disks'[d].guid # 0
      PROVE  disks'[d].name \in Names \cup {SysPool}
  BY <1>1, <1>2, <1>3, <1>6 DEF Labels, Same, Makes, Wipes
<1>7. ASSUME NEW d \in Disks, disks'[d].imp # "no"
      PROVE  disks'[d].table /\ disks'[d].guid # 0
  <2>1. CASE Makes(d)
    BY <1>1, <2>1 DEF Makes
  <2>2. CASE Wipes(d)
    BY <1>3, <1>7, <2>2 DEF Wipes
  <2>3. CASE Same(disks[d], disks'[d]) /\ disks'[d].imp \in {disks[d].imp, "no"}
    BY <1>1, <1>7, <2>3, Zenon DEF Labels, Same
  <2>4. CASE Same(disks[d], disks'[d]) /\ Opens(d)
    BY <2>4, Zenon DEF Same, Opens
  <2> QED
    BY <1>2, <2>1, <2>2, <2>3, <2>4, Media, Zenon
<1>8. Labels'
  BY <1>4, <1>5, <1>6, <1>7 DEF Labels
<1>9. System'
  BY <1>1, Media DEF System
<1> QED
  BY <1>8, <1>9

(* Of two disks with pools of one name, one is imported at most.           *)
LEMMA OneNameStep ==
  ASSUME DiskInv, [Next]_vars
  PROVE  OneName'
<1>1. /\ Records /\ Labels /\ Order /\ Wiping /\ OneName
      /\ run.cmd = "prepare" /\ At("create") => ~Imported(run.name)
      /\ At("readback") => \A d \in Disks : disks[d].imp # "no" /\ disks[d].name = run.name
                                              => d = run.disk
      /\ At("readback") => Held.name = run.name
  BY Lanes DEF DiskInv, TypeOK, Prepared, At, Building
<1>2. /\ At("wipe") \/ At("zap") => run.cmd = "purge" /\ run.step # "destroy"
      /\ At("create") => run.cmd = "prepare"
  BY <1>1, Lanes DEF At
<1>3. SUFFICES ASSUME NEW d \in Disks, NEW e \in Disks, d # e,
                      disks'[d].imp # "no", disks'[e].imp # "no",
                      disks'[d].name = disks'[e].name,
                      disks'[e] = disks[e]
               PROVE  FALSE
  <2>1. PICK w \in Disks : \A x \in Disks \ {w} : disks'[x] = disks[x]
    BY Media
  <2> QED
    BY <1>3, <2>1, Zenon DEF OneName
<1>4. CASE Makes(d)
  BY <1>1, <1>2, <1>3, <1>4 DEF Makes, Imported
<1>5. CASE Wipes(d)
  BY <1>1, <1>2, <1>3, <1>5 DEF Wipes, Wiping, Held
<1>6. CASE Same(disks[d], disks'[d]) /\ disks'[d].imp \in {disks[d].imp, "no"}
  BY <1>1, <1>3, <1>6 DEF OneName, Same
<1>7. CASE Same(disks[d], disks'[d]) /\ Opens(d)
  BY <1>1, <1>3, <1>7 DEF OneName, Same, Opens, Imported, At, Held
<1> QED
  BY <1>4, <1>5, <1>6, <1>7, Media, Zenon

LEMMA WipingStep ==
  ASSUME DiskInv, [Next]_vars
  PROVE  Wiping'
<1>1. Records /\ Labels /\ System /\ Order /\ Wiping
  BY DEF DiskInv, TypeOK
<1>2. SUFFICES ASSUME run'.cmd = "purge" PROVE Wiping'
  BY DEF Wiping
<1>3. Order'
  BY OrderStep
<1>4. ASSUME run.cmd = "purge", run'.disk = run.disk, run'.step # "destroy",
             run.step # "destroy"
      PROVE  Wiping'
  <2>1. run.disk \in Disks /\ Held.imp = "no"
    BY <1>1, <1>4 DEF Order, Wiping
  <2>2. ~Opens(run.disk) /\ ~Makes(run.disk)
    BY <1>1, <1>4, Lanes DEF Opens, Makes, Idle, At, Building
  <2>3. disks'[run.disk].imp = "no"
    BY <2>1, <2>2, Media DEF Held
  <2> QED
    BY <1>4, <2>3 DEF Wiping, Held
<1>5. ASSUME run' = run, disks' = disks PROVE Wiping'
  <2>1. run' = run /\ disks' = disks /\ Wiping => Wiping'
    BY Zenon DEF Wiping, Held, ReadLabel
  <2> QED
    BY <1>1, <1>5, <2>1
<1>6. ASSUME NEW d \in Disks \cup {Sys}, StartPurge(d) PROVE Wiping'
  <2>1. /\ run'.step = (IF ReadLabel(d) # 0 THEN "destroy" ELSE "wipe") /\ run'.disk = d
        /\ disks' = disks
    BY <1>6, Beginnings, Zenon DEF Begun, StartPurge
  <2>2. d \in Disks
    BY <1>2, <1>3, <2>1 DEF Order
  <2>3. ReadLabel(d) = 0 => disks[d].imp = "no"
    BY <1>1, <2>2 DEF Labels, ReadLabel
  <2> QED
    BY <2>1, <2>3 DEF Wiping, Held, ReadLabel
<1>7. CASE DestroyLabelledPool
  <2>1. run.step = "destroy" /\ run'.step = "wipe" /\ run'.disk = run.disk
    BY <1>1, <1>2, <1>7, Course, NoRunIs DEF After, Kept, At
  <2>2. run.disk \in Disks /\ disks \in [Disks \cup {Sys} -> DiskType]
    BY <1>1, <2>1, Lanes DEF Order, Records
  <2>3. ~NotDestroyed
    BY <1>2, NoRunIs, Zenon DEF NotDestroyed, Leave
  <2>4. CASE WipeOnly
    <3>1. disks' = disks /\ Held.imp = "no"
      BY <2>4 DEF WipeOnly, Held
    <3> QED
      BY <2>1, <3>1 DEF Wiping, Held
  <2>5. CASE Destroyed
    <3>1. disks' = [disks EXCEPT ![run.disk] = Turned(@, "no")]
      BY <2>5 DEF Destroyed
    <3>2. disks'[run.disk] = Turned(disks[run.disk], "no") /\ disks[run.disk] \in DiskType
      BY <2>2, <3>1
    <3>3. disks'[run.disk].imp = "no"
      BY <3>2, DiskTurned
    <3> QED
      BY <2>1, <3>3 DEF Wiping, Held
  <2> QED
    BY <1>7, <2>3, <2>4, <2>5, Zenon DEF DestroyLabelledPool
<1>8. CASE Overwrite
  BY <1>1, <1>2, <1>4, <1>8, Course, Lanes DEF After, Kept, At
<1>9. CASE Zap
  BY <1>1, <1>2, <1>4, <1>9, Course, Lanes DEF After, Kept, At
<1>10. CASE PurgeVerdict
  BY <1>1, <1>2, <1>4, <1>10, Course, Lanes, NoRunIs DEF After, Kept, At
<1>11. CASE Drop
  BY <1>1, <1>2, <1>4, <1>11, Course, Lanes DEF After, Kept, At
<1>12. CASE Write
  BY <1>1, <1>2, <1>4, <1>12, Course, Lanes, NoRunIs DEF After, Kept, At
<1>13. CASE Replace
  BY <1>1, <1>2, <1>4, <1>13, Course, Lanes DEF After, Kept, At, Order
<1>14. CASE End \/ Stop
  BY <1>2, <1>14, Course, <1>1, NoRunIs
<1>15. CASE LeftoverPoints \/ CloseBackup
  BY <1>1, <1>2, <1>15, Course, Lanes, NoRunIs DEF After, Kept, At
<1>16. CASE Prepares
  <2>1. ASSUME NEW d \in Disks, NEW n \in Names, StartPrepare(d, n) PROVE FALSE
    BY <1>2, <2>1, Beginnings, Zenon DEF Begun
  <2>2. CASE Create \/ Track \/ Send
    BY <1>1, <1>2, <2>2, Course, Lanes, NoRunIs DEF After, Kept, At, Building
  <2>3. CASE SnapKeystore \/ SendKeystore \/ Export
    BY <1>1, <1>2, <2>3, Course, Lanes, NoRunIs DEF After, Kept, At, Building
  <2>4. CASE Judge \/ Readback
    BY <1>1, <1>2, <2>4, Course, Lanes, NoRunIs DEF After, Kept, At, Building
  <2>5. CASE Reread \/ Register
    BY <1>1, <1>2, <2>5, Course, Lanes, NoRunIs DEF After, Kept, At, Building
  <2> QED
    BY <1>16, <2>1, <2>2, <2>3, <2>4, <2>5, Zenon DEF Prepares
<1>17. /\ \A n \in Names : ~Forget(n) /\ ~Retention(n)
       /\ \A g \in Guids : ~ForgetGuid(g)
       /\ \A ns \in SUBSET Names : ~Fix(ns)
       /\ \A n \in Names, d \in Disks : ~StartBackup(n, d)
  BY <1>2, Beginnings DEF Begun
<1>18. CASE Explores \/ Edit \/ Finished \/ UNCHANGED vars
  BY <1>5, <1>18, Beside, Zenon DEF vars
<1>19. CASE Operator
  <2>1. ASSUME Idle, run' = run PROVE FALSE
    BY <1>2, <2>1 DEF Idle
  <2> QED
    BY <1>18, <1>19, <2>1, Beside, Zenon DEF Operator
<1> QED
  BY <1>6, <1>7, <1>8, <1>9, <1>10, <1>11, <1>12, <1>13, <1>14, <1>15, <1>16, <1>17, <1>18,
     <1>19, Zenon DEF Next, Purges, Registers

LEMMA PreparedStep ==
  ASSUME DiskInv, [Next]_vars
  PROVE  Prepared'
<1>1. /\ Records /\ Labels /\ System /\ Order /\ Prepared
      /\ spent.guid \in Nat /\ MaxGuids \in Nat
  BY Reads, BoundsAssumption DEF DiskInv, TypeOK
<1>2. SUFFICES ASSUME run'.cmd = "prepare" PROVE Prepared'
  BY DEF Prepared
<1>3. ASSUME run.cmd = "prepare", run.step # "create", Kept(run, run'),
             run'.step # "create", run'.guid = run.guid
      PROVE  Prepared'
  <2> DEFINE d == run.disk
  <2>1. /\ d \in Disks /\ run.name \in Names /\ run.guid \in Guids /\ Held.guid = run.guid
        /\ Held.name = run.name /\ Held.table
        /\ \A x \in Disks \cup {Sys} : disks[x].imp # "no" /\ disks[x].name = run.name => x = d
    BY <1>1, <1>3 DEF Order, Prepared
  <2>2. Same(disks[d], disks'[d])
    <3>1. ~Makes(d) /\ ~Wipes(d)
      BY <1>1, <1>3, Lanes DEF Makes, Wipes, At
    <3> QED
      BY <2>1, <3>1, Media
  <2>3. \A x \in (Disks \cup {Sys}) \ {d} : disks'[x] = disks[x]
    BY <1>3, <2>1, Media DEF Idle
  <2>4. Held'.guid = run.guid /\ Held'.name = run.name /\ Held'.table
    BY <1>3, <2>1, <2>2, Zenon DEF Held, Same, Kept
  <2> QED
    BY <1>3, <2>1, <2>3, <2>4 DEF Prepared, Kept
<1>4. ASSUME run' = run, disks' = disks, spent'.guid = spent.guid PROVE Prepared'
  <2>1. run' = run /\ disks' = disks /\ spent'.guid = spent.guid /\ Prepared => Prepared'
    BY Zenon DEF Prepared, Held, Imported
  <2> QED
    BY <1>1, <1>4, <2>1
<1>5. ASSUME NEW d \in Disks, NEW n \in Names, StartPrepare(d, n) PROVE Prepared'
  <2>1. run'.step = "create" /\ run'.disk = d /\ run'.name = n
    BY <1>5, Beginnings, Zenon DEF Begun
  <2>2. /\ disks' = disks /\ ~disks[d].table /\ ~Imported(n) /\ spent.guid < MaxGuids
        /\ ~Create
    BY <1>1, <1>5, Lanes, Zenon DEF StartPrepare, Start, Create, At
  <2>3. spent'.guid = spent.guid
    BY <2>2, Spends
  <2>4. disks[d].imp = "no"
    BY <1>1, <2>2 DEF Labels
  <2> QED
    BY <1>5, <2>1, <2>2, <2>3, <2>4 DEF Prepared, Held, Imported
<1>6. CASE Create
  <2>1. /\ run.cmd = "prepare" /\ run.disk \in Disks /\ run.name \in Names /\ Makes(run.disk)
    BY <1>2, <1>6, Making, NoRunIs
  <2>2. Kept(run, run') /\ run'.guid = spent.guid + 1 /\ run'.step = "track"
    BY <1>1, <1>2, <1>6, Course, NoRunIs DEF After
  <2>3. spent'.guid \in Guids
    BY Spends
  <2>4. /\ Held'.guid = run'.guid /\ Held'.name = run'.name /\ Held'.table
        /\ run'.guid \in Guids
    BY <2>1, <2>2, <2>3, Zenon DEF Makes, Held, Kept
  <2>5. \A x \in (Disks \cup {Sys}) \ {run.disk} : disks'[x] = disks[x]
    BY <2>1, Media DEF Idle
  <2>6. ~Imported(run.name)
    BY <1>1, <2>1 DEF Prepared, Makes, At
  <2> QED
    BY <2>1, <2>2, <2>4, <2>5, <2>6 DEF Prepared, Kept, Imported
<1>7. CASE Track
  BY <1>1, <1>2, <1>3, <1>7, Course, Lanes DEF After, At, Building
<1>8. CASE Send
  BY <1>1, <1>2, <1>3, <1>8, Course, Lanes, NoRunIs DEF After, Kept, At, Building, Order
<1>9. CASE SnapKeystore
  BY <1>1, <1>2, <1>3, <1>9, Course, Lanes, NoRunIs DEF After, Kept, At, Building, Order
<1>10. CASE SendKeystore
  BY <1>1, <1>2, <1>3, <1>10, Course, Lanes, NoRunIs DEF After, Kept, At, Building, Order
<1>11. CASE Export
  BY <1>1, <1>2, <1>3, <1>11, Course, Lanes, NoRunIs DEF After, Kept, At, Building, Order
<1>12. CASE Judge
  BY <1>1, <1>2, <1>3, <1>12, Course, Lanes, NoRunIs DEF After, Kept, At, Building, Order
<1>13. CASE Readback
  BY <1>1, <1>2, <1>3, <1>13, Course, Lanes, NoRunIs DEF After, Kept, At, Building, Order
<1>14. CASE Reread
  BY <1>1, <1>2, <1>3, <1>14, Course, Lanes, NoRunIs DEF After, Kept, At, Building, Order
<1>15. CASE Register
  BY <1>1, <1>2, <1>3, <1>15, Course, Lanes, NoRunIs DEF After, Kept, At, Building, Order
<1>16. CASE Write
  BY <1>1, <1>2, <1>3, <1>16, Course, Lanes, NoRunIs DEF After, Kept, At, Building, Order
<1>17. CASE Replace
  BY <1>1, <1>2, <1>3, <1>17, Course, Lanes, NoRunIs DEF After, Kept, At, Building, Order
<1>18. CASE End \/ Stop
  BY <1>1, <1>2, <1>18, Course, NoRunIs
<1>19. CASE Purges
  <2>1. \A d \in Disks \cup {Sys} : ~StartPurge(d)
    BY <1>2, Beginnings, Zenon DEF Begun
  <2>2. CASE DestroyLabelledPool \/ Overwrite \/ Zap \/ PurgeVerdict
    BY <1>1, <1>2, <2>2, Course, Lanes, NoRunIs DEF After, Kept, At
  <2> QED
    BY <1>19, <2>1, <2>2, Zenon DEF Purges
<1>20. /\ \A n \in Names : ~Forget(n) /\ ~Retention(n)
       /\ \A g \in Guids : ~ForgetGuid(g)
       /\ \A ns \in SUBSET Names : ~Fix(ns)
       /\ \A n \in Names, d \in Disks : ~StartBackup(n, d)
  BY <1>2, Beginnings DEF Begun
<1>21. CASE Drop \/ LeftoverPoints \/ CloseBackup
  BY <1>1, <1>2, <1>21, Course, Lanes, NoRunIs DEF After, Kept, At
<1>22. CASE Explores \/ Edit \/ Finished \/ UNCHANGED vars
  <2>1. run' = run /\ disks' = disks
    BY <1>22, Beside, Zenon DEF vars
  <2>2. ~Create
    BY <1>2, <2>1, Making, NoRunIs DEF Makes, At
  <2> QED
    BY <1>4, <2>1, <2>2, Spends
<1>23. CASE Operator
  <2>1. ASSUME Idle, run' = run PROVE FALSE
    BY <1>2, <2>1 DEF Idle
  <2> QED
    BY <1>22, <1>23, <2>1, Beside, Zenon DEF Operator
<1> QED
  BY <1>5, <1>6, <1>7, <1>8, <1>9, <1>10, <1>11, <1>12, <1>13, <1>14, <1>15, <1>16, <1>17,
     <1>18, <1>19, <1>20, <1>21, <1>22, <1>23, Zenon DEF Next, Prepares, Registers

-----------------------------------------------------------------------------
(* The records: what is read and written of the registry and of explore.   *)
LEMMA ScanIs ==
  ASSUME NEW cfg, NEW blk, blk \subseteq Labelled, NEW x \in Scan(cfg, blk)
  PROVE  \/ \E d \in Labelled, b \in BOOLEAN :
              x = [name |-> disks[d].name, guid |-> disks[d].guid, disk |-> d, dev |-> b]
         \/ \E n \in Known(cfg) : \E d \in Located(cfg[n]) :
              x = [name |-> n, guid |-> cfg[n].guid, disk |-> d, dev |-> TRUE]
<1> DEFINE imported == {d \in Labelled : disks[d].imp # "no"
                                        /\ disks[d].name \notin NamesOf(blk)}
           seen == NamesOf(blk \cup imported)
           L == {[name |-> disks[d].name, guid |-> disks[d].guid, disk |-> d,
                  dev |-> d \in blk] : d \in blk \cup imported}
           R == UNION {{[name |-> n, guid |-> cfg[n].guid, disk |-> d, dev |-> TRUE] :
                          d \in Located(cfg[n])} : n \in Known(cfg) \ seen}
<1>1. Scan(cfg, blk) = L \cup R
  BY Zenon DEF Scan
<1>2. blk \cup imported \subseteq Labelled
  OBVIOUS
<1>3. x \in L => \E d \in Labelled, b \in BOOLEAN :
        x = [name |-> disks[d].name, guid |-> disks[d].guid, disk |-> d, dev |-> b]
  <2>1. \A d : (d \in blk) \in BOOLEAN
    OBVIOUS
  <2> HIDE DEF imported
  <2> QED
    BY <1>2, <2>1, Zenon
<1>4. x \in R => \E n \in Known(cfg) : \E d \in Located(cfg[n]) :
        x = [name |-> n, guid |-> cfg[n].guid, disk |-> d, dev |-> TRUE]
  <2> HIDE DEF seen
  <2> QED
    BY Zenon
<1> HIDE DEF L, R
<1> QED
  BY <1>4, <1>1, <1>3, <1>4

LEMMA Scans ==
  ASSUME Records, Labels, NEW cfg \in Config, NEW blk, blk \subseteq Labelled
  PROVE  Scan(cfg, blk) \subseteq Drive
<1>1. ASSUME NEW d \in Labelled
      PROVE  d \in Disks /\ disks[d].name \in Names /\ disks[d].guid \in Guids
  <2>1. d \in Disks /\ disks[d].guid # 0 /\ disks[d].name # SysPool
    BY <1>1 DEF Labelled, Connected, ReadLabel
  <2>2. disks[d].name \in Names
    BY <2>1 DEF Labels
  <2>3. disks[d].guid \in Guids
    BY <2>1, Reads, BoundsAssumption DEF Guids
  <2> QED
    BY <2>1, <2>2, <2>3
<1>2. ASSUME NEW d \in Labelled, NEW b \in BOOLEAN
      PROVE  [name |-> disks[d].name, guid |-> disks[d].guid, disk |-> d, dev |-> b] \in Drive
  BY <1>1, <1>2, Zenon DEF Drive
<1>3. ASSUME NEW n \in Known(cfg), NEW d \in Located(cfg[n])
      PROVE  [name |-> n, guid |-> cfg[n].guid, disk |-> d, dev |-> TRUE] \in Drive
  <2>1. n \in Names /\ cfg[n].guid \in Guids
    BY Entries DEF Known, Entry
  <2>2. d \in Disks
    BY DEF Located, DiskOf, Connected
  <2>3. TRUE \in BOOLEAN
    OBVIOUS
  <2> QED
    BY <2>1, <2>2, <2>3, Zenon DEF Drive
<1>4. ASSUME NEW x \in Scan(cfg, blk) PROVE x \in Drive
  <2>1. \/ \E d \in Labelled, b \in BOOLEAN :
             x = [name |-> disks[d].name, guid |-> disks[d].guid, disk |-> d, dev |-> b]
        \/ \E n \in Known(cfg) : \E d \in Located(cfg[n]) :
             x = [name |-> n, guid |-> cfg[n].guid, disk |-> d, dev |-> TRUE]
    BY <1>4, ScanIs, Zenon
  <2> QED
    BY <1>2, <1>3, <2>1, Zenon
<1> QED
  BY <1>4

LEMMA Adds ==
  ASSUME NEW cfg \in Config, NEW found \in SUBSET Drive
  PROVE  /\ Added(cfg, News(cfg, found)) \in Config
         /\ \A n \in Names :
              \/ Added(cfg, News(cfg, found))[n] = cfg[n]
              \/ \E d \in News(cfg, found) :
                   /\ d.name = n /\ Added(cfg, News(cfg, found))[n].guid = d.guid
                   /\ Added(cfg, News(cfg, found))[n].id = FoundNames(cfg, d).id
<1> DEFINE news == News(cfg, found)
           C(n) == CHOOSE x \in news : x.name = n
           E(d) == [guid |-> d.guid, id |-> FoundNames(cfg, d).id,
                    box |-> FoundNames(cfg, d).box, own |-> FALSE]
           X(n) == IF \E d \in news : d.name = n THEN E(C(n)) ELSE cfg[n]
<1>1. \A d \in news : d \in Drive /\ d.name \in Names /\ d.guid \in Guids /\ d.disk \in Disks
  BY DEF News, Drive
<1>2. Added(cfg, news) = [n \in Names |-> X(n)]
  BY Zenon DEF Added
<1>3. ASSUME NEW d \in news
      PROVE  FoundNames(cfg, d).id \in Disks \cup {Box, Unknown} /\ FoundNames(cfg, d).box \in BOOLEAN
  <2>1. CASE d.dev
    <3>1. FoundNames(cfg, d) = RegistryNames(d.disk)
      BY <2>1 DEF FoundNames
    <3> QED
      BY <1>1, <3>1, Naming
  <2>2. CASE ~d.dev
    <3> DEFINE i == IF d.name \in Known(cfg) THEN cfg[d.name].id
                    ELSE IF d.guid \in Registered(cfg)
                         THEN (CHOOSE e \in {cfg[n] : n \in Known(cfg)} : e.guid = d.guid).id
                    ELSE Unknown
    <3>1. FoundNames(cfg, d) = [id |-> i, box |-> FALSE]
      BY <2>2, Zenon DEF FoundNames
    <3>2. \A n \in Known(cfg) : cfg[n].id \in Disks \cup {Box, Unknown}
      BY Entries DEF Entry
    <3>3. d.guid \in Registered(cfg) =>
            (CHOOSE e \in {cfg[n] : n \in Known(cfg)} : e.guid = d.guid)
              \in {cfg[n] : n \in Known(cfg)}
      BY Zenon DEF Registered
    <3>4. i \in Disks \cup {Box, Unknown}
      BY <3>2, <3>3
    <3> HIDE DEF i
    <3> QED
      BY <3>1, <3>4
  <2> QED
    BY <2>1, <2>2
<1>4. ASSUME NEW d \in news PROVE E(d) \in Entry /\ E(d).guid = d.guid /\ E(d).id = FoundNames(cfg, d).id
  <2> DEFINE i == FoundNames(cfg, d).id
             b == FoundNames(cfg, d).box
             g == d.guid
  <2>1. i \in Disks \cup {Box, Unknown} /\ b \in BOOLEAN /\ g \in Guids /\ FALSE \in BOOLEAN
    BY <1>1, <1>3
  <2> HIDE DEF i, b, g
  <2>2. [guid |-> g, id |-> i, box |-> b, own |-> FALSE] \in Entry
    BY <2>1, Zenon DEF Entry
  <2>3. /\ [guid |-> g, id |-> i, box |-> b, own |-> FALSE].guid = g
        /\ [guid |-> g, id |-> i, box |-> b, own |-> FALSE].id = i
    OBVIOUS
  <2> QED
    BY <2>2, <2>3 DEF i, b, g
<1> HIDE DEF news, E
<1>5. ASSUME NEW n \in Names
      PROVE  X(n) = cfg[n] \/ \E d \in news : d.name = n /\ X(n) = E(d)
  BY Zenon
<1> HIDE DEF X
<1>6. \A n \in Names : X(n) \in Entry \cup {None}
  BY <1>4, <1>5, Entries
<1>7. Added(cfg, news) \in Config
  BY <1>2, <1>6 DEF Config
<1>8. ASSUME NEW n \in Names
      PROVE  \/ Added(cfg, news)[n] = cfg[n]
             \/ \E d \in news :
                  /\ d.name = n /\ Added(cfg, news)[n].guid = d.guid
                  /\ Added(cfg, news)[n].id = FoundNames(cfg, d).id
  <2>1. Added(cfg, news)[n] = X(n)
    BY <1>2
  <2> QED
    BY <1>4, <1>5, <2>1
<1> QED
  BY <1>7, <1>8 DEF news

LEMMA ExploreStep ==
  ASSUME DiskInv, [Next]_vars
  PROVE  exp' \in ExploreType
<1>1. exp \in ExploreType /\ Records /\ Labels /\ Loaded \in Config
  BY Reads DEF DiskInv, TypeOK, Records
<1>2. /\ exp.cfg \in Config /\ exp.found \in SUBSET Drive /\ exp.blind \in SUBSET Guids
      /\ exp.agreed \in SUBSET Names
  BY <1>1 DEF ExploreType
<1>3. /\ \A s \in {"", "stale", "register"}, c \in Config, f \in SUBSET Drive,
            a \in SUBSET Names :
           [exp EXCEPT !.step = s, !.cfg = c, !.found = f, !.agreed = a] \in ExploreType
      /\ \A s \in {"", "stale", "register"}, c \in Config, a \in SUBSET Names :
           [exp EXCEPT !.step = s, !.cfg = c, !.agreed = a] \in ExploreType
      /\ \A s \in {"", "stale", "register"} : [exp EXCEPT !.step = s] \in ExploreType
  <2>1. \A s \in {"", "stale", "register"}, c \in Config, f \in SUBSET Drive,
           a \in SUBSET Names :
          [exp EXCEPT !.step = s, !.cfg = c, !.found = f, !.agreed = a] \in ExploreType
    BY <1>1, Zenon DEF ExploreType
  <2>2. \A s \in {"", "stale", "register"}, c \in Config, a \in SUBSET Names :
          [exp EXCEPT !.step = s, !.cfg = c, !.agreed = a] \in ExploreType
    BY <1>1, Zenon DEF ExploreType
  <2>3. \A s \in {"", "stale", "register"} : [exp EXCEPT !.step = s] \in ExploreType
    BY <1>1, Zenon DEF ExploreType
  <2> QED
    BY <2>1, <2>2, <2>3, Zenon
<1>4. CASE Explore
  <2>1. PICK blk \in BlkidLists \cup {{}} :
          exp' = [exp EXCEPT !.step = "stale", !.cfg = Loaded,
                             !.found = Scan(Loaded, blk), !.agreed = {}]
    BY <1>4, Zenon DEF Explore
  <2>2. blk \subseteq Labelled
    BY DEF BlkidLists
  <2> DEFINE f == Scan(Loaded, blk)
  <2>3. f \in SUBSET Drive
    BY <1>1, <2>2, Scans
  <2>4. {} \in SUBSET Names
    OBVIOUS
  <2> HIDE DEF f
  <2>5. exp' = [exp EXCEPT !.step = "stale", !.cfg = Loaded, !.found = f, !.agreed = {}]
    BY <2>1 DEF f
  <2> QED
    BY <1>1, <1>3, <2>3, <2>4, <2>5
<1>5. CASE RemoveStale
  <2> DEFINE g == Stale(exp.cfg, exp.found)
             c == Without(exp.cfg, g)
  <2>1. \/ exp' = [exp EXCEPT !.step = "register", !.cfg = c, !.agreed = g]
        \/ exp' = [exp EXCEPT !.step = "register"]
    BY <1>5, Zenon DEF RemoveStale
  <2>2. c \in Config /\ g \in SUBSET Names
    <3>1. g \in SUBSET Names
      BY DEF Stale, Known
    <3>2. c \in Config
      BY <1>2, ConfigEdits
    <3> QED
      BY <3>1, <3>2
  <2> HIDE DEF g, c
  <2>3. "register" \in {"", "stale", "register"}
    OBVIOUS
  <2>4. [exp EXCEPT !.step = "register"] \in ExploreType
    BY <1>3, <2>3
  <2>5. [exp EXCEPT !.step = "register", !.cfg = c, !.agreed = g] \in ExploreType
    BY <1>3, <2>2, <2>3
  <2> QED
    BY <2>1, <2>4, <2>5
<1>6. CASE AutoRegister
  <2> DEFINE c == [n \in Names |-> None]
             b == exp.blind \cup {d.guid : d \in {x \in News(exp.cfg, exp.found) : ~x.dev}}
  <2>1. \/ exp' = [exp EXCEPT !.step = "", !.cfg = c, !.found = {}, !.agreed = {}]
        \/ exp' = [[exp EXCEPT !.step = "", !.cfg = c, !.found = {}, !.agreed = {}]
                      EXCEPT !.blind = b]
    BY <1>6 DEF AutoRegister
  <2>2. c \in Config
    BY <1>2, ConfigEdits
  <2>3. b \in SUBSET Guids
    BY <1>2 DEF News, Drive
  <2>4. {} \in SUBSET Names /\ {} \in SUBSET Drive
    OBVIOUS
  <2> HIDE DEF c, b
  <2>5. [exp EXCEPT !.step = "", !.cfg = c, !.found = {}, !.agreed = {}] \in ExploreType
    BY <1>3, <2>2, <2>4
  <2>6. \A x \in ExploreType : [x EXCEPT !.blind = b] \in ExploreType
    BY <2>3, Zenon DEF ExploreType
  <2> QED
    BY <2>1, <2>5, <2>6, Zenon
<1> QED
  BY <1>1, <1>4, <1>5, <1>6, Touched, Zenon

LEMMA RegStep ==
  ASSUME DiskInv, [Next]_vars
  PROVE  reg' \in [bad : BOOLEAN, cfg : Config]
<1>1. /\ reg \in [bad : BOOLEAN, cfg : Config] /\ run.cfg \in Config
      /\ exp.cfg \in Config /\ exp.found \in SUBSET Drive
  BY DEF DiskInv, TypeOK, Records, RunType, ExploreType
<1>2. \A c \in Config : [bad |-> FALSE, cfg |-> c] \in [bad : BOOLEAN, cfg : Config]
  <2>1. FALSE \in BOOLEAN
    OBVIOUS
  <2> QED
    BY <2>1, Zenon
<1>3. CASE Replace
  BY <1>1, <1>2, <1>3, Zenon DEF Replace
<1>4. CASE RemoveStale
  <2>1. Without(exp.cfg, Stale(exp.cfg, exp.found)) \in Config
    BY <1>1, ConfigEdits
  <2> QED
    BY <1>1, <1>2, <1>4, <2>1, Zenon DEF RemoveStale, Saved
<1>5. CASE AutoRegister
  <2>1. Added(exp.cfg, News(exp.cfg, exp.found)) \in Config
    BY <1>1, Adds
  <2> QED
    BY <1>1, <1>2, <1>5, <2>1, Zenon DEF AutoRegister, Saved
<1>6. CASE Edit
  <2>1. \A b \in BOOLEAN : [reg EXCEPT !.bad = b] \in [bad : BOOLEAN, cfg : Config]
    BY <1>1, Zenon
  <2> DEFINE b == ~reg.bad
  <2>2. b \in BOOLEAN
    OBVIOUS
  <2>3. reg' = [reg EXCEPT !.bad = b]
    BY <1>6, Zenon DEF Edit
  <2> HIDE DEF b
  <2> QED
    BY <2>1, <2>2, <2>3, Zenon
<1> QED
  BY <1>1, <1>3, <1>4, <1>5, <1>6, Touched, Zenon

LEMMA OriginStep ==
  ASSUME DiskInv, [Next]_vars
  PROVE  /\ anchors' \subseteq Guids /\ excused' \subseteq Guids
         /\ left' \subseteq {"point", "keysnap"}
<1>1. /\ Records /\ Order /\ anchors \subseteq Guids /\ excused \subseteq Guids
      /\ left \subseteq {"point", "keysnap"}
      /\ reg.cfg \in Config /\ run.guid \in 0..MaxGuids
  BY DEF DiskInv, TypeOK, Records, RunType
<1>2. ASSUME NEW gs, DropAnchors(gs) PROVE anchors' \subseteq Guids /\ excused' \subseteq Guids
  BY <1>1, <1>2 DEF DropAnchors
<1>3. anchors' \subseteq Guids
  <2>1. Send => run.guid \in Guids
    BY <1>1, Lanes DEF Send, At, Order, DiskInv, Prepared
  <2>2. CASE Send
    BY <1>1, <2>1, <2>2 DEF Send
  <2>3. CASE Judge \/ Readback \/ Reread \/ Register \/ Drop
    BY <1>1, <1>2, <2>3 DEF Judge, Readback, GiveUp, Reread, Register, Drop
  <2> QED
    BY <1>1, <2>2, <2>3, Touched, Zenon
<1>4. excused' \subseteq Guids
  <2>1. {run.guid} \ {0} \subseteq Guids
    BY <1>1, BoundsAssumption DEF Guids
  <2>2. Registered(reg.cfg) \subseteq Guids
    BY <1>1, Entries
  <2>3. CASE Judge \/ Readback \/ Register \/ Drop
    BY <1>1, <1>2, <2>3 DEF Judge, Readback, GiveUp, Register, Drop
  <2>4. CASE Write \/ Stop
    BY <1>1, <2>1, <2>4 DEF Write, Stop
  <2>5. CASE RemoveStale \/ AutoRegister
    BY <1>1, <2>2, <2>5 DEF RemoveStale, AutoRegister, Saved
  <2> QED
    BY <1>1, <2>3, <2>4, <2>5, Touched, Zenon
<1>5. left' \subseteq {"point", "keysnap"}
  <2>1. Send \/ SnapKeystore \/ SendKeystore \/ LeftoverPoints \/ Stop =>
          left' \subseteq left \cup {"point", "keysnap"}
    BY DEF Send, SnapKeystore, SendKeystore, LeftoverPoints, Stop
  <2> QED
    BY <1>1, <2>1, Touched
<1> QED
  BY <1>3, <1>4, <1>5

LEMMA VerdictStep ==
  ASSUME DiskInv, [Next]_vars
  PROVE  verdict' \in Verdict
<1>1. verdict \in Verdict /\ run.disk \in Disks \cup {Sys} /\ run.guid \in 0..MaxGuids
  BY DEF DiskInv, TypeOK, Records, RunType
<1>2. Quiet \in Verdict
  BY BoundsAssumption DEF Quiet, Verdict
<1> DEFINE Saids == {"none", "prepared", "not registered", "not verified", "purged",
                     "incomplete", "backed up", "forgotten", "fixed", "stopped",
                     "refused", "crashed", "aborted"}
<1>3. \A w \in Saids : Say(w) \in Verdict
  BY <1>1 DEF Say, Verdict
<1>4. /\ "not registered" \in Saids /\ "not verified" \in Saids /\ "incomplete" \in Saids
      /\ "stopped" \in Saids /\ "refused" \in Saids /\ "crashed" \in Saids /\ Said \in Saids
  BY DEF Said
<1> HIDE DEF Saids
<1>5. CASE Create \/ Judge \/ Readback \/ Reread \/ DestroyLabelledPool
  BY <1>1, <1>3, <1>4, <1>5, Zenon DEF Create, Judge, Readback, Reread, GiveUp, Leave,
     DestroyLabelledPool, WipeOnly, Destroyed, NotDestroyed
<1>6. CASE PurgeVerdict \/ CloseBackup \/ Write \/ End \/ Stop
  BY <1>1, <1>3, <1>4, <1>6, Zenon DEF PurgeVerdict, CloseBackup, Write, End, Stop, Leave
<1> QED
  BY <1>1, <1>2, <1>5, <1>6, Touched, Zenon

-----------------------------------------------------------------------------
LEMMA FirstNumbers ==
  /\ MaxGuids \in Nat /\ MaxRuns \in Nat /\ MaxFaults \in Nat /\ MaxMoves \in Nat
  /\ 1 \in 0..MaxGuids + 1 /\ 2 \in 0..MaxGuids + 1 /\ MaxGuids + 1 \in 0..MaxGuids + 1
  /\ 1 \in Guids /\ 2 \in Guids
  /\ 0 \in 0..MaxRuns /\ 0 \in 0..MaxFaults /\ 0 \in 0..MaxMoves
<1>1. MaxGuids \in Nat /\ MaxRuns \in Nat /\ MaxFaults \in Nat /\ MaxMoves \in Nat
  BY BoundsAssumption
<1>2. MaxGuids >= 2
  BY BoundsAssumption
<1> QED
  BY <1>1, <1>2 DEF Guids

(* What the first state's disks are made of.                               *)
Seats == {"away", "port", "shown", "hidden"}

LEMMA LayoutFormatted ==
  ASSUME NEW t \in Seats, NEW n \in Names \cup {SysPool, ""}, NEW g \in 0..MaxGuids + 1
  PROVE  Formatted(t, n, g) \in DiskType
<1>1. "no" \in {"no", "ro", "rw"} /\ Whole \in SUBSET Whole /\ TRUE \in BOOLEAN
  OBVIOUS
<1> QED
  BY <1>1, Zenon DEF Formatted, DiskType, Seats

LEMMA LayoutBlank ==
  /\ Blank \in DiskType /\ Blank.guid = 0 /\ Blank.imp = "no"
  /\ \A t \in Seats : /\ [Blank EXCEPT !.seat = t] \in DiskType
                      /\ [Blank EXCEPT !.seat = t].guid = 0
                      /\ [Blank EXCEPT !.seat = t].imp = "no"
<1>1. /\ 0 \in 0..MaxGuids + 1 /\ "" \in Names \cup {SysPool, ""} /\ {} \in SUBSET Whole
      /\ FALSE \in BOOLEAN /\ "away" \in {"away", "port", "shown", "hidden"}
      /\ "no" \in {"no", "ro", "rw"}
  BY BoundsAssumption
<1>2. Blank \in DiskType
  BY <1>1, Zenon DEF Blank, DiskType
<1>3. \A t \in Seats : [Blank EXCEPT !.seat = t] \in DiskType
  BY <1>2, DiskSeat DEF Seats
<1> QED
  BY <1>2, <1>3 DEF Blank

(* What the first state holds: one drive with pool 1 and, on another disk  *)
(* at most, a pool of number 2.                                            *)
LEMMA First ==
  ASSUME Init
  PROVE  /\ OneDisk \in Disks /\ FirstName \in Names
         /\ disks \in [Disks \cup {Sys} -> DiskType] /\ System
         /\ \A d \in Disks :
              /\ disks[d].imp = "no"
              /\ d = OneDisk => disks[d].guid = 1 /\ disks[d].name = FirstName
              /\ d # OneDisk => disks[d].guid = 0 \/ (d = OtherDisk /\ disks[d].guid = 2)
              /\ disks[d].guid # 0 => disks[d].name \in Names \cup {SysPool}
         /\ reg \in [bad : BOOLEAN, cfg : Config] /\ ~reg.bad
         /\ reg.cfg[FirstName].guid = 1 /\ reg.cfg[FirstName].id \in {OneDisk, Box}
         /\ \A n \in Names \ {FirstName} : reg.cfg[n] = None
<1>1. OneDisk \in Disks /\ FirstName \in Names /\ OneDisk # Sys
  BY DisksAssumption, NamesAssumption DEF OneDisk, FirstName
<1>2. PICK sa \in {"away", "port", "hidden"}, sb \in {"away", "port", "shown", "hidden"},
           m \in Names \cup {"", SysPool} :
         /\ ~(sa = "hidden" /\ sb \in {"shown", "hidden"})
         /\ disks = [d \in Disks \cup {Sys} |->
                IF d = Sys THEN [Formatted("port", SysPool, MaxGuids + 1)
                                   EXCEPT !.imp = "rw"]
                ELSE IF d = OneDisk THEN Formatted(sa, FirstName, 1)
                ELSE IF d # OtherDisk THEN Blank
                ELSE IF m = "" THEN [Blank EXCEPT !.seat = sb]
                ELSE Formatted(sb, m, 2)]
  BY Zenon DEF Init
<1>3. 1 \in 0..MaxGuids + 1 /\ 2 \in 0..MaxGuids + 1 /\ MaxGuids + 1 \in 0..MaxGuids + 1
  BY FirstNumbers, Zenon
<1> DEFINE F == Formatted("port", SysPool, MaxGuids + 1)
           S == [F EXCEPT !.imp = "rw"]
           A == Formatted(sa, FirstName, 1)
           B == [Blank EXCEPT !.seat = sb]
           C == Formatted(sb, m, 2)
<1>4. /\ S \in DiskType /\ S.name = SysPool /\ S.guid = MaxGuids + 1 /\ S.imp = "rw"
      /\ A \in DiskType /\ A.name = FirstName /\ A.guid = 1 /\ A.imp = "no"
      /\ B \in DiskType /\ B.guid = 0 /\ B.imp = "no"
      /\ C \in DiskType /\ C.name = m /\ C.guid = 2 /\ C.imp = "no"
      /\ Blank \in DiskType /\ Blank.guid = 0 /\ Blank.imp = "no"
  <2>1. /\ FirstName \in Names \cup {SysPool, ""} /\ SysPool \in Names \cup {SysPool, ""}
        /\ m \in Names \cup {SysPool, ""} /\ "port" \in Seats /\ sa \in Seats /\ sb \in Seats
    BY <1>1, <1>2 DEF Seats
  <2>2. F \in DiskType
    BY <1>3, <2>1, LayoutFormatted, Zenon
  <2>3. S \in DiskType
    <3>1. \A x \in DiskType, t \in {"no", "ro", "rw"} : [x EXCEPT !.imp = t] \in DiskType
      BY Zenon DEF DiskType
    <3>2. "rw" \in {"no", "ro", "rw"}
      OBVIOUS
    <3> HIDE DEF F
    <3> QED
      BY <2>2, <3>1, <3>2, Zenon
  <2>4. S.name = SysPool /\ S.guid = MaxGuids + 1 /\ S.imp = "rw"
    BY DEF Formatted
  <2>5. A \in DiskType
    BY <1>3, <2>1, LayoutFormatted, Zenon
  <2>8. A.name = FirstName /\ A.guid = 1 /\ A.imp = "no" /\ C.name = m /\ C.guid = 2 /\ C.imp = "no"
    BY DEF Formatted
  <2>6. B \in DiskType /\ B.guid = 0 /\ B.imp = "no"
    BY <2>1, LayoutBlank, Zenon
  <2>7. C \in DiskType
    BY <1>3, <2>1, LayoutFormatted, Zenon
  <2> QED
    BY <2>3, <2>4, <2>5, <2>6, <2>7, <2>8, LayoutBlank, Zenon
<1>5. disks = [d \in Disks \cup {Sys} |-> IF d = Sys THEN S ELSE IF d = OneDisk THEN A
                 ELSE IF d # OtherDisk THEN Blank ELSE IF m = "" THEN B ELSE C]
  BY <1>2, Zenon
<1> HIDE DEF S, A, B, C
<1>6. disks \in [Disks \cup {Sys} -> DiskType] /\ System
  BY <1>4, <1>5, DisksAssumption DEF System
<1>7. \A d \in Disks :
        /\ disks[d].imp = "no"
        /\ d = OneDisk => disks[d].guid = 1 /\ disks[d].name = FirstName
        /\ d # OneDisk => disks[d].guid = 0 \/ (d = OtherDisk /\ disks[d].guid = 2)
        /\ disks[d].guid # 0 => disks[d].name \in Names \cup {SysPool}
  <2> SUFFICES ASSUME NEW d \in Disks
               PROVE  /\ disks[d].imp = "no"
                      /\ d = OneDisk => disks[d].guid = 1 /\ disks[d].name = FirstName
                      /\ d # OneDisk => disks[d].guid = 0 \/ (d = OtherDisk /\ disks[d].guid = 2)
                      /\ disks[d].guid # 0 => disks[d].name \in Names \cup {SysPool}
    OBVIOUS
  <2>1. d # Sys /\ d \in Disks \cup {Sys}
    BY DisksAssumption
  <2>2. disks[d] = IF d = OneDisk THEN A
                   ELSE IF d # OtherDisk THEN Blank ELSE IF m = "" THEN B ELSE C
    BY <1>5, <2>1
  <2>3. CASE d = OneDisk
    BY <1>1, <1>4, <2>2, <2>3
  <2>4. CASE d # OneDisk /\ (d # OtherDisk \/ m = "")
    BY <1>4, <2>2, <2>4
  <2>5. CASE d # OneDisk /\ d = OtherDisk /\ m # ""
    <3>1. m \in Names \cup {SysPool}
      BY <1>2, <2>5
    <3>2. disks[d] = C
      BY <2>2, <2>5
    <3> QED
      BY <1>4, <2>5, <3>1, <3>2
  <2> QED
    BY <2>3, <2>4, <2>5
<1>8. PICK id \in {OneDisk, Box}, box \in BOOLEAN :
         reg = [bad |-> FALSE,
                cfg |-> [n \in Names |->
                     IF n # FirstName THEN None
                     ELSE [guid |-> 1, id |-> id, box |-> box, own |-> FALSE]]]
  BY Zenon DEF Init
<1> DEFINE E == [guid |-> 1, id |-> id, box |-> box, own |-> FALSE]
           c == [n \in Names |-> IF n # FirstName THEN None ELSE E]
<1>9. E \in Entry
  <2>1. 1 \in Guids
    BY FirstNumbers, Zenon
  <2>2. id \in Disks \cup {Box, Unknown} /\ FALSE \in BOOLEAN
    BY <1>1, <1>8
  <2> QED
    BY <1>8, <2>1, <2>2, Zenon DEF Entry
<1>10. E.guid = 1 /\ E.id = id
  OBVIOUS
<1>11. reg = [bad |-> FALSE, cfg |-> c] /\ FALSE \in BOOLEAN
  BY <1>8, Zenon
<1> HIDE DEF E
<1>12. c \in Config
  BY <1>9 DEF Config
<1>13. c[FirstName] = E /\ \A n \in Names \ {FirstName} : c[n] = None
  BY <1>1
<1> HIDE DEF c
<1>14. reg \in [bad : BOOLEAN, cfg : Config] /\ reg.cfg = c /\ ~reg.bad
  <2>1. [bad |-> FALSE, cfg |-> c] \in [bad : BOOLEAN, cfg : Config]
    BY <1>11, <1>12, Zenon
  <2> QED
    BY <1>11, <2>1
<1> QED
  BY <1>1, <1>6, <1>7, <1>8, <1>10, <1>13, <1>14

LEMMA DiskInit ==
  ASSUME Init
  PROVE  DiskInv
<1>2. 2 \in Guids /\ 1 \in Guids /\ 0 \in 0..MaxRuns /\ 0 \in 0..MaxFaults /\ 0 \in 0..MaxMoves
  BY FirstNumbers, Zenon
<1>3. /\ anchors = {1} /\ left = {} /\ run = NoRun /\ verdict = Quiet /\ excused = {}
      /\ spent = [runs |-> 0, faults |-> 0, moves |-> 0, guid |-> 2]
      /\ exp = [step |-> "", cfg |-> [n \in Names |-> None], found |-> {},
                agreed |-> {}, blind |-> {}]
  BY DEF Init
<1>4. run \in RunType
  BY <1>3, NoRunType
<1>5. exp \in ExploreType
  <2> DEFINE c == [n \in Names |-> None]
  <2>1. c \in Config
    BY DEF Config
  <2>2. "" \in {"", "stale", "register"} /\ {} \in SUBSET Drive /\ {} \in SUBSET Names
        /\ {} \in SUBSET Guids
    OBVIOUS
  <2>3. exp = [step |-> "", cfg |-> c, found |-> {}, agreed |-> {}, blind |-> {}]
    BY <1>3, Zenon
  <2> HIDE DEF c
  <2>4. [step |-> "", cfg |-> c, found |-> {}, agreed |-> {}, blind |-> {}] \in ExploreType
    BY <2>1, <2>2, Zenon DEF ExploreType
  <2> QED
    BY <2>3, <2>4
<1>6. verdict \in Verdict
  <2>1. Quiet \in Verdict
    BY BoundsAssumption DEF Quiet, Verdict
  <2> QED
    BY <1>3, <2>1
<1>7. spent \in [runs : 0..MaxRuns, faults : 0..MaxFaults, moves : 0..MaxMoves, guid : Guids]
  BY <1>2, <1>3, Zenon
<1>8. anchors \subseteq Guids /\ excused \subseteq Guids /\ left \subseteq {"point", "keysnap"}
  BY <1>2, <1>3
<1>9. Records
  BY <1>4, <1>5, <1>6, <1>7, <1>8, First, Zenon DEF Records
<1>10. spent.guid = 2
  BY <1>3
<1>11. OneName /\ Labels
  BY <1>10, First DEF OneName, Labels
<1>12. NoRun.cmd = "none" /\ NoRun.step = "" /\ NoRun.tracked = FALSE
  BY DEF NoRun
<1>13. Order /\ Prepared /\ Wiping
  BY <1>3, <1>12 DEF Order, Prepared, Wiping, Idle, Closing, Building
<1> QED
  BY <1>9, <1>11, <1>13, First DEF DiskInv, TypeOK

LEMMA DiskStep ==
  ASSUME DiskInv, [Next]_vars
  PROVE  DiskInv'
<1>1. Records'
  BY Media, RegStep, OriginStep, RunStep, ExploreStep, VerdictStep, Spends, Zenon DEF Records
<1> QED
  BY <1>1, OneNameStep, LabelsStep, OrderStep, PreparedStep, WipingStep, Zenon
     DEF DiskInv, TypeOK

LEMMA Disciplined == Spec => []DiskInv
<1>1. Init => DiskInv
  BY DiskInit
<1>2. DiskInv /\ [Next]_vars => DiskInv'
  BY DiskStep
<1> QED
  BY <1>1, <1>2, PTL DEF Spec

(* Types, and that two pools of one name are never imported together:      *)
(* prepare, purge, backup and the operator each look for an imported pool  *)
(* of the name before they import one (identity.py, zfs.pool_imported).    *)
THEOREM Types == Spec => []TypeOK
<1>1. DiskInv => TypeOK
  BY DEF DiskInv
<1> QED
  BY <1>1, Disciplined, PTL

(* No disk loses its labels while a pool is imported from it, the running  *)
(* system's least of all, whatever explore and hand edits do beside the    *)
(* command (identity.py protected_disks, purge.py _destroy_labelled_pool). *)
THEOREM Under == Spec => NotUnder
<1>1. ASSUME DiskInv, [Next]_vars, NEW d \in DOMAIN disks, disks'[d].guid # disks[d].guid
      PROVE  disks[d].imp = "no"
  <2>1. Records /\ Order /\ Prepared /\ Wiping /\ DOMAIN disks = Disks \cup {Sys}
    BY <1>1 DEF DiskInv, TypeOK, Records
  <2>2. d \in Disks
    BY <1>1, <2>1, Media
  <2>3. Makes(d) \/ Wipes(d)
    BY <1>1, <2>2, Media DEF Same
  <2>4. Makes(d) => run.cmd = "prepare" /\ d = run.disk /\ run.step = "create"
    BY <2>1, Lanes DEF Makes, At
  <2>5. Wipes(d) => run.cmd = "purge" /\ d = run.disk /\ run.step # "destroy"
    BY <2>1, Lanes DEF Wipes, At
  <2> QED
    BY <2>1, <2>3, <2>4, <2>5 DEF Prepared, Wiping, Held
<1>2. DiskInv /\ [Next]_vars =>
        [\A d \in DOMAIN disks : disks'[d].guid # disks[d].guid => disks[d].imp = "no"]_vars
  BY <1>1, Zenon
<1> QED
  BY <1>2, Disciplined, PTL DEF Spec, NotUnder

-----------------------------------------------------------------------------
(* The registry: who may take a step, and what a step of a command keeps.  *)
Starting ==
    \/ \E d \in Disks, n \in Names : StartPrepare(d, n)
    \/ \E d \in Disks \cup {Sys} : StartPurge(d)
    \/ \E n \in Names : Forget(n) \/ Retention(n)
    \/ \E g \in Guids : ForgetGuid(g)
    \/ \E ns \in SUBSET Names \ {{}} : Fix(ns)
    \/ \E n \in Names, d \in Disks : StartBackup(n, d)

PrepareSteps == \/ Create \/ Track \/ SnapKeystore \/ SendKeystore \/ Export
                \/ Judge \/ Readback \/ Reread \/ Register
PurgeSteps == DestroyLabelledPool \/ Overwrite \/ Zap \/ PurgeVerdict
SharedSteps == \/ Send \/ Drop \/ LeftoverPoints \/ CloseBackup \/ Write \/ Replace
               \/ End \/ Stop
Working == PrepareSteps \/ PurgeSteps \/ SharedSteps

Moving == \/ \E d \in Disks, s \in {"away", "port", "shown", "hidden"} : Plug(d, s)
          \/ \E d \in Disks, m \in {"no", "ro", "rw"} : Import(d, m)

LEMMA Kinds ==
  ASSUME [Next]_vars
  PROVE  Starting \/ Working \/ Explores \/ Moving \/ Edit \/ UNCHANGED vars
BY Zenon DEF Next, Prepares, Purges, Registers, Operator, Finished, Starting, Working,
   PrepareSteps, PurgeSteps, SharedSteps, Moving

LEMMA Turns ==
  ASSUME Overlap = FALSE, DiskInv, Lone
  PROVE  /\ Starting =>
              /\ Idle /\ exp.step = "" /\ ~reg.bad /\ Loaded = reg.cfg /\ verdict' = Quiet
              /\ UNCHANGED <<reg, anchors, left, exp, excused>>
              /\ spent'.guid = spent.guid
         /\ Working =>
              /\ ~Idle /\ exp.step = "" /\ ~reg.bad /\ UNCHANGED exp
              /\ run' = NoRun \/ Kept(run, run')
         /\ Explores =>
              /\ Idle /\ UNCHANGED <<disks, anchors, left, run, verdict>>
              /\ ~reg.bad /\ Loaded = reg.cfg
         /\ Moving => /\ Idle /\ exp.step = ""
                      /\ UNCHANGED <<reg, anchors, left, run, exp, verdict, excused>>
         /\ Edit => /\ Idle /\ exp.step = "" /\ reg'.cfg = reg.cfg
                    /\ UNCHANGED <<disks, anchors, left, run, exp, verdict, excused>>
<1>1. /\ Records /\ Order /\ (Idle \/ exp.step = "")
      /\ ~Idle \/ exp.step # "" => ~reg.bad
  BY DEF DiskInv, TypeOK, Lone
<1>2. Starting => /\ Idle /\ exp.step = "" /\ ~reg.bad /\ verdict' = Quiet
                  /\ UNCHANGED <<reg, anchors, left, exp, excused>>
                  /\ spent' = [spent EXCEPT !.runs = @ + 1]
  BY Zenon DEF Starting, StartPrepare, StartPurge, Forget, Retention, ForgetGuid, Fix, StartBackup,
     Start, CheckRegistry
<1>3. \A s : [spent EXCEPT !.runs = s].guid = spent.guid
  BY DEF Records
<1>4. Starting => spent'.guid = spent.guid /\ Loaded = reg.cfg
  BY <1>2, <1>3, Zenon DEF Loaded
<1>5. Working => ~Idle
  BY <1>1, Lanes, Zenon DEF Working, PrepareSteps, PurgeSteps, SharedSteps, Create, Track, Send, SnapKeystore,
     SendKeystore, Export, Judge, Readback, Reread, Register, DestroyLabelledPool, Overwrite, Zap,
     PurgeVerdict, Drop, LeftoverPoints, CloseBackup, Write, Replace, End, Stop, At
<1>6. Working => UNCHANGED exp
  BY Zenon DEF Working, PrepareSteps, PurgeSteps, SharedSteps, Create, Track, Send, SnapKeystore,
     SendKeystore, Export, Judge, Readback, Reread, Register, DestroyLabelledPool, Overwrite, Zap,
     PurgeVerdict, Drop, LeftoverPoints, CloseBackup, Write, Replace, End, Stop, GiveUp
<1>7. Working => run' = NoRun \/ Kept(run, run')
  BY <1>1, Course, Zenon DEF Working, PrepareSteps, PurgeSteps, SharedSteps, After
<1>8. Explores => /\ Idle /\ ~reg.bad /\ UNCHANGED <<disks, anchors, left, run, verdict>>
  BY <1>1, Beside, Zenon DEF Explores, Explore, RemoveStale, AutoRegister, CheckRegistry
<1>9. Moving => /\ Idle /\ exp.step = ""
                /\ UNCHANGED <<reg, anchors, left, run, exp, verdict, excused>>
  BY Zenon DEF Moving, Plug, Import
<1>10. Edit => /\ Idle /\ exp.step = "" /\ reg'.cfg = reg.cfg
               /\ UNCHANGED <<disks, anchors, left, run, exp, verdict, excused>>
  <2>1. \A b : [reg EXCEPT !.bad = b].cfg = reg.cfg
    BY <1>1 DEF Records
  <2> QED
    BY <2>1, Zenon DEF Edit
<1> QED
  BY <1>1, <1>2, <1>4, <1>5, <1>6, <1>7, <1>8, <1>9, <1>10, Zenon DEF Loaded

LEMMA LoneStep ==
  ASSUME Overlap = FALSE, DiskInv, Lone, [Next]_vars
  PROVE  Lone'
<1>1. Idle => run.cmd = "none" /\ NoRun.cmd = "none"
  BY NoRunIs DEF Idle
<1>2. CASE Starting
  BY <1>2, Turns DEF Lone
<1>3. CASE Working
  <2>1. ~Idle /\ exp.step = "" /\ ~reg.bad /\ exp' = exp
    BY <1>3, Turns
  <2>2. ~reg'.bad
    <3>1. \A c : ~[bad |-> FALSE, cfg |-> c].bad
      OBVIOUS
    <3>2. UNCHANGED reg \/ Replace
      BY <1>3, <2>1, Touched, Turns, Zenon DEF RemoveStale, AutoRegister, Explores
    <3> QED
      BY <2>1, <3>1, <3>2, Zenon DEF Replace
  <2> QED
    BY <2>1, <2>2 DEF Lone
<1>4. CASE Explores
  <2>1. Idle /\ ~reg.bad /\ run' = run
    BY <1>4, Turns
  <2>2. \A c : ~[bad |-> FALSE, cfg |-> c].bad
    OBVIOUS
  <2>3. ~reg'.bad
    BY <1>4, <2>1, <2>2, Zenon DEF Explores, Explore, RemoveStale, AutoRegister, Saved
  <2> QED
    BY <2>1, <2>3, Zenon DEF Lone, Idle
<1>5. CASE Moving \/ Edit \/ UNCHANGED vars
  <2>1. Idle \/ UNCHANGED vars
    BY <1>5, Turns
  <2>2. CASE UNCHANGED vars
    BY <2>2 DEF Lone, Idle, vars
  <2>3. CASE Moving \/ Edit
    BY <2>3, Turns DEF Lone, Idle
  <2> QED
    BY <1>5, <2>2, <2>3
<1> QED
  BY <1>2, <1>3, <1>4, <1>5, Kinds, Zenon

(* What entries say of disks outlives a step on the disks, ...             *)
LEMMA SoundDisks ==
  ASSUME DiskInv, [Next]_vars, NEW cfg \in Config, NEW b,
         Believable(cfg, disks, spent.guid, b)
  PROVE  Believable(cfg, disks', spent'.guid, b)
<1>1. /\ Labels /\ spent.guid \in Nat /\ spent'.guid \in Nat /\ spent'.guid >= spent.guid
      /\ \A d \in Disks : disks[d].guid \in Nat
  <2>1. spent'.guid >= spent.guid /\ spent'.guid \in Nat
    BY Spends, BoundsAssumption DEF Guids
  <2> QED
    BY <2>1, Reads, BoundsAssumption DEF DiskInv, TypeOK
<1>2. \A n \in Names : cfg[n].guid \in Nat
  <2>1. \A n \in Names : cfg[n].guid = 0 \/ cfg[n].guid \in Guids
    BY Entries
  <2>2. \A g \in Guids : g \in Nat
    BY BoundsAssumption DEF Guids
  <2> QED
    BY <2>1, <2>2
<1>3. \A n \in Names : cfg[n].guid <= spent'.guid
  BY <1>1, <1>2 DEF Believable
<1>4. ASSUME NEW n \in Names, NEW d \in Disks, cfg[n].guid # 0, disks'[d].guid = cfg[n].guid
      PROVE  disks[d].guid = cfg[n].guid /\ disks'[d].name = disks[d].name
  <2>1. ~Makes(d)
    BY <1>1, <1>2, <1>4 DEF Makes, Believable
  <2>2. Same(disks[d], disks'[d]) \/ Wipes(d)
    BY <2>1, Media
  <2> QED
    BY <1>4, <2>2 DEF Same, Wipes
<1> QED
  BY <1>3, <1>4 DEF Believable

(* ... and what commands and explore write in them: nothing, the names of  *)
(* the disk that the entry's pool was read on, or a pool that was.         *)
LEMMA Edited ==
  ASSUME Records, Labels, NEW c \in Config, NEW e \in Config, NEW b,
         Believable(c, disks, spent.guid, b),
         \A n \in Names :
            \/ e[n].guid = 0
            \/ /\ e[n].guid = c[n].guid
               /\ \/ e[n].id = c[n].id
                  \/ \A d \in Disks : disks[d].guid = c[n].guid => e[n].id \notin Disks \ {d}
            \/ \E d \in Disks :
                 /\ disks[d].guid = e[n].guid /\ disks[d].name = n
                 /\ e[n].id \in Disks \ {d} => e[n].guid \in b
  PROVE  Believable(e, disks, spent.guid, b)
<1>1. spent.guid \in Nat /\ \A d \in Disks : disks[d].guid <= spent.guid
  BY Reads DEF Labels
<1> DEFINE Old(n) == /\ e[n].guid = c[n].guid
                     /\ \/ e[n].id = c[n].id
                        \/ \A d \in Disks : disks[d].guid = c[n].guid => e[n].id \notin Disks \ {d}
           New(n, d) == /\ disks[d].guid = e[n].guid /\ disks[d].name = n
                        /\ e[n].id \in Disks \ {d} => e[n].guid \in b
<1>2. \A n \in Names : e[n].guid = 0 \/ Old(n) \/ \E d \in Disks : New(n, d)
  OBVIOUS
<1>3. \A n \in Names : e[n].guid <= spent.guid
  BY <1>1, <1>2 DEF Believable
<1>4. ASSUME NEW n \in Names, NEW d \in Disks, e[n].guid # 0, disks[d].guid = e[n].guid
      PROVE  disks[d].name = n /\ (e[n].id \in Disks \ {d} => e[n].guid \in b)
  <2>1. CASE Old(n)
    BY <1>4, <2>1 DEF Believable
  <2>2. ASSUME NEW x \in Disks, New(n, x)
        PROVE  disks[d].name = n /\ (e[n].id \in Disks \ {d} => e[n].guid \in b)
    <3>1. x = d
      BY <1>4, <2>2 DEF Labels
    <3> QED
      BY <2>2, <3>1
  <2> QED
    BY <1>2, <1>4, <2>1, <2>2
<1>5. ASSUME NEW m \in Names, NEW n \in Names, e[m].guid = e[n].guid, e[m].guid # 0
      PROVE  m = n
  <2>1. ASSUME NEW d \in Disks, disks[d].guid = e[m].guid PROVE m = n
    BY <1>4, <1>5, <2>1
  <2>2. CASE Old(m) /\ Old(n)
    <3>1. c[m].guid = c[n].guid /\ c[m].guid # 0
      BY <1>5, <2>2
    <3> HIDE DEF Old, New
    <3> QED
      BY <3>1 DEF Believable
  <2> QED
    BY <1>2, <1>5, <2>1, <2>2
<1> QED
  BY <1>3, <1>4, <1>5 DEF Believable

LEMMA SoundWithout ==
  ASSUME Records, Labels, NEW c \in Config, NEW ns, NEW b,
         Believable(c, disks, spent.guid, b)
  PROVE  /\ Believable(Without(c, ns), disks, spent.guid, b)
         /\ \A n \in Names : Without(c, ns)[n] = IF n \in ns THEN None ELSE c[n]
         /\ \A n \in Names : n \in ns => Without(c, ns)[n].guid = 0
<1> DEFINE e == Without(c, ns)
<1>1. e \in Config /\ \A n \in Names : e[n] = IF n \in ns THEN None ELSE c[n]
  BY ConfigEdits DEF Without
<1>2. None.guid = 0
  BY DEF None
<1> HIDE DEF e
<1>3. Believable(e, disks, spent.guid, b)
  BY <1>1, <1>2, Edited
<1> QED
  BY <1>1, <1>2, <1>3 DEF e

(* What a step makes of the copy and of the file.                          *)
LEMMA Copies ==
  ASSUME Overlap = FALSE, DiskInv, Lone, [Next]_vars
  PROVE  /\ Starting =>
              /\ run'.cfg \in Config /\ reg' = reg
              /\ \A n \in Names :
                   \/ run'.cfg[n] = reg.cfg[n]
                   \/ /\ reg.cfg[n] \in Entry
                      /\ \/ run'.cfg[n] = [reg.cfg[n] EXCEPT !.own = TRUE]
                         \/ \E d \in DiskOf(reg.cfg[n].guid) :
                              run'.cfg[n] = Reconcile(reg.cfg[n], d)
         /\ Working =>
              /\ \/ run' = NoRun \/ run'.cfg = run.cfg
                 \/ Drop /\ run'.cfg = Without(run.cfg, run.goes)
                 \/ /\ Register
                    /\ \E own \in BOOLEAN :
                         run'.cfg = [Without(run.cfg, run.goes) EXCEPT ![run.name] =
                            [guid |-> run.guid, id |-> RegistryNames(run.disk).id,
                             box |-> RegistryNames(run.disk).box, own |-> own]]
              /\ reg' = reg \/ (Replace /\ reg'.cfg = run.cfg)
<1>1. /\ Records /\ Labels /\ Order /\ Loaded \in Config /\ run' \in RunType /\ reg.cfg \in Config
  BY Reads, RunStep DEF DiskInv, TypeOK, Records
<1>2. run'.cfg \in Config
  BY <1>1 DEF RunType
<1>3. CASE Starting
  <2>1. Loaded = reg.cfg /\ reg' = reg
    BY <1>3, Turns
  <2>2. \A n \in Names : reg.cfg[n] \in Entry \/ reg.cfg[n] = None
    BY <1>1, Entries
  <2> DEFINE OK(n) == \/ run'.cfg[n] = reg.cfg[n]
                      \/ /\ reg.cfg[n] \in Entry
                         /\ \/ run'.cfg[n] = [reg.cfg[n] EXCEPT !.own = TRUE]
                            \/ \E d \in DiskOf(reg.cfg[n].guid) :
                                 run'.cfg[n] = Reconcile(reg.cfg[n], d)
  <2>3. ASSUME run'.cfg = reg.cfg PROVE \A n \in Names : OK(n)
    BY <2>3, Zenon
  <2>4. ASSUME NEW d \in Disks, NEW n \in Names, StartPrepare(d, n) PROVE run'.cfg = reg.cfg
    BY <2>1, <2>4, Beginnings, Zenon DEF Begun
  <2>5. ASSUME NEW d \in Disks \cup {Sys}, StartPurge(d) PROVE run'.cfg = reg.cfg
    BY <2>1, <2>5, Beginnings, Zenon DEF Begun
  <2>6. ASSUME NEW n \in Names, Forget(n) PROVE run'.cfg = reg.cfg
    BY <2>1, <2>6, Beginnings, Zenon DEF Begun
  <2>7. ASSUME NEW g \in Guids, ForgetGuid(g) PROVE run'.cfg = reg.cfg
    BY <2>1, <2>7, Beginnings, Zenon DEF Begun
  <2>8. ASSUME NEW ns \in SUBSET Names, Fix(ns) PROVE \A n \in Names : OK(n)
    <3>1. run'.cfg = Corrected(reg.cfg, ns) /\ ns \in SUBSET Known(reg.cfg)
      BY <2>1, <2>8, Beginnings, Zenon DEF Begun, Fix
    <3>2. \A n \in ns : reg.cfg[n] \in Entry
      BY <1>1, <3>1, Entries
    <3> QED
      BY <1>1, <3>1, <3>2, CorrectedType
  <2>9. ASSUME NEW n \in Names, Retention(n) PROVE \A m \in Names : OK(m)
    <3>1. run'.cfg = [reg.cfg EXCEPT ![n].own = TRUE] /\ n \in Known(reg.cfg)
      BY <2>1, <2>9, Beginnings, Zenon DEF Begun, Retention
    <3>2. reg.cfg[n] \in Entry
      BY <1>1, <3>1, Entries
    <3> QED
      BY <1>1, <3>1, <3>2 DEF Config
  <2>10. ASSUME NEW n \in Names, NEW d \in Disks, StartBackup(n, d) PROVE \A m \in Names : OK(m)
    <3>1. /\ run'.cfg = [reg.cfg EXCEPT ![n] = Reconcile(reg.cfg[n], d)]
          /\ n \in Known(reg.cfg) /\ d \in DiskOf(reg.cfg[n].guid)
      <4>1. n \in Known(Loaded) /\ d \in DiskOf(Loaded[n].guid)
        BY <2>10, Zenon DEF StartBackup
      <4>2. run'.cfg = [Loaded EXCEPT ![n] = Reconcile(Loaded[n], d)]
        BY <2>10, Beginnings, Zenon DEF Begun
      <4> QED
        BY <2>1, <4>1, <4>2
    <3>2. reg.cfg[n] \in Entry
      BY <1>1, <3>1, Entries
    <3> QED
      BY <1>1, <3>1, <3>2 DEF Config
  <2>11. \A n \in Names : OK(n)
    BY <1>3, <2>3, <2>4, <2>5, <2>6, <2>7, <2>8, <2>9, <2>10, Zenon DEF Starting
  <2>12. ~Working
    BY <1>3, Turns
  <2> QED
    BY <1>2, <2>1, <2>11, <2>12
<1>4. CASE Working
  <2>1. \A c : [bad |-> FALSE, cfg |-> c].cfg = c
    OBVIOUS
  <2>2. reg' = reg \/ (Replace /\ reg'.cfg = run.cfg)
    <3>1. ~Explores /\ ~Edit
      BY <1>4, Turns
    <3>2. Replace => reg'.cfg = run.cfg
      BY <2>1 DEF Replace
    <3>3. reg' = reg \/ Replace \/ RemoveStale \/ AutoRegister \/ Edit
      BY Touched, Zenon
    <3>4. ~RemoveStale /\ ~AutoRegister
      BY <3>1, Zenon DEF Explores
    <3> QED
      BY <3>1, <3>2, <3>3, <3>4, Zenon
  <2>3. PrepareSteps => \/ run' = NoRun \/ run'.cfg = run.cfg \/ Register
    BY <1>1, Course, Zenon DEF After, PrepareSteps
  <2>4. PurgeSteps => run' = NoRun \/ run'.cfg = run.cfg
    BY <1>1, Course, Zenon DEF After, PurgeSteps
  <2>5. SharedSteps => run' = NoRun \/ run'.cfg = run.cfg \/ Drop
    BY <1>1, Course, Zenon DEF After, SharedSteps
  <2>6. Drop => run'.cfg = Without(run.cfg, run.goes)
    BY <1>1, Course, Zenon DEF After
  <2>7. Register => \E own \in BOOLEAN :
                      run'.cfg = [Without(run.cfg, run.goes) EXCEPT ![run.name] =
                            [guid |-> run.guid, id |-> RegistryNames(run.disk).id,
                             box |-> RegistryNames(run.disk).box, own |-> own]]
    BY <1>1, Course, Zenon DEF After
  <2>8. ~Starting
    BY <1>4, Turns
  <2> QED
    BY <1>4, <2>2, <2>3, <2>4, <2>5, <2>6, <2>7, <2>8, Zenon DEF Working
<1> QED
  BY <1>3, <1>4

LEMMA Blinds ==
  ASSUME Overlap = FALSE, DiskInv, Lone, [Next]_vars
  PROVE  exp.blind \subseteq exp'.blind
<1>1. exp \in ExploreType
  BY DEF DiskInv, TypeOK, Records
<1>3. ASSUME Explore PROVE exp'.blind = exp.blind
  <2>1. PICK blk : exp' = [exp EXCEPT !.step = "stale", !.cfg = Loaded,
                             !.found = Scan(Loaded, blk), !.agreed = {}]
    BY <1>3, Zenon DEF Explore
  <2> DEFINE f == Scan(Loaded, blk)
             c == Loaded
  <2> HIDE DEF f, c
  <2>2. [exp EXCEPT !.step = "stale", !.cfg = c, !.found = f, !.agreed = {}].blind = exp.blind
    BY <1>1 DEF ExploreType
  <2> QED
    BY <2>1, <2>2 DEF f, c
<1>4. ASSUME RemoveStale PROVE exp'.blind = exp.blind
  <2> DEFINE gone == Stale(exp.cfg, exp.found)
             c == Without(exp.cfg, gone)
  <2>1. \/ exp' = [exp EXCEPT !.step = "register", !.cfg = c, !.agreed = gone]
        \/ exp' = [exp EXCEPT !.step = "register"]
    BY <1>4, Zenon DEF RemoveStale
  <2> HIDE DEF gone, c
  <2> QED
    BY <1>1, <2>1 DEF ExploreType
<1>5. AutoRegister => exp.blind \subseteq exp'.blind
  <2> DEFINE done == [exp EXCEPT !.step = "", !.cfg = [n \in Names |-> None],
                                 !.found = {}, !.agreed = {}]
             more == {d.guid : d \in {x \in News(exp.cfg, exp.found) : ~x.dev}}
  <2>1. AutoRegister => exp' = done \/ exp' = [done EXCEPT !.blind = @ \cup more]
    BY Zenon DEF AutoRegister
  <2>2. done.blind = exp.blind
    BY <1>1 DEF ExploreType
  <2>3. \A b : [done EXCEPT !.blind = b].blind = b
    BY <1>1 DEF ExploreType
  <2> HIDE DEF done, more
  <2>4. [done EXCEPT !.blind = @ \cup more] = [done EXCEPT !.blind = done.blind \cup more]
    OBVIOUS
  <2> QED
    BY <2>1, <2>2, <2>3, <2>4
<1> QED
  BY <1>3, <1>4, <1>5, Touched

LEMMA EntriesSoundStep ==
  ASSUME Overlap = FALSE, DiskInv, Lone, EntriesSound, Scanned, Prepared, [Next]_vars
  PROVE  EntriesSound'
<1>1. /\ Records /\ Labels /\ Order /\ reg.cfg \in Config /\ run.cfg \in Config
      /\ Believable(reg.cfg, disks, spent.guid, exp.blind)
      /\ ~Idle => Believable(run.cfg, disks, spent.guid, exp.blind)
  BY DEF DiskInv, TypeOK, Records, RunType, EntriesSound, Sound
<1>2. \A c \in Config : Believable(c, disks, spent.guid, exp.blind) =>
                          Believable(c, disks', spent'.guid, exp.blind)
  BY SoundDisks, Zenon
<1>3. CASE Starting
  <2>1. /\ run'.cfg \in Config /\ reg' = reg /\ exp' = exp
        /\ \A n \in Names :
             \/ run'.cfg[n] = reg.cfg[n]
             \/ /\ reg.cfg[n] \in Entry
                /\ \/ run'.cfg[n] = [reg.cfg[n] EXCEPT !.own = TRUE]
                   \/ \E d \in DiskOf(reg.cfg[n].guid) : run'.cfg[n] = Reconcile(reg.cfg[n], d)
    BY <1>3, Copies, Turns
  <2> DEFINE c == run'.cfg
  <2> HIDE DEF c
  <2>2. Believable(c, disks, spent.guid, exp.blind)
    <3>1. ASSUME NEW n \in Names
          PROVE  /\ c[n].guid = reg.cfg[n].guid
                 /\ \/ c[n].id = reg.cfg[n].id
                    \/ \A x \in Disks : disks[x].guid = reg.cfg[n].guid => c[n].id \notin Disks \ {x}
      <4>1. CASE c[n] = reg.cfg[n]
        BY <4>1
      <4>2. CASE reg.cfg[n] \in Entry /\ c[n] = [reg.cfg[n] EXCEPT !.own = TRUE]
        BY <4>2 DEF Entry
      <4>3. ASSUME reg.cfg[n] \in Entry, NEW d \in DiskOf(reg.cfg[n].guid),
                   c[n] = Reconcile(reg.cfg[n], d)
            PROVE  /\ c[n].guid = reg.cfg[n].guid
                   /\ \/ c[n].id = reg.cfg[n].id
                      \/ \A x \in Disks : disks[x].guid = reg.cfg[n].guid => c[n].id \notin Disks \ {x}
        <5>1. d \in Disks /\ disks[d].guid = reg.cfg[n].guid /\ reg.cfg[n].guid # 0
          <6>1. reg.cfg[n].guid # 0
            BY <4>3, BoundsAssumption DEF Entry, Guids
          <6> QED
            BY <4>3, <6>1 DEF DiskOf, Connected, ReadLabel
        <5>2. c[n].guid = reg.cfg[n].guid /\ c[n].id \in {reg.cfg[n].id, RegistryNames(d).id}
          BY <4>3, <5>1, Reconciled
        <5>3. \A x \in Disks : disks[x].guid = reg.cfg[n].guid => x = d
          BY <1>1, <5>1 DEF Labels
        <5> QED
          BY <5>1, <5>2, <5>3, Naming
      <4> QED
        BY <2>1, <4>1, <4>2, <4>3, Zenon DEF c
    <3> QED
      BY <1>1, <2>1, <3>1, Edited DEF c
  <2>3. Believable(c, disks', spent'.guid, exp'.blind) /\ Believable(reg'.cfg, disks', spent'.guid, exp'.blind)
    BY <1>1, <1>2, <2>1, <2>2, Zenon DEF c
  <2> QED
    BY <2>3, Zenon DEF EntriesSound, Sound, c
<1>4. CASE Working
  <2>1. ~Idle /\ exp' = exp
    BY <1>4, Turns
  <2>2. Believable(reg'.cfg, disks', spent'.guid, exp'.blind)
    BY <1>1, <1>2, <1>4, <2>1, Copies
  <2>3. run' = NoRun \/ Believable(run'.cfg, disks, spent.guid, exp.blind)
    <3>1. CASE run' = NoRun \/ run'.cfg = run.cfg
      BY <1>1, <2>1, <3>1
    <3>2. CASE Drop /\ run'.cfg = Without(run.cfg, run.goes)
      BY <1>1, <2>1, <3>2, SoundWithout
    <3>3. ASSUME NEW own \in BOOLEAN, Register,
                 run'.cfg = [Without(run.cfg, run.goes) EXCEPT ![run.name] =
                            [guid |-> run.guid, id |-> RegistryNames(run.disk).id,
                             box |-> RegistryNames(run.disk).box, own |-> own]]
          PROVE  Believable(run'.cfg, disks, spent.guid, exp.blind)
      <4> DEFINE c == Without(run.cfg, run.goes)
                 e == [guid |-> run.guid, id |-> RegistryNames(run.disk).id,
                       box |-> RegistryNames(run.disk).box, own |-> own]
      <4>1. c \in Config /\ Believable(c, disks, spent.guid, exp.blind)
        BY <1>1, <2>1, ConfigEdits, SoundWithout, Zenon
      <4>2. /\ run.disk \in Disks /\ disks[run.disk].guid = run.guid
            /\ disks[run.disk].name = run.name /\ run.name \in Names
        BY <1>1, <3>3, Lanes DEF Register, At, Building, Order, Prepared, Held
      <4>3. run'.cfg \in Config
        BY RunStep DEF RunType
      <4>4. run'.cfg = [c EXCEPT ![run.name] = e] /\ e.guid = run.guid /\ e.id = RegistryNames(run.disk).id
        BY <3>3
      <4> HIDE DEF c, e
      <4>5. run'.cfg[run.name] = e /\ \A n \in Names \ {run.name} : run'.cfg[n] = c[n]
        BY <4>1, <4>2, <4>4 DEF Config
      <4>6. e.id \in Disks => e.id = run.disk
        BY <4>2, <4>4, Naming
      <4>7. ASSUME NEW n \in Names
            PROVE  \/ run'.cfg[n] = c[n]
                   \/ \E d \in Disks :
                        /\ disks[d].guid = run'.cfg[n].guid /\ disks[d].name = n
                        /\ run'.cfg[n].id \in Disks \ {d} => run'.cfg[n].guid \in exp.blind
        BY <4>2, <4>4, <4>5, <4>6
      <4> QED
        BY <1>1, <4>1, <4>3, <4>7, Edited
    <3> QED
      BY <1>4, <3>1, <3>2, <3>3, Copies, Zenon
  <2>4. run'.cfg \in Config
    BY RunStep DEF RunType
  <2> DEFINE c == run'.cfg
  <2> HIDE DEF c
  <2>5. run' = NoRun \/ Believable(c, disks', spent'.guid, exp'.blind)
    BY <1>2, <2>1, <2>3, <2>4, Zenon DEF c
  <2> QED
    BY <2>2, <2>5, NoRunIs DEF EntriesSound, Sound, Idle, c
<1>5. CASE Explores
  <2>1. Idle /\ run' = run /\ disks' = disks
    BY <1>5, Turns
  <2>2. spent'.guid = spent.guid
    <3>1. ~Create
      BY <1>1, <2>1, Lanes DEF Create, At
    <3> QED
      BY <3>1, Spends
  <2>3. Believable(reg.cfg, disks, spent.guid, exp'.blind)
    BY <1>1, Blinds DEF Believable
  <2>4. CASE reg' = reg
    BY <2>1, <2>2, <2>3, <2>4 DEF EntriesSound, Sound, Idle
  <2>5. CASE RemoveStale /\ reg' # reg
    <3>1. exp.cfg = reg.cfg
      BY <2>5 DEF RemoveStale, Scanned
    <3>2. \E ns : reg'.cfg = Without(reg.cfg, ns)
      <4>1. \A c : [bad |-> FALSE, cfg |-> c].cfg = c
        OBVIOUS
      <4> QED
        BY <2>5, <3>1, <4>1, Zenon DEF RemoveStale, Saved
    <3>3. Believable(reg'.cfg, disks, spent.guid, exp'.blind)
      BY <1>1, <2>3, <3>2, SoundWithout
    <3> QED
      BY <2>1, <2>2, <3>3, Zenon DEF EntriesSound, Sound, Idle
  <2>6. CASE AutoRegister /\ reg' # reg
    <3> DEFINE news == News(exp.cfg, exp.found)
               c == Added(exp.cfg, news)
               done == [exp EXCEPT !.step = "", !.cfg = [n \in Names |-> None],
                                   !.found = {}, !.agreed = {}]
    <3>1. /\ exp.cfg = reg.cfg
          /\ \A d \in exp.found : disks[d.disk].guid = d.guid /\ disks[d.disk].name = d.name
      BY <2>6 DEF AutoRegister, Scanned
    <3>2. reg' = [bad |-> FALSE, cfg |-> c] /\ exp' = [done EXCEPT !.blind = @ \cup {d.guid : d \in {x \in news : ~x.dev}}]
      BY <2>6, Zenon DEF AutoRegister, Saved
    <3>3. exp.found \in SUBSET Drive /\ exp \in ExploreType
      BY <1>1 DEF Records, ExploreType
    <3>4. \A d \in news : ~d.dev => d.guid \in exp'.blind
      <4>1. done.blind = exp.blind /\ \A b : [done EXCEPT !.blind = b].blind = b
        BY <3>3 DEF ExploreType
      <4> DEFINE more == {d.guid : d \in {x \in news : ~x.dev}}
      <4>2. \A d \in news : ~d.dev => d.guid \in more
        OBVIOUS
      <4>4. exp' = [done EXCEPT !.blind = @ \cup more]
        BY <3>2, Zenon
      <4> HIDE DEF more, done, news
      <4>5. exp' = [done EXCEPT !.blind = done.blind \cup more]
        BY <4>4
      <4>3. exp'.blind = done.blind \cup more
        BY <4>1, <4>5
      <4> QED
        BY <4>2, <4>3
    <3>5. /\ c \in Config
          /\ \A n \in Names :
               \/ c[n] = reg.cfg[n]
               \/ \E d \in news : d.name = n /\ c[n].guid = d.guid /\ c[n].id = FoundNames(reg.cfg, d).id
      <4>1. exp.cfg \in Config
        BY <3>3 DEF ExploreType
      <4>2. /\ Added(exp.cfg, News(exp.cfg, exp.found)) \in Config
            /\ \A n \in Names :
                 \/ Added(exp.cfg, News(exp.cfg, exp.found))[n] = exp.cfg[n]
                 \/ \E d \in News(exp.cfg, exp.found) :
                      /\ d.name = n /\ Added(exp.cfg, News(exp.cfg, exp.found))[n].guid = d.guid
                      /\ Added(exp.cfg, News(exp.cfg, exp.found))[n].id = FoundNames(exp.cfg, d).id
        BY <3>3, <4>1, Adds, Zenon
      <4> QED
        BY <3>1, <4>2
    <3>6. \A d \in news : /\ d \in exp.found /\ d.disk \in Disks
                          /\ d.dev => FoundNames(reg.cfg, d) = RegistryNames(d.disk)
      BY <3>3 DEF News, Drive, FoundNames
    <3> HIDE DEF c, news
    <3>7. ASSUME NEW d \in news
          PROVE  /\ d.disk \in Disks /\ disks[d.disk].guid = d.guid /\ disks[d.disk].name = d.name
                 /\ FoundNames(reg.cfg, d).id \in Disks \ {d.disk} => d.guid \in exp'.blind
      <4>1. d.disk \in Disks /\ disks[d.disk].guid = d.guid /\ disks[d.disk].name = d.name
        BY <3>1, <3>6
      <4>2. d.dev => FoundNames(reg.cfg, d).id \notin Disks \ {d.disk}
        BY <3>6, Naming
      <4> QED
        BY <3>4, <4>1, <4>2
    <3>8. ASSUME NEW n \in Names
          PROVE  \/ c[n] = reg.cfg[n]
                 \/ \E d \in Disks :
                      /\ disks[d].guid = c[n].guid /\ disks[d].name = n
                      /\ c[n].id \in Disks \ {d} => c[n].guid \in exp'.blind
      BY <3>5, <3>7
    <3>9. Believable(c, disks, spent.guid, exp'.blind)
      BY <1>1, <2>3, <3>5, <3>8, Edited
    <3>10. reg'.cfg = c
      BY <3>2
    <3> QED
      BY <2>1, <2>2, <3>9, <3>10, Zenon DEF EntriesSound, Sound, Idle
  <2>7. reg' = reg \/ RemoveStale \/ AutoRegister
    BY <1>5, Zenon DEF Explores, Explore
  <2> QED
    BY <2>4, <2>5, <2>6, <2>7
<1>6. CASE Moving \/ Edit \/ UNCHANGED vars
  <2>1. reg'.cfg = reg.cfg /\ run' = run /\ exp' = exp
    BY <1>6, Turns DEF vars
  <2>2. Believable(reg'.cfg, disks', spent'.guid, exp'.blind)
    BY <1>1, <1>2, <2>1
  <2>3. ~Idle => Believable(run'.cfg, disks', spent'.guid, exp'.blind)
    BY <1>1, <1>2, <2>1
  <2> QED
    BY <2>1, <2>2, <2>3, Zenon DEF EntriesSound, Sound, Idle
<1> QED
  BY <1>3, <1>4, <1>5, <1>6, Kinds, Zenon

LEMMA ScannedStep ==
  ASSUME Overlap = FALSE, DiskInv, Lone, EntriesSound, Scanned, [Next]_vars
  PROVE  Scanned'
<1>1. /\ Records /\ Labels /\ exp \in ExploreType /\ reg.cfg \in Config
      /\ Believable(reg.cfg, disks, spent.guid, exp.blind)
  BY DEF DiskInv, TypeOK, Records, EntriesSound, Sound
<1>2. ASSUME Explore PROVE Scanned'
  <2>0. Idle /\ disks' = disks /\ Loaded = reg.cfg /\ reg' = reg
    BY <1>2, Turns DEF Explores, Explore
  <2>1. PICK blk \in BlkidLists \cup {{}} :
           exp' = [exp EXCEPT !.step = "stale", !.cfg = Loaded,
                             !.found = Scan(Loaded, blk), !.agreed = {}]
    BY <1>2, Zenon DEF Explore
  <2> DEFINE f == Scan(reg.cfg, blk)
             c == reg.cfg
  <2>2. blk \subseteq Labelled
    BY <2>1 DEF BlkidLists
  <2>3. ASSUME NEW x \in f PROVE disks[x.disk].guid = x.guid /\ disks[x.disk].name = x.name
    <3>1. ASSUME NEW d \in Labelled, NEW b \in BOOLEAN,
                 x = [name |-> disks[d].name, guid |-> disks[d].guid, disk |-> d, dev |-> b]
          PROVE  disks[x.disk].guid = x.guid /\ disks[x.disk].name = x.name
      BY <3>1
    <3>2. ASSUME NEW n \in Known(reg.cfg), NEW d \in Located(reg.cfg[n]),
                 x = [name |-> n, guid |-> reg.cfg[n].guid, disk |-> d, dev |-> TRUE]
          PROVE  disks[x.disk].guid = x.guid /\ disks[x.disk].name = x.name
      <4>1. n \in Names /\ reg.cfg[n].guid # 0
        BY <1>1, Entries DEF Known
      <4>2. d \in Disks /\ disks[d].guid = reg.cfg[n].guid
        BY <4>1 DEF Located, DiskOf, Connected, ReadLabel
      <4>3. disks[d].name = n
        BY <1>1, <4>1, <4>2 DEF Believable
      <4> QED
        BY <3>2, <4>2, <4>3
    <3> QED
      <4>1. \/ \E d \in Labelled, b \in BOOLEAN :
                x = [name |-> disks[d].name, guid |-> disks[d].guid, disk |-> d, dev |-> b]
            \/ \E n \in Known(reg.cfg) : \E d \in Located(reg.cfg[n]) :
                x = [name |-> n, guid |-> reg.cfg[n].guid, disk |-> d, dev |-> TRUE]
        BY <2>2, <2>3, ScanIs
      <4> QED
        BY <3>1, <3>2, <4>1, Zenon
  <2>4. exp' = [exp EXCEPT !.step = "stale", !.cfg = c, !.found = f, !.agreed = {}]
    BY <2>0, <2>1
  <2> HIDE DEF f
  <2>5. exp'.cfg = reg.cfg /\ exp'.found = f
    BY <1>1, <2>4 DEF ExploreType
  <2> QED
    BY <2>0, <2>3, <2>5 DEF Scanned
<1>3. ASSUME RemoveStale PROVE Scanned'
  <2>1. Idle /\ disks' = disks /\ exp.cfg = reg.cfg
    BY <1>3, Turns DEF Explores, Scanned, RemoveStale
  <2> DEFINE gone == Stale(exp.cfg, exp.found)
             c == Without(exp.cfg, gone)
  <2>2. \/ /\ exp' = [exp EXCEPT !.step = "register", !.cfg = c, !.agreed = gone]
           /\ reg' = [bad |-> FALSE, cfg |-> c]
        \/ exp' = [exp EXCEPT !.step = "register"] /\ reg' = reg
    BY <1>3, Zenon DEF RemoveStale, Saved
  <2> HIDE DEF gone, c
  <2>3. exp'.cfg = reg'.cfg /\ exp'.found = exp.found
    <3>1. CASE /\ exp' = [exp EXCEPT !.step = "register", !.cfg = c, !.agreed = gone]
               /\ reg' = [bad |-> FALSE, cfg |-> c]
      <4>1. exp'.cfg = c /\ exp'.found = exp.found
        BY <1>1, <3>1 DEF ExploreType
      <4>2. reg'.cfg = c
        BY <3>1
      <4> QED
        BY <4>1, <4>2
    <3>2. CASE exp' = [exp EXCEPT !.step = "register"] /\ reg' = reg
      BY <1>1, <2>1, <3>2 DEF ExploreType
    <3> QED
      BY <2>2, <3>1, <3>2
  <2>4. exp.step # ""
    BY <1>3 DEF RemoveStale
  <2> QED
    BY <2>1, <2>3, <2>4 DEF Scanned
<1>4. ASSUME AutoRegister PROVE Scanned'
  <2> DEFINE done == [exp EXCEPT !.step = "", !.cfg = [n \in Names |-> None],
                                 !.found = {}, !.agreed = {}]
  <2>1. exp' = done \/ \E b : exp' = [done EXCEPT !.blind = b]
    <3> DEFINE more == {d.guid : d \in {x \in News(exp.cfg, exp.found) : ~x.dev}}
    <3>1. exp' = done \/ exp' = [done EXCEPT !.blind = @ \cup more]
      BY <1>4, Zenon DEF AutoRegister
    <3> HIDE DEF more, done
    <3> QED
      BY <3>1
  <2>2. exp'.step = ""
    BY <1>1, <2>1 DEF ExploreType
  <2> QED
    BY <2>2 DEF Scanned
<1>5. CASE Starting \/ Working
  BY <1>5, Turns DEF Scanned
<1>6. CASE Moving \/ Edit
  BY <1>6, Turns DEF Scanned
<1>7. CASE UNCHANGED vars
  BY <1>7 DEF Scanned, vars
<1> QED
  BY <1>2, <1>3, <1>4, <1>5, <1>6, <1>7, Kinds, Zenon DEF Explores

(* A command reads each entry's pool from the registry, and its steps      *)
(* keep the pool it is about.                                              *)
LEMMA CopyGuids ==
  ASSUME Overlap = FALSE, DiskInv, Lone, [Next]_vars, Starting
  PROVE  /\ \A n \in Names : run'.cfg[n].guid = reg.cfg[n].guid
         /\ run'.cfg \in Config /\ reg' = reg
<1>1. Records /\ Labels /\ reg.cfg \in Config
  BY DEF DiskInv, TypeOK, Records
<1>2. /\ run'.cfg \in Config /\ reg' = reg
      /\ \A n \in Names :
           \/ run'.cfg[n] = reg.cfg[n]
           \/ /\ reg.cfg[n] \in Entry
              /\ \/ run'.cfg[n] = [reg.cfg[n] EXCEPT !.own = TRUE]
                 \/ \E d \in DiskOf(reg.cfg[n].guid) : run'.cfg[n] = Reconcile(reg.cfg[n], d)
  BY Copies
<1>3. ASSUME NEW e \in Entry, NEW g, NEW d \in DiskOf(g) PROVE Reconcile(e, d).guid = e.guid
  BY Reconciled DEF DiskOf, Connected
<1>4. ASSUME NEW n \in Names PROVE run'.cfg[n].guid = reg.cfg[n].guid
  <2>1. CASE run'.cfg[n] = reg.cfg[n]
    BY <2>1
  <2>2. CASE reg.cfg[n] \in Entry /\ run'.cfg[n] = [reg.cfg[n] EXCEPT !.own = TRUE]
    BY <2>2 DEF Entry
  <2>3. CASE /\ reg.cfg[n] \in Entry
             /\ \E d \in DiskOf(reg.cfg[n].guid) : run'.cfg[n] = Reconcile(reg.cfg[n], d)
    BY <1>3, <2>3
  <2> QED
    BY <1>2, <2>1, <2>2, <2>3, Zenon
<1> QED
  BY <1>2, <1>4

LEMMA Paths ==
  ASSUME DiskInv, Working
  PROVE  /\ run' = NoRun \/ run'.guid = run.guid \/ Create
         /\ Saving => Write \/ Replace \/ Stop
         /\ run.step = "end" => run' = NoRun
<1>1. Records /\ Order
  BY DEF DiskInv, TypeOK
<1>2. PrepareSteps => run' = NoRun \/ run'.guid = run.guid \/ Create
  BY <1>1, Course, Zenon DEF After, PrepareSteps
<1>3. PurgeSteps => run' = NoRun \/ run'.guid = run.guid
  BY <1>1, Course, Zenon DEF After, PurgeSteps
<1>4. SharedSteps => run' = NoRun \/ run'.guid = run.guid
  BY <1>1, Course, Zenon DEF After, SharedSteps
<1>5. Saving => ~PrepareSteps /\ ~PurgeSteps
  BY <1>1, Course DEF PrepareSteps, PurgeSteps, Saving, At
<1>6. Saving => ~Send /\ ~Drop /\ ~LeftoverPoints /\ ~CloseBackup /\ ~End
  BY <1>1, Course DEF Saving, At
<1>7. run.step = "end" => ~PrepareSteps /\ ~PurgeSteps
  BY <1>1, Course DEF PrepareSteps, PurgeSteps, At
<1>8. run.step = "end" => ~Send /\ ~Drop /\ ~LeftoverPoints /\ ~CloseBackup /\ ~Write /\ ~Replace
  BY <1>1, Course DEF At
<1>9. End \/ Stop => run' = NoRun
  BY <1>1, Course, Zenon
<1> QED
  BY <1>2, <1>3, <1>4, <1>5, <1>6, <1>7, <1>8, <1>9, Zenon DEF Working, SharedSteps

LEMMA CopiedStep ==
  ASSUME Overlap = FALSE, DiskInv, Lone, Copied, [Next]_vars
  PROVE  Copied'
<1>1. /\ Records /\ Labels /\ Order /\ reg.cfg \in Config /\ run.cfg \in Config
      /\ Prepared
  BY DEF DiskInv, TypeOK, Records, RunType
<1> SUFFICES ASSUME ~Idle' PROVE Copied'
  BY DEF Copied
<1>2. run' # NoRun
  BY NoRunIs DEF Idle
<1>3. CASE Starting
  <2>1. \A n \in Names : run'.cfg[n].guid = reg'.cfg[n].guid
    BY <1>3, CopyGuids
  <2>2. run'.cmd \in {"backup", "fix", "retention"} => run'.goes = {}
    BY <1>3, Beginnings, Zenon DEF Starting, Begun
  <2>3. run'.cmd = "backup" => run'.guid \in Registered(reg'.cfg)
    <3>1. Loaded = reg.cfg /\ reg' = reg
      BY <1>3, Turns
    <3>2. ASSUME NEW n \in Names, NEW d \in Disks, StartBackup(n, d)
          PROVE  run'.guid \in Registered(reg'.cfg)
      <4>1. run'.guid = Loaded[n].guid /\ n \in Known(Loaded)
        BY <3>2, Beginnings, Zenon DEF Begun, StartBackup
      <4> QED
        BY <3>1, <4>1 DEF Registered
    <3> QED
      BY <1>3, <3>2, Beginnings, Zenon DEF Starting, Begun
  <2> QED
    BY <2>1, <2>2, <2>3 DEF Copied
<1>4. CASE Working
  <2>1. /\ ~Idle /\ Kept(run, run') /\ (reg' = reg \/ (Replace /\ reg'.cfg = run.cfg))
        /\ run'.guid = run.guid \/ Create
    BY <1>2, <1>4, Turns, Copies, Paths
  <2>2. /\ \A n \in Names :
             \/ run.cfg[n].guid = reg.cfg[n].guid
             \/ Saving /\ n \in run.goes /\ run.cfg[n].guid = 0
             \/ Saving /\ run.cmd = "prepare" /\ n = run.name /\ run.cfg[n].guid = run.guid
        /\ run.cmd \in {"backup", "fix", "retention"} => run.goes = {}
        /\ run.cmd = "backup" => run.guid \in Registered(reg.cfg)
    BY <2>1 DEF Copied
  <2>3. run'.cmd = run.cmd /\ run'.goes = run.goes /\ run'.name = run.name
    BY <2>1 DEF Kept
  <2>4. run.cmd = "backup" => \A n \in Names : run.cfg[n].guid = reg.cfg[n].guid
    BY <2>2
  <2>5. run'.cmd = "backup" => run'.guid \in Registered(reg'.cfg)
    <3>1. Create => run.cmd = "prepare"
      BY <1>1, Lanes DEF Create, At, Building
    <3>2. run.cmd = "backup" => (run.guid \in Registered(run.cfg) <=> run.guid \in Registered(reg.cfg))
      BY <1>1, <2>4, Entries
    <3> QED
      BY <2>1, <2>2, <2>3, <3>1, <3>2
  <2>6. \A n \in Names :
             \/ run'.cfg[n].guid = reg'.cfg[n].guid
             \/ Saving' /\ n \in run.goes /\ run'.cfg[n].guid = 0
             \/ Saving' /\ run.cmd = "prepare" /\ n = run.name /\ run'.cfg[n].guid = run'.guid
    <3>1. CASE Replace
      <4>1. run'.cfg = run.cfg /\ reg'.cfg = run.cfg
        <5>1. \A c : [bad |-> FALSE, cfg |-> c].cfg = c
          OBVIOUS
        <5>2. run'.cfg = run.cfg
          BY <1>1, <3>1, Course, Zenon DEF After
        <5> QED
          BY <3>1, <5>1, <5>2 DEF Replace
      <4> QED
        BY <4>1
    <3>2. CASE Write
      <4>1. /\ run'.cfg = run.cfg /\ reg' = reg /\ run'.guid = run.guid
            /\ run'.step = "replace" \/ run.cmd = "backup"
        <5>1. run'.cfg = run.cfg /\ run'.guid = run.guid /\ reg' = reg
          BY <1>1, <1>2, <3>2, Course, Zenon DEF After, Write
        <5>2. run.cmd = "backup" \/ Go("replace")
          BY <1>2, <3>2, Zenon DEF Write, Leave
        <5>3. [run EXCEPT !.step = "replace"].step = "replace"
          BY <1>1 DEF Records, RunType
        <5> QED
          BY <5>1, <5>2, <5>3 DEF Go
      <4> QED
        BY <2>2, <2>4, <4>1 DEF Saving
    <3>3. CASE ~Saving /\ ~Replace
      <4>1. /\ \A n \in Names : run.cfg[n].guid = reg.cfg[n].guid
            /\ reg' = reg
        BY <2>1, <2>2, <3>3
      <4>2. CASE run'.cfg = run.cfg
        BY <4>1, <4>2
      <4>3. CASE Drop /\ run'.cfg = Without(run.cfg, run.goes)
        <5>1. run.goes = {} \/ run'.step = "save"
          BY <1>1, <4>3, Course DEF After
        <5>2. \A n \in Names : run'.cfg[n] = IF n \in run.goes THEN None ELSE run.cfg[n]
          BY <4>3 DEF Without
        <5>3. None.guid = 0
          BY DEF None
        <5> QED
          BY <4>1, <5>1, <5>2, <5>3 DEF Saving
      <4>4. ASSUME NEW own \in BOOLEAN, Register,
                   run'.cfg = [Without(run.cfg, run.goes) EXCEPT ![run.name] =
                            [guid |-> run.guid, id |-> RegistryNames(run.disk).id,
                             box |-> RegistryNames(run.disk).box, own |-> own]]
            PROVE  \A n \in Names :
                     \/ run'.cfg[n].guid = reg'.cfg[n].guid
                     \/ Saving' /\ n \in run.goes /\ run'.cfg[n].guid = 0
                     \/ Saving' /\ run.cmd = "prepare" /\ n = run.name /\ run'.cfg[n].guid = run'.guid
        <5> DEFINE e == [guid |-> run.guid, id |-> RegistryNames(run.disk).id,
                             box |-> RegistryNames(run.disk).box, own |-> own]
        <5>1. run'.step = "save" /\ run'.guid = run.guid /\ run.cmd = "prepare" /\ e.guid = run.guid
          BY <1>1, <4>4, Course, Lanes DEF After, At, Building, Register
        <5>2. run'.cfg = [Without(run.cfg, run.goes) EXCEPT ![run.name] = e]
          BY <4>4
        <5> HIDE DEF e
        <5>3. \A n \in Names : run'.cfg[n] = IF n = run.name THEN e ELSE
                                IF n \in run.goes THEN None ELSE run.cfg[n]
          BY <1>1, <5>1, <5>2 DEF Without, Prepared
        <5>4. None.guid = 0
          BY DEF None
        <5> QED
          BY <4>1, <5>1, <5>3, <5>4 DEF Saving
      <4> QED
        BY <1>2, <1>4, <4>2, <4>3, <4>4, Copies, Zenon
    <3> QED
      BY <1>2, <1>4, <3>1, <3>2, <3>3, Paths, Course, <1>1
  <2> QED
    BY <2>2, <2>3, <2>5, <2>6 DEF Copied, Saving
<1>5. CASE Explores \/ Moving \/ Edit
  BY <1>5, Turns DEF Idle
<1>6. CASE UNCHANGED vars
  BY <1>6 DEF Copied, Idle, Saving, vars
<1> QED
  BY <1>3, <1>4, <1>5, <1>6, Kinds, Zenon

(* An entry that a disk's label or own name proves has its pool on no      *)
(* other disk, unless explore wrote a disk's name to it blindly.           *)
LEMMA Proof ==
  ASSUME Records, Labels, EntriesSound, NEW d \in Disks,
         NEW n \in Recognised(reg.cfg, d, {"label", "disk"}),
         NEW x \in Disks \ {d}, disks[x].guid = reg.cfg[n].guid
  PROVE  reg.cfg[n].guid \in exp.blind
<1>1. /\ n \in Names /\ reg.cfg[n].guid # 0 /\ reg.cfg[n] \in Entry
      /\ Evidence(reg.cfg[n], d) \in {"label", "disk"}
  BY Entries DEF Recognised, Known, Records
<1>2. Evidence(reg.cfg[n], d) # "label"
  <2>1. ~(ReadLabel(d) # 0 /\ reg.cfg[n].guid = ReadLabel(d))
    BY <1>1 DEF ReadLabel, Labels
  <2> QED
    BY <2>1 DEF Evidence
<1>3. Kind(reg.cfg[n].id) = "disk" /\ reg.cfg[n].id \in Aliases(d)
  BY <1>1, <1>2 DEF Evidence
<1>4. reg.cfg[n].id = d
  <2>1. reg.cfg[n].id \in Disks
    BY <1>3 DEF Kind
  <2>2. Aliases(d) \subseteq {d, Box}
    BY DEF Aliases
  <2> QED
    BY <1>3, <2>1, <2>2, DisksAssumption
<1> QED
  BY <1>1, <1>4 DEF EntriesSound, Sound, Believable

LEMMA GoingStep ==
  ASSUME Overlap = FALSE, DiskInv, Lone, EntriesSound, Going, [Next]_vars
  PROVE  Going'
<1>1. Records /\ Labels /\ Order /\ Order'
  BY OrderStep DEF DiskInv, TypeOK
<1> SUFFICES ASSUME ~Idle', run'.step # "end", NEW n, n \in run'.goes \ run'.agreed
             PROVE  /\ run'.cmd = "purge"
                    /\ reg'.cfg[n].guid # 0 => ~Elsewhere(reg.cfg[n].guid)'
  BY DEF Going
<1>2. run' # NoRun
  BY NoRunIs DEF Idle
<1>3. CASE Starting
  <2>1. Loaded = reg.cfg /\ reg' = reg /\ exp' = exp
    BY <1>3, Turns
  <2>2. ASSUME NEW d \in Disks \cup {Sys}, StartPurge(d)
        PROVE  /\ run'.cmd = "purge"
               /\ reg'.cfg[n].guid # 0 => ~Elsewhere(reg.cfg[n].guid)'
    <3>1. PICK b \in SUBSET Recognised(Loaded, d, {"bus"}) :
             Begun(run', "purge", IF ReadLabel(d) # 0 THEN "destroy" ELSE "wipe", d, "",
                  Loaded, IF disks[d].name = SysPool THEN 0 ELSE ReadLabel(d),
                  Recognised(Loaded, d, {"label", "disk"}) \cup b, b, FALSE, "")
      BY <2>2, Beginnings, Zenon
    <3>2. /\ run'.cmd = "purge" /\ run'.disk = d /\ n \in Recognised(reg.cfg, d, {"label", "disk"})
      BY <2>1, <3>1 DEF Begun
    <3>3. d \in Disks /\ disks' = disks
      BY <1>1, <2>2, <3>2 DEF Order, StartPurge
    <3>4. \A x \in Disks \ {d} : disks[x].guid = reg.cfg[n].guid => reg.cfg[n].guid \in exp.blind
      BY <1>1, <3>2, <3>3, Proof
    <3> QED
      BY <2>1, <3>2, <3>3, <3>4 DEF Elsewhere
  <2>3. ASSUME NEW d \in Disks, NEW m \in Names, StartPrepare(d, m) PROVE FALSE
    BY <2>3, Beginnings DEF Begun
  <2>4. /\ \A m \in Names : ~Forget(m) /\ ~Retention(m)
        /\ \A g \in Guids : ~ForgetGuid(g)
        /\ \A ns \in SUBSET Names : ~Fix(ns)
        /\ \A m \in Names, d \in Disks : ~StartBackup(m, d)
    BY Beginnings DEF Begun
  <2> QED
    BY <1>3, <2>2, <2>3, <2>4, Zenon DEF Starting
<1>4. CASE Working
  <2>1. ~Idle /\ Kept(run, run') /\ run.step # "end" /\ exp' = exp
    BY <1>2, <1>4, Turns, Paths
  <2>2. /\ run'.cmd = run.cmd /\ run'.disk = run.disk /\ n \in run.goes \ run.agreed
    BY <2>1 DEF Kept
  <2>3. run.cmd = "purge" /\ (reg.cfg[n].guid # 0 => ~Elsewhere(reg.cfg[n].guid))
    BY <2>1, <2>2 DEF Going
  <2>4. reg' = reg
    <3>1. ~Replace
      <4>1. Replace => run.step = "replace" /\ run'.step = run.next
        BY <1>1, <1>2, Course DEF After, At
      <4> QED
        BY <1>1, <2>3, <4>1 DEF Order
    <3> QED
      BY <1>4, <3>1, Copies
  <2>5. \A x \in Disks \ {run.disk} : disks'[x] = disks[x]
    BY <2>1, Media
  <2> QED
    BY <2>1, <2>2, <2>3, <2>4, <2>5 DEF Elsewhere
<1>5. CASE Explores \/ Moving \/ Edit
  BY <1>5, Turns DEF Idle
<1>6. CASE UNCHANGED vars
  BY <1>6 DEF Going, Idle, Elsewhere, vars
<1> QED
  BY <1>3, <1>4, <1>5, <1>6, Kinds, Zenon

LEMMA ReplacingStep ==
  ASSUME Overlap = FALSE, DiskInv, Lone, EntriesSound, Copied, Replacing, [Next]_vars
  PROVE  Replacing'
<1>1. /\ Records /\ Labels /\ Order /\ Prepared /\ reg.cfg \in Config /\ run.cfg \in Config
      /\ Order'
  BY OrderStep DEF DiskInv, TypeOK, Records, RunType
<1> SUFFICES ASSUME run'.cmd = "prepare", run'.step # "end" PROVE Replacing'
  BY DEF Replacing
<1>2. run' # NoRun /\ ~Idle'
  BY NoRunIs DEF Idle
<1>3. CASE Starting
  <2>1. Loaded = reg.cfg /\ reg' = reg /\ exp' = exp
    BY <1>3, Turns
  <2>2. ASSUME NEW d \in Disks, NEW m \in Names, StartPrepare(d, m) PROVE Replacing'
    <3>1. run'.step = "create" /\ run'.name = m /\ (m \in Known(reg.cfg) => m \in run'.goes)
      <4>1. PICK o \in {{}, Recognised(Loaded, d, {"label", "disk"})},
                 b \in SUBSET Recognised(Loaded, d, {"bus"}) :
              /\ Begun(run', "prepare", "create", d, m, Loaded, 0, o \cup b, o \cup b, FALSE, "")
              /\ m \in Known(Loaded) => m \in o \cup b
        BY <2>2, Beginnings, Zenon
      <4> QED
        BY <2>1, <4>1, Zenon DEF Begun
    <3>2. m \in Known(reg.cfg) <=> reg.cfg[m].guid # 0
      BY <1>1, Entries
    <3> QED
      BY <2>1, <3>1, <3>2 DEF Replacing, Closing
  <2>3. \A d \in Disks \cup {Sys} : ~StartPurge(d)
    BY Beginnings, Zenon DEF Begun
  <2>4. /\ \A m \in Names : ~Forget(m) /\ ~Retention(m)
        /\ \A g \in Guids : ~ForgetGuid(g)
        /\ \A ns \in SUBSET Names : ~Fix(ns)
        /\ \A m \in Names, d \in Disks : ~StartBackup(m, d)
    BY Beginnings DEF Begun
  <2> QED
    BY <1>3, <2>2, <2>3, <2>4, Zenon DEF Starting
<1>4. CASE Working
  <2>1. ~Idle /\ Kept(run, run') /\ run.step # "end"
    BY <1>2, <1>4, Turns, Paths
  <2>2. run.cmd = "prepare" /\ run'.name = run.name /\ run'.goes = run.goes
    BY <2>1 DEF Kept
  <2>3. /\ reg.cfg[run.name].guid # 0 => run.name \in run.goes
        /\ run.step # "create" => \A n \in Names : reg.cfg[n].guid # run.guid
        /\ run.step \in Closing => run.cfg[run.name].guid = run.guid
    BY <2>1, <2>2 DEF Replacing
  <2>4. reg' = reg /\ ~Replace
    <3>1. ~Replace
      <4>1. Replace => run.step = "replace" /\ run'.step = run.next
        BY <1>1, <1>2, Course DEF After, At
      <4> QED
        BY <1>1, <2>2, <4>1 DEF Order
    <3> QED
      BY <1>4, <3>1, Copies
  <2>5. run'.step # "create" /\ (run'.step \in Closing => Register \/ run.step \in Closing)
    <3>1. PrepareSteps => run'.step # "create" /\ (run'.step \in Closing => Register)
      BY <1>1, <1>2, Course DEF After, PrepareSteps, Closing
    <3>2. ~PurgeSteps
      BY <1>1, <2>2, Course, Lanes DEF PurgeSteps, At
    <3>3. SharedSteps => Send \/ Write
      <4>1. End \/ Stop => run' = NoRun
        BY <1>1, Course
      <4>2. ~Drop /\ ~LeftoverPoints /\ ~CloseBackup
        BY <1>1, <2>2, Course, Lanes DEF At
      <4> QED
        BY <1>2, <2>4, <4>1, <4>2, Zenon DEF SharedSteps
    <3>4. Send => run'.step # "create" /\ run'.step \notin Closing
      BY <1>1, Course DEF After, Closing
    <3>5. Write => run'.step # "create" /\ run.step \in Closing
      BY <1>1, <1>2, Course DEF After, At, Closing
    <3> QED
      BY <1>4, <3>1, <3>2, <3>3, <3>4, <3>5, Zenon DEF Working
  <2>6. \A n \in Names : reg.cfg[n].guid # run'.guid
    <3>1. CASE Create
      <4>1. run'.guid = spent.guid + 1
        BY <1>1, <1>2, <3>1, Course DEF After
      <4>2. \A n \in Names : reg.cfg[n].guid <= spent.guid
        BY DEF EntriesSound, Sound, Believable
      <4>3. spent.guid \in Nat /\ \A n \in Names : reg.cfg[n].guid \in Nat
        <5>1. \A n \in Names : reg.cfg[n].guid = 0 \/ reg.cfg[n].guid \in Guids
          BY <1>1, Entries
        <5>2. \A g \in Guids : g \in Nat
          BY BoundsAssumption DEF Guids
        <5> QED
          BY <1>1, <5>1, <5>2, Reads
      <4> QED
        BY <4>1, <4>2, <4>3
    <3>2. CASE ~Create
      <4>1. run'.guid = run.guid /\ run.step # "create"
        <5>1. run.step = "create" => Create \/ Stop
          BY <1>1, <1>4, Course DEF Working, PrepareSteps, PurgeSteps, SharedSteps, At
        <5>2. ~Stop
          BY <1>1, <1>2, Course
        <5> QED
          BY <1>2, <1>4, <3>2, <5>1, <5>2, Paths
      <4> QED
        BY <2>3, <4>1
    <3> QED
      BY <3>1, <3>2
  <2>7. run'.step \in Closing => run'.cfg[run.name].guid = run'.guid
    <3>1. CASE Register
      <4>1. run'.guid = run.guid /\ run.name \in Names
        BY <1>1, <1>2, <2>2, <3>1, Course DEF After, Prepared
      <4>2. PICK own \in BOOLEAN :
               run'.cfg = [Without(run.cfg, run.goes) EXCEPT ![run.name] =
                            [guid |-> run.guid, id |-> RegistryNames(run.disk).id,
                             box |-> RegistryNames(run.disk).box, own |-> own]]
        BY <1>1, <3>1, Course DEF After
      <4> QED
        BY <4>1, <4>2 DEF Without
    <3>2. CASE ~Register /\ run'.step \in Closing
      <4>1. run.step \in Closing /\ ~Create /\ ~Drop
        BY <1>1, <2>2, <2>5, <3>2, Course, Lanes DEF Closing, At
      <4>2. run'.cfg = run.cfg /\ run'.guid = run.guid
        BY <1>2, <1>4, <3>2, <4>1, Copies, Paths
      <4> QED
        BY <2>3, <4>1, <4>2
    <3> QED
      BY <3>1, <3>2
  <2> QED
    BY <2>2, <2>3, <2>4, <2>5, <2>6, <2>7 DEF Replacing
<1>5. CASE Explores \/ Moving \/ Edit
  BY <1>2, <1>5, Turns DEF Idle
<1>6. CASE UNCHANGED vars
  BY <1>6 DEF Replacing, vars
<1> QED
  BY <1>3, <1>4, <1>5, <1>6, Kinds, Zenon

(* An entry that explore calls stale has its pool on no disk but the one   *)
(* whose name it bears, and that one holds another entry's.                *)
LEMMA Staleness ==
  ASSUME Records, Labels, EntriesSound, Scanned, exp.step # "",
         NEW n \in Stale(exp.cfg, exp.found)
  PROVE  n \in Names /\ ~Elsewhere(reg.cfg[n].guid)
<1>1. /\ exp.cfg = reg.cfg /\ reg.cfg \in Config /\ exp.found \in SUBSET Drive
      /\ \A d \in exp.found : disks[d.disk].guid = d.guid /\ disks[d.disk].name = d.name
      /\ Believable(reg.cfg, disks, spent.guid, exp.blind)
  BY DEF Scanned, Records, ExploreType, EntriesSound, Sound
<1> DEFINE names(x) == {m \in Known(reg.cfg) : reg.cfg[m].id = x}
           real(x) == {d \in exp.found : /\ d.name \in names(x) /\ d.dev
                                         /\ reg.cfg[d.name].guid = d.guid
                                         /\ x \in Aliases(d.disk)}
<1>2. PICK x \in Disks : n \in IF real(x) = {} THEN {} ELSE names(x) \ {d.name : d \in real(x)}
  <2>1. Stale(reg.cfg, exp.found) =
          UNION {IF real(x) = {} THEN {} ELSE names(x) \ {d.name : d \in real(x)} : x \in Disks}
    BY Zenon DEF Stale
  <2>2. n \in Stale(reg.cfg, exp.found)
    BY <1>1
  <2> DEFINE F(x) == IF real(x) = {} THEN {} ELSE names(x) \ {d.name : d \in real(x)}
  <2>3. n \in UNION {F(x) : x \in Disks}
    BY <2>1, <2>2, Zenon
  <2>4. \E x \in Disks : n \in F(x)
    <3> HIDE DEF F
    <3> QED
      BY <2>3
  <2> QED
    BY <2>4, Zenon
<1>3. real(x) # {} /\ n \in names(x) /\ n \notin {d.name : d \in real(x)}
  <2> HIDE DEF real, names
  <2> QED
    BY <1>2
<1>4. PICK d \in real(x) : TRUE
  BY <1>3
<1>5. /\ d \in exp.found /\ d.name \in Names /\ reg.cfg[d.name].guid = d.guid /\ d.guid \in Guids
      /\ x \in Aliases(d.disk) /\ d.disk \in Disks
  BY <1>1, <1>4 DEF Drive
<1>6. x = d.disk
  <2>1. Aliases(d.disk) \subseteq {d.disk, Box}
    BY DEF Aliases
  <2> QED
    BY <1>2, <1>5, <2>1, DisksAssumption
<1>7. n \in Names /\ reg.cfg[n].id = x /\ reg.cfg[n].guid # 0
  BY <1>1, <1>3, Entries DEF Known
<1>8. n # d.name
  BY <1>3, <1>4
<1>9. ASSUME reg.cfg[n].guid \notin exp.blind, NEW y \in Disks, disks[y].guid = reg.cfg[n].guid
      PROVE  FALSE
  <2>1. y = x
    BY <1>1, <1>2, <1>7, <1>9 DEF Believable
  <2>2. reg.cfg[n].guid = reg.cfg[d.name].guid
    BY <1>1, <1>5, <1>6, <1>9, <2>1
  <2> QED
    BY <1>1, <1>5, <1>7, <1>8, <2>2 DEF Believable
<1> QED
  BY <1>7, <1>9 DEF Elsewhere

LEMMA KeptStep ==
  ASSUME Overlap = FALSE, DiskInv, Lone, EntriesSound, Scanned, Copied, Going, Replacing,
         [Next]_vars
  PROVE  /\ \A n \in Known(reg.cfg) :
              reg'.cfg[n].guid # reg.cfg[n].guid
                => n \in Agreed \/ ~Elsewhere(reg.cfg[n].guid)
         /\ reg'.bad # reg.bad => spent'.moves # spent.moves
<1>1. /\ Records /\ Labels /\ Order /\ reg.cfg \in Config /\ exp.cfg \in Config
      /\ exp.found \in SUBSET Drive
      /\ Known(reg.cfg) \subseteq Names /\ \A n \in Known(reg.cfg) : reg.cfg[n].guid # 0
  BY Entries DEF DiskInv, TypeOK, Records, Known, ExploreType
<1>2. /\ \A c : [bad |-> FALSE, cfg |-> c].cfg = c /\ ~[bad |-> FALSE, cfg |-> c].bad
      /\ FALSE \in BOOLEAN
  OBVIOUS
<1>8. ~reg.bad /\ ~reg'.bad => reg'.bad = reg.bad
  <2>1. reg.bad \in BOOLEAN /\ reg'.bad \in BOOLEAN
    BY RegStep DEF DiskInv, TypeOK, Records
  <2> QED
    BY <2>1
<1>3. CASE reg' = reg
  BY <1>3
<1>4. CASE Replace
  <2>1. Working
    BY <1>4, Zenon DEF Working, SharedSteps
  <2>2. ~Idle /\ ~reg.bad /\ reg'.cfg = run.cfg /\ ~reg'.bad /\ run.step = "replace"
    BY <1>2, <1>4, <2>1, Turns DEF Replace, At
  <2>3. ASSUME NEW n \in Known(reg.cfg), reg'.cfg[n].guid # reg.cfg[n].guid
        PROVE  n \in Agreed \/ ~Elsewhere(reg.cfg[n].guid)
    <3>1. n \in Names /\ reg.cfg[n].guid # 0
      BY <1>1
    <3>2. n \in run.goes
      BY <2>2, <2>3, <3>1 DEF Copied, Replacing
    <3> QED
      BY <2>2, <3>1, <3>2 DEF Going, Agreed
  <2> QED
    BY <1>8, <2>2, <2>3
<1>5. CASE RemoveStale /\ reg' # reg
  <2>1. exp.step # "" /\ exp.cfg = reg.cfg /\ Explores
    BY <1>5 DEF RemoveStale, Scanned, Explores
  <2>2. reg' = [bad |-> FALSE, cfg |-> Without(exp.cfg, Stale(exp.cfg, exp.found))]
    BY <1>5, Zenon DEF RemoveStale, Saved
  <2>3. ~reg.bad /\ ~reg'.bad /\ reg'.cfg = Without(reg.cfg, Stale(exp.cfg, exp.found))
    BY <1>2, <2>1, <2>2, Turns
  <2>4. ASSUME NEW n \in Known(reg.cfg), reg'.cfg[n].guid # reg.cfg[n].guid
        PROVE  ~Elsewhere(reg.cfg[n].guid)
    <3>1. n \in Stale(exp.cfg, exp.found)
      BY <1>1, <2>3, <2>4 DEF Without
    <3> QED
      BY <1>1, <2>1, <3>1, Staleness
  <2> QED
    BY <1>8, <2>3, <2>4
<1>6. CASE AutoRegister /\ reg' # reg
  <2>1. exp.step # "" /\ exp.cfg = reg.cfg /\ Explores
    BY <1>6 DEF AutoRegister, Scanned, Explores
  <2>2. reg' = [bad |-> FALSE, cfg |-> Added(exp.cfg, News(exp.cfg, exp.found))]
    BY <1>6, Zenon DEF AutoRegister, Saved
  <2>3. ~reg.bad /\ ~reg'.bad /\ reg'.cfg = Added(exp.cfg, News(exp.cfg, exp.found))
    BY <1>2, <2>1, <2>2, Turns
  <2>4. ASSUME NEW n \in Known(reg.cfg), reg'.cfg[n].guid # reg.cfg[n].guid
        PROVE  n \in Agreed
    <3>1. \E d \in News(exp.cfg, exp.found) : d.name = n
      <4> DEFINE c == Added(exp.cfg, News(exp.cfg, exp.found))
      <4>1. \A m \in Names : c[m] = exp.cfg[m] \/ \E d \in News(exp.cfg, exp.found) : d.name = m
        BY <1>1, Adds, Zenon
      <4> HIDE DEF c
      <4>2. c[n].guid # exp.cfg[n].guid /\ n \in Names
        BY <1>1, <2>1, <2>3, <2>4 DEF c
      <4> QED
        BY <4>1, <4>2
    <3> QED
      BY <3>1 DEF News, Agreed
  <2> QED
    BY <1>8, <2>3, <2>4
<1>7. CASE Edit
  BY <1>7, Turns, Spends
<1> QED
  BY <1>3, <1>4, <1>5, <1>6, <1>7, Touched, Zenon

LEMMA RegInit ==
  ASSUME Init
  PROVE  RegInv
<1>1. /\ OneDisk \in Disks /\ FirstName \in Names
      /\ \A d \in Disks :
              /\ d = OneDisk => disks[d].guid = 1 /\ disks[d].name = FirstName
              /\ d # OneDisk => disks[d].guid = 0 \/ (d = OtherDisk /\ disks[d].guid = 2)
      /\ ~reg.bad /\ reg.cfg[FirstName].guid = 1 /\ reg.cfg[FirstName].id \in {OneDisk, Box}
      /\ \A n \in Names \ {FirstName} : reg.cfg[n] = None
  BY First, Zenon
<1>2. /\ anchors = {1} /\ run = NoRun /\ verdict = Quiet /\ exp.step = ""
      /\ spent.guid = 2
  BY DEF Init
<1>3. /\ Idle /\ run.cmd = "none" /\ run.step = "" /\ verdict.said = "none"
  BY <1>2, NoRunIs DEF Idle, Quiet
<1>4. \A n \in Names : reg.cfg[n].guid = IF n = FirstName THEN 1 ELSE 0
  BY <1>1 DEF None
<1>5. Sound(reg.cfg)
  <2>1. \A n \in Names, d \in Disks :
          reg.cfg[n].guid # 0 /\ disks[d].guid = reg.cfg[n].guid =>
              /\ disks[d].name = n
              /\ reg.cfg[n].id \in Disks \ {d} => reg.cfg[n].guid \in exp.blind
    BY <1>1, <1>4, DisksAssumption
  <2>2. \A m, n \in Names : reg.cfg[m].guid = reg.cfg[n].guid /\ reg.cfg[m].guid # 0 => m = n
    BY <1>4
  <2>3. ASSUME NEW n \in Names PROVE reg.cfg[n].guid <= spent.guid
    <3>1. reg.cfg[n].guid = 1 \/ reg.cfg[n].guid = 0
      BY <1>4
    <3>2. spent.guid = 2
      BY <1>2
    <3>3. 1 <= 2 /\ 0 <= 2
      OBVIOUS
    <3> QED
      BY <3>1, <3>2, <3>3, Zenon
  <2> QED
    BY <2>1, <2>2, <2>3 DEF Sound, Believable
<1>6. anchors \subseteq Registered(reg.cfg)
  <2>1. FirstName \in Known(reg.cfg)
    BY <1>1 DEF Known, None
  <2> QED
    BY <1>1, <1>2, <2>1 DEF Registered
<1>7. Lone /\ EntriesSound /\ Scanned /\ Copied /\ Going /\ Replacing
  BY <1>1, <1>2, <1>3, <1>5 DEF Lone, EntriesSound, Scanned, Copied, Going, Replacing
<1>8. Reached /\ Wiped /\ Purged
  BY <1>3 DEF Reached, Wiped, Purged
<1>9. Owned
  BY <1>3, <1>6 DEF Owned, Closing
<1> QED
  BY <1>7, <1>8, <1>9 DEF RegInv

(* The part of RegInv that is about entries holds by itself.               *)
EntryInv == Lone /\ EntriesSound /\ Scanned /\ Copied /\ Going /\ Replacing

LEMMA EntryHolds ==
  ASSUME Overlap = FALSE
  PROVE  Spec => [](DiskInv /\ EntryInv)
<1>1. Init => DiskInv /\ EntryInv
  BY DiskInit, RegInit DEF RegInv, EntryInv
<1>2. ASSUME DiskInv, EntryInv, [Next]_vars PROVE (DiskInv /\ EntryInv)'
  <2>1. Lone /\ EntriesSound /\ Scanned /\ Copied /\ Going /\ Replacing /\ Prepared
    BY <1>2 DEF EntryInv, DiskInv
  <2>2. DiskInv' /\ Lone' /\ EntriesSound'
    BY <1>2, <2>1, DiskStep, LoneStep, EntriesSoundStep, Zenon
  <2>3. Scanned' /\ Copied' /\ Going' /\ Replacing'
    BY <1>2, <2>1, ScannedStep, CopiedStep, GoingStep, ReplacingStep, Zenon
  <2> QED
    BY <2>2, <2>3 DEF EntryInv
<1> QED
  BY <1>1, <1>2, PTL DEF Spec

(* An entry is lost only by the operator's word, or when its pool is on no *)
(* other disk than the one a command works on, and a file that cannot be   *)
(* read is never written over, while explore and hand edits wait for a     *)
(* running command (identity.py recognise, purge.py _entries_to_remove,    *)
(* prepare.py _stale_entries, explore.py _remove_stale).                   *)
THEOREM Lost ==
  ASSUME Overlap = FALSE
  PROVE  Spec => EntriesKept
<1> DEFINE A == /\ \A n \in Known(reg.cfg) :
                     reg'.cfg[n].guid # reg.cfg[n].guid
                       => n \in Agreed \/ ~Elsewhere(reg.cfg[n].guid)
                /\ reg'.bad # reg.bad => spent'.moves # spent.moves
<1>1. DiskInv /\ EntryInv /\ [Next]_vars => A
  BY KeptStep DEF EntryInv
<1>2. DiskInv /\ EntryInv /\ [Next]_vars => [A]_vars
  BY <1>1
<1>3. EntriesKept <=> [][A]_vars
  BY DEF EntriesKept
<1> HIDE DEF A
<1> QED
  BY <1>2, <1>3, EntryHolds, PTL DEF Spec

-----------------------------------------------------------------------------
(* What prepare's steps bring to the medium, beside what they make of the  *)
(* command (Course).                                                       *)
LEMMA Progress ==
  ASSUME DiskInv, run.cmd = "prepare"
  PROVE  /\ Send =>
              \/ "send" \in run'.fails
              \/ /\ run'.fails = run.fails /\ anchors' = anchors \cup {run.guid}
                 /\ disks'[run.disk].has = Held.has \cup {"data"}
         /\ SnapKeystore => anchors' = anchors /\ disks' = disks
         /\ SendKeystore =>
              /\ anchors' = anchors
              /\ \/ "keystore" \in run'.fails
                 \/ /\ run'.fails = run.fails
                    /\ disks'[run.disk].has = Held.has \cup {"keystore"}
         /\ Export =>
              /\ anchors' = anchors
              /\ \/ "export" \in run'.fails
                 \/ run'.fails = run.fails /\ disks'[run.disk].imp = "no"
         /\ Judge => run' = NoRun \/ (run.fails = {} /\ UNCHANGED <<disks, anchors>>)
         /\ Readback =>
              \/ run' = NoRun
              \/ /\ "flushed" \in Held.has /\ anchors' = anchors
                 /\ disks'[run.disk].has = Held.has
         /\ Reread =>
              \/ run' = NoRun
              \/ /\ anchors' = anchors /\ disks' = Released
         /\ Register => disks' = disks
         /\ Write => run' = NoRun \/ disks' = disks
<1>1. /\ Records /\ run \in RunType /\ disks \in [Disks \cup {Sys} -> DiskType]
      /\ run.disk \in Disks /\ Held \in DiskType
  BY DEF DiskInv, TypeOK, Records, Order, Held
<1>2. \A D : disks' = [disks EXCEPT ![run.disk] = D] => disks'[run.disk] = D
  BY <1>1
<1>3. \A s : [run EXCEPT !.step = s].fails = run.fails
  BY <1>1, RunKept DEF After
<1>4. \A s, f : /\ [run EXCEPT !.step = s, !.fails = f].fails = f
                /\ [run EXCEPT !.fails = f, !.step = s].fails = f
  BY <1>1, Zenon DEF RunType
<1>5. \A s, t : [run EXCEPT !.step = s, !.tracked = t].fails = run.fails
  BY <1>1, Zenon DEF RunType
<1>6. \A h \in Whole : With(Held, h).has = Held.has \cup {h} /\ With(Held, h).imp = Held.imp
  BY <1>1, DiskWith, Zenon
<1>7. \A i \in {"no", "ro", "rw"} :
         /\ Turned(Held, i) \in DiskType
         /\ Turned(Held, i).imp = i /\ Turned(Held, i).has = Held.has
  BY <1>1, DiskTurned, Zenon
<1>8. "data" \in Whole /\ "keystore" \in Whole /\ "flushed" \in Whole
  BY DEF Whole
<1>9. ASSUME Send
      PROVE  \/ "send" \in run'.fails
             \/ /\ run'.fails = run.fails /\ anchors' = anchors \cup {run.guid}
                /\ disks'[run.disk].has = Held.has \cup {"data"}
  <2>1. CASE /\ anchors' = anchors \cup {run.guid}
             /\ disks' = [disks EXCEPT ![run.disk] = With(@, "data")]
             /\ Go(IF run.cmd = "prepare" THEN "keystore" ELSE "close")
    <3>1. disks'[run.disk] = With(Held, "data")
      BY <1>1, <2>1 DEF Held
    <3> QED
      BY <1>3, <1>6, <1>8, <2>1, <3>1, Zenon DEF Go
  <2>2. CASE run' = [run EXCEPT !.fails = @ \cup {"send"},
                  !.step = IF run.cmd = "prepare" THEN "keystore" ELSE "close"]
    <3> DEFINE t == IF run.cmd = "prepare" THEN "keystore" ELSE "close"
               f == run.fails \cup {"send"}
    <3>1. run'.fails = f
      <4>1. run' = [run EXCEPT !.fails = f, !.step = t]
        BY <2>2, Zenon
      <4> HIDE DEF f, t
      <4> QED
        BY <1>4, <4>1, Zenon
    <3> QED
      BY <3>1
  <2> QED
    BY <1>9, <2>1, <2>2, Zenon DEF Send
<1>10. ASSUME SendKeystore
       PROVE  /\ anchors' = anchors
              /\ \/ "keystore" \in run'.fails
                 \/ /\ run'.fails = run.fails
                    /\ disks'[run.disk].has = Held.has \cup {"keystore"}
  <2>1. CASE Go("export") /\ disks' = [disks EXCEPT ![run.disk] = With(@, "keystore")]
    <3>1. disks'[run.disk] = With(Held, "keystore")
      BY <1>1, <2>1 DEF Held
    <3> QED
      BY <1>3, <1>6, <1>8, <1>10, <2>1, <3>1, Zenon DEF Go, SendKeystore
  <2>2. CASE KeystoreFails
    <3>1. run'.fails = run.fails \cup {"keystore"}
      BY <1>4, <2>2, Zenon DEF KeystoreFails
    <3> QED
      BY <1>10, <3>1 DEF SendKeystore
  <2> QED
    BY <1>10, <2>1, <2>2, Zenon DEF SendKeystore
<1>11. ASSUME Export
       PROVE  /\ anchors' = anchors
              /\ \/ "export" \in run'.fails
                 \/ run'.fails = run.fails /\ disks'[run.disk].imp = "no"
  <2>1. ASSUME NEW b \in BOOLEAN,
               disks' = [disks EXCEPT ![run.disk] =
                 LET out == Turned(@, "no")
                 IN IF b THEN With(out, "flushed") ELSE out],
               run' = [run EXCEPT !.step = "judge", !.tracked = FALSE]
        PROVE  run'.fails = run.fails /\ disks'[run.disk].imp = "no"
    <3> DEFINE out == Turned(Held, "no")
    <3>1. disks'[run.disk] = IF b THEN With(out, "flushed") ELSE out
      BY <1>1, <2>1 DEF Held
    <3>2. out \in DiskType /\ out.imp = "no"
      BY <1>7
    <3> HIDE DEF out
    <3>3. With(out, "flushed").imp = "no"
      BY <1>8, <3>2, DiskWith
    <3> QED
      BY <1>5, <2>1, <3>1, <3>2, <3>3, Zenon
  <2>2. CASE run' = [run EXCEPT !.step = "judge", !.fails = @ \cup {"export"}]
    <3>1. run'.fails = run.fails \cup {"export"}
      BY <1>4, <2>2, Zenon
    <3> QED
      BY <1>11, <3>1 DEF Export
  <2>3. anchors' = anchors
    BY <1>11 DEF Export
  <2> QED
    BY <1>11, <2>1, <2>2, <2>3, Zenon DEF Export
<1>12. Judge => run' = NoRun \/ (run.fails = {} /\ UNCHANGED <<disks, anchors>>)
  BY Zenon DEF Judge, GiveUp, Leave
<1>13. ASSUME Readback
       PROVE  \/ run' = NoRun
              \/ /\ "flushed" \in Held.has /\ anchors' = anchors
                 /\ disks'[run.disk].has = Held.has
  <2>1. CASE disks' = [disks EXCEPT ![run.disk] = Turned(@, "ro")]
    <3>1. disks'[run.disk] = Turned(Held, "ro")
      BY <1>1, <2>1 DEF Held
    <3> QED
      BY <1>7, <1>13, <3>1, Zenon DEF Readback, GiveUp, Leave, Held
  <2> QED
    BY <1>13, <2>1, Zenon DEF Readback, GiveUp, Leave
<1>14. Reread => run' = NoRun \/ (anchors' = anchors /\ disks' = Released)
  BY Zenon DEF Reread, Leave
<1>15. /\ SnapKeystore => anchors' = anchors /\ disks' = disks
       /\ Register => disks' = disks
       /\ Write => run' = NoRun \/ disks' = disks
  BY Zenon DEF SnapKeystore, Register, Write, Leave
<1> QED
  BY <1>9, <1>10, <1>11, <1>12, <1>13, <1>14, <1>15, Zenon

(* Prepare drops no anchor of the pool it has made.                        *)
LEMMA KeepsOwn ==
  ASSUME DiskInv, Copied, Replacing, Register
  PROVE  run.guid \in anchors => run.guid \in anchors'
<1>1. Records /\ Order /\ Prepared /\ run.step = "register"
  BY DEF DiskInv, TypeOK, Register, At
<1>2. run.cmd = "prepare" /\ ~Idle /\ ~Saving
  BY <1>1, Lanes DEF Building, Idle, Saving
<1>3. ASSUME NEW n \in run.goes PROVE run.cfg[n].guid # run.guid
  <2>1. n \in Names
    BY <1>1 DEF Records, RunType
  <2> QED
    BY <1>1, <1>2, <2>1 DEF Copied, Replacing
<1>4. run.guid \notin {run.cfg[n].guid : n \in run.goes}
  BY <1>3
<1> DEFINE gs == {run.cfg[n].guid : n \in run.goes}
<1>5. DropAnchors(gs)
  BY DEF Register
<1> HIDE DEF gs
<1>6. anchors' = anchors \/ anchors' = anchors \ gs
  BY <1>5 DEF DropAnchors
<1> QED
  BY <1>4, <1>6 DEF gs

LEMMA ReachedStep ==
  ASSUME Overlap = FALSE, DiskInv, Lone, Copied, Replacing, Reached, [Next]_vars
  PROVE  Reached'
<1>1. /\ Records /\ Labels /\ Order /\ Prepared /\ Order'
  BY OrderStep DEF DiskInv, TypeOK
<1> SUFFICES ASSUME run'.cmd = "prepare" PROVE Reached'
  BY DEF Reached
<1>2. run' # NoRun /\ ~Idle'
  BY NoRunIs DEF Idle
<1>3. CASE Starting
  <2>1. run'.step = "create"
    BY <1>3, Beginnings, Zenon DEF Starting, Begun
  <2> QED
    BY <2>1 DEF Reached, Building
<1>4. CASE Working
  <2>1. ~Idle /\ Kept(run, run')
    BY <1>2, <1>4, Turns
  <2>2. run.cmd = "prepare" /\ run'.disk = run.disk /\ run.disk \in Disks
    BY <1>1, <2>1 DEF Kept, Order
  <2>3. Create \/ (run'.guid = run.guid /\ Held.has \subseteq disks'[run.disk].has)
    <3>1. Create \/ run'.guid = run.guid
      BY <1>2, <1>4, Paths
    <3>2. ~Overwrite
      BY <1>1, <2>2, Course, Lanes DEF At
    <3> QED
      BY <2>2, <3>1, <3>2, Media DEF Held, Makes
  <2>4. /\ run.step \in Building \ {"track", "send"} /\ "send" \notin run.fails =>
             "data" \in Held.has /\ run.guid \in anchors
        /\ run.step \in {"export", "judge"} /\ "keystore" \notin run.fails =>
             "keystore" \in Held.has
        /\ run.step = "judge" /\ run.fails = {} => Held.imp = "no"
        /\ run.step \in {"readback", "reread", "register"} =>
             run.fails = {} /\ "keystore" \in Held.has
        /\ run.step \in {"reread", "register"} => "flushed" \in Held.has
        /\ run.step \in {"readback", "register"} => Held.imp = "no"
        /\ run.step = "reread" => run.tracked
        /\ run.step \in {"save", "replace"} =>
             Held.has = Whole /\ Held.imp = "no" /\ run.guid \in anchors
    BY <2>2 DEF Reached
  <2>5. Held' = disks'[run.disk]
    BY <2>2 DEF Held
  <2>6. CASE Create \/ Track
    <3>1. run'.step \in {"track", "send"}
      BY <1>1, <1>2, <2>6, Course DEF After
    <3> QED
      BY <3>1 DEF Reached, Building
  <2>7. CASE Send
    <3>1. run'.step = "keystore" /\ ~Create
      BY <1>1, <2>2, <2>7, Course DEF After, At
    <3>2. "send" \notin run'.fails => "data" \in disks'[run.disk].has /\ run.guid \in anchors'
      BY <2>2, <2>7, Progress
    <3> QED
      BY <2>3, <2>5, <3>1, <3>2 DEF Reached
  <2>8. CASE SnapKeystore
    <3>1. /\ ~Create /\ anchors' = anchors /\ disks' = disks /\ run.step = "keystore"
          /\ \/ run'.step = "snapped" /\ run'.fails = run.fails
             \/ run'.step = "export" /\ run'.fails = run.fails \cup {"keystore"}
      BY <1>1, <2>2, <2>8, Course, Progress DEF After, At
    <3> QED
      BY <2>3, <2>4, <2>5, <3>1 DEF Reached, Building, Held
  <2>9. CASE SendKeystore
    <3>1. /\ ~Create /\ anchors' = anchors /\ run.step = "snapped" /\ run'.step = "export"
          /\ run.fails \subseteq run'.fails
      BY <1>1, <2>2, <2>9, Course, Progress DEF After, At
    <3>2. "keystore" \in run'.fails \/ "keystore" \in disks'[run.disk].has
      BY <2>2, <2>9, Progress
    <3> QED
      BY <2>3, <2>4, <2>5, <3>1, <3>2 DEF Reached, Building
  <2>10. CASE Export
    <3>1. /\ ~Create /\ anchors' = anchors /\ run.step = "export" /\ run'.step = "judge"
          /\ run.fails \subseteq run'.fails
      BY <1>1, <2>2, <2>10, Course, Progress DEF After, At
    <3>2. "export" \in run'.fails \/ disks'[run.disk].imp = "no"
      BY <2>2, <2>10, Progress
    <3> QED
      BY <2>3, <2>4, <2>5, <3>1, <3>2 DEF Reached, Building
  <2>11. CASE Judge
    <3>1. /\ ~Create /\ anchors' = anchors /\ disks' = disks /\ run.step = "judge"
          /\ run'.step = "readback" /\ run.fails = {} /\ run'.fails = run.fails
      BY <1>1, <1>2, <2>2, <2>11, Course, Progress DEF After, At
    <3> QED
      BY <2>3, <2>4, <2>5, <3>1 DEF Reached, Building, Held
  <2>12. CASE Readback
    <3>1. /\ ~Create /\ anchors' = anchors /\ run.step = "readback"
          /\ run'.step = "reread" /\ run'.fails = run.fails /\ run'.tracked
          /\ "flushed" \in Held.has
      BY <1>1, <1>2, <2>2, <2>12, Course, Progress DEF After, At
    <3> QED
      BY <2>3, <2>4, <2>5, <3>1 DEF Reached, Building
  <2>13. CASE Reread
    <3>1. /\ ~Create /\ anchors' = anchors /\ run.step = "reread" /\ disks' = Released
          /\ run'.step = "register" /\ run'.fails = run.fails
      BY <1>1, <1>2, <2>2, <2>13, Course, Progress DEF After, At
    <3>2. disks'[run.disk].imp = "no"
      <4>1. disks' = [disks EXCEPT ![run.disk] = Turned(@, "no")]
        BY <2>4, <3>1 DEF Released
      <4>2. disks'[run.disk] = Turned(disks[run.disk], "no") /\ disks[run.disk] \in DiskType
        BY <1>1, <2>2, <4>1 DEF Records
      <4> QED
        BY <4>2, DiskTurned
    <3> QED
      BY <2>3, <2>4, <2>5, <3>1, <3>2 DEF Reached, Building
  <2>14. CASE Register
    <3>1. /\ ~Create /\ run.step = "register" /\ disks' = disks /\ run'.step = "save"
      BY <1>1, <2>2, <2>14, Course, Progress DEF After, At
    <3>2. run.guid \in anchors /\ run.guid \in anchors'
      BY <2>4, <2>14, <3>1, KeepsOwn DEF Building
    <3>3. Held.has = Whole
      <4>1. Held.has \subseteq Whole
        BY <1>1, <2>2 DEF Records, DiskType, Held
      <4> QED
        BY <2>4, <3>1, <4>1 DEF Whole, Building
    <3> QED
      BY <2>3, <2>4, <2>5, <3>1, <3>2, <3>3 DEF Reached, Building, Held
  <2>15. CASE Write
    <3>1. /\ ~Create /\ run.step = "save" /\ disks' = disks /\ anchors' = anchors
          /\ run'.step \in {"replace", "end"}
      BY <1>1, <1>2, <2>2, <2>15, Course, Progress DEF After, At, Write
    <3> QED
      BY <2>3, <2>4, <2>5, <3>1 DEF Reached, Building, Held
  <2>16. CASE Replace
    <3>1. run'.step = "end"
      BY <1>1, <2>2, <2>16, Course DEF After, At, Order
    <3> QED
      BY <3>1 DEF Reached, Building
  <2>17. ~PurgeSteps /\ ~Drop /\ ~LeftoverPoints /\ ~CloseBackup /\ ~End /\ ~Stop
    BY <1>1, <1>2, <2>2, Course, Lanes DEF PurgeSteps, At
  <2> QED
    BY <1>4, <2>6, <2>7, <2>8, <2>9, <2>10, <2>11, <2>12, <2>13, <2>14, <2>15, <2>16, <2>17,
       Zenon DEF Working, PrepareSteps, SharedSteps
<1>5. CASE Explores \/ Moving \/ Edit
  BY <1>2, <1>5, Turns DEF Idle
<1>6. CASE UNCHANGED vars
  BY <1>6 DEF Reached, Held, vars
<1> QED
  BY <1>3, <1>4, <1>5, <1>6, Kinds, Zenon

(* What is left after anchors were dropped: those that could not be, and   *)
(* the operator was told of them.                                          *)
LEMMA Dropped ==
  ASSUME NEW gs, DropAnchors(gs)
  PROVE  /\ anchors' \subseteq anchors /\ excused \subseteq excused'
         /\ \A g \in anchors' : g \in gs => g \in excused'
  BY DEF DropAnchors

LEMMA Origin ==
  ASSUME Records, Order, Working
  PROVE  /\ excused \subseteq excused'
         /\ anchors' \subseteq anchors \/ (Send /\ anchors' \subseteq anchors \cup {run.guid})
<1>1. ASSUME NEW gs, DropAnchors(gs) PROVE anchors' \subseteq anchors /\ excused \subseteq excused'
  BY <1>1, Dropped
<1>2. CASE Send
  BY <1>2 DEF Send
<1>3. CASE Judge \/ Readback \/ Register \/ Drop
  BY <1>1, <1>3, Zenon DEF Judge, Readback, GiveUp, Register, Drop
<1>4. CASE Reread
  BY <1>4 DEF Reread
<1>5. CASE Write \/ Stop
  <2>1. anchors' = anchors
    BY <1>5, Zenon DEF Write, Stop
  <2>2. excused' = excused \/ excused' = excused \cup ({run.guid} \ {0})
    BY <1>5, Zenon DEF Write, Stop
  <2> QED
    BY <2>1, <2>2
<1>6. CASE \/ Create \/ Track \/ SnapKeystore \/ SendKeystore \/ Export \/ PurgeSteps
           \/ LeftoverPoints \/ CloseBackup \/ Replace \/ End
  <2>1. anchors' = anchors /\ excused' = excused
    BY <1>6, Zenon DEF Create, Track, SnapKeystore, SendKeystore, Export, PurgeSteps,
       DestroyLabelledPool, Overwrite, Zap, PurgeVerdict, LeftoverPoints, CloseBackup, Replace, End
  <2> QED
    BY <2>1
<1> QED
  BY <1>2, <1>3, <1>4, <1>5, <1>6, Zenon DEF Working, PrepareSteps, SharedSteps

(* A command that ends leaves no anchor of the pool that prepare made,     *)
(* unless it is excused or registered.                                     *)
LEMMA LetGo ==
  ASSUME Records, Order, Prepared, run.cmd = "prepare", run.step # "create", Working,
         run' = NoRun, ~End
  PROVE  run.guid \in anchors' => run.guid \in excused'
<1>1. run.guid # 0
  BY BoundsAssumption DEF Prepared, Guids
<1>2. ASSUME NEW w, GiveUp(w) PROVE run.guid \in anchors' => run.guid \in excused'
  BY <1>2, Dropped DEF GiveUp
<1>3. CASE Judge \/ Readback
  <2>1. \A s : /\ [run EXCEPT !.step = s].cmd = run.cmd
               /\ [run EXCEPT !.step = s, !.tracked = TRUE].cmd = run.cmd
    BY DEF Records, RunType
  <2>2. /\ ~(Judge /\ Go("readback"))
        /\ run' # [run EXCEPT !.step = "reread", !.tracked = TRUE]
    BY <2>1, NoRunIs DEF Go
  <2> QED
    BY <1>2, <1>3, <2>2, Zenon DEF Judge, Readback
<1>4. CASE Reread
  <2>1. \A s : [run EXCEPT !.step = s, !.tracked = FALSE].cmd = run.cmd
    BY DEF Records, RunType
  <2>2. anchors' = anchors \ {run.guid}
    BY <1>4, <2>1, NoRunIs DEF Reread
  <2> QED
    BY <2>2
<1>5. CASE Stop
  BY <1>1, <1>5 DEF Stop
<1>6. CASE Write
  <2>1. \A s : [run EXCEPT !.step = s].cmd = run.cmd
    BY DEF Records, RunType
  <2>2. ~Go("replace")
    BY <2>1, NoRunIs DEF Go
  <2>3. excused' = excused \cup ({run.guid} \ {0})
    BY <1>6, <2>2, Zenon DEF Write
  <2> QED
    BY <1>1, <2>3
<1>7. /\ ~Create /\ ~Track /\ ~SnapKeystore /\ ~SendKeystore /\ ~Export /\ ~Register
      /\ ~PurgeSteps /\ ~Send /\ ~Drop /\ ~LeftoverPoints /\ ~CloseBackup /\ ~Replace
  <2>1. run'.cmd # run.cmd
    BY NoRunIs
  <2>2. ~PurgeSteps /\ ~Create /\ ~Drop /\ ~LeftoverPoints /\ ~CloseBackup
    BY Course, Lanes DEF PurgeSteps, At
  <2> QED
    BY <2>1, <2>2, Course DEF After, Kept
<1> QED
  BY <1>3, <1>4, <1>5, <1>6, <1>7, Zenon DEF Working, PrepareSteps, SharedSteps

(* The pools of an edited copy: those it had, but for what was taken away. *)
LEMMA Left ==
  ASSUME NEW c \in Config, NEW e \in Config, NEW gs,
         \A n \in Names : c[n].guid # 0 => e[n].guid = c[n].guid \/ c[n].guid \in gs
  PROVE  \A g \in Registered(c) : g \in Registered(e) \/ g \in gs
<1>1. ASSUME NEW g \in Registered(c) PROVE g \in Registered(e) \/ g \in gs
  <2>1. PICK n \in Names : c[n].guid = g /\ g # 0
    BY Entries
  <2> QED
    BY <2>1, Entries
<1> QED
  BY <1>1

Claimed == IF run.cmd = "prepare" /\ run.step # "create" THEN {run.guid} ELSE {}

(* Register and drop take the anchors of the entries that go before them.  *)
LEMMA LetDrop ==
  ASSUME DiskInv, DiskInv', ~Idle, Copied, Replacing, Owned, Drop \/ Register
  PROVE  anchors' \subseteq Registered(run'.cfg) \cup excused'
<1>1. /\ Records /\ Order /\ Prepared /\ reg.cfg \in Config /\ run.cfg \in Config
      /\ run'.cfg \in Config /\ run.goes \subseteq Names
  BY DEF DiskInv, TypeOK, Records, RunType
<1>2. /\ anchors \subseteq Registered(reg.cfg) \cup excused \cup Claimed
      /\ ~Saving /\ run.step # "create" /\ run.step # "end"
  BY DEF Owned, Claimed, Drop, Register, At, Saving
<1>3. \A n \in Names : run.cfg[n].guid = reg.cfg[n].guid
  BY <1>2 DEF Copied
<1>4. None.guid = 0
  BY DEF None
<1>5. CASE Drop
  <2> DEFINE gs == ({run.guid} \cup {run.cfg[n].guid : n \in run.goes}) \ {0}
  <2>1. run'.cfg = Without(run.cfg, run.goes)
    BY <1>1, <1>5, Course DEF After
  <2>2. DropAnchors(gs)
    BY <1>5 DEF Drop
  <2>3. \A n \in Names : reg.cfg[n].guid # 0 =>
          run'.cfg[n].guid = reg.cfg[n].guid \/ reg.cfg[n].guid \in gs
    BY <1>3, <2>1 DEF Without
  <2>4. Claimed = {}
    BY <1>1, <1>5, Course, Lanes DEF At, Claimed
  <2> HIDE DEF gs
  <2>5. \A g \in Registered(reg.cfg) : g \in Registered(run'.cfg) \/ g \in gs
    BY <1>1, <2>3, Left
  <2>6. /\ anchors' \subseteq anchors /\ excused \subseteq excused'
        /\ \A g \in anchors' : g \in gs => g \in excused'
    BY <2>2, Dropped
  <2> QED
    BY <1>2, <2>4, <2>5, <2>6
<1>6. CASE Register
  <2> DEFINE gs == {run.cfg[n].guid : n \in run.goes}
  <2>1. run.cmd = "prepare" /\ run.name \in Names
    BY <1>1, <1>6, Lanes DEF Register, At, Building, Prepared
  <2>2. PICK own \in BOOLEAN :
           run'.cfg = [Without(run.cfg, run.goes) EXCEPT ![run.name] =
                        [guid |-> run.guid, id |-> RegistryNames(run.disk).id,
                         box |-> RegistryNames(run.disk).box, own |-> own]]
    BY <1>1, <1>6, Course DEF After
  <2>3. /\ run'.cfg[run.name].guid = run.guid
        /\ \A n \in Names \ {run.name} : run'.cfg[n] = IF n \in run.goes THEN None ELSE run.cfg[n]
    BY <2>1, <2>2 DEF Without
  <2>4. reg.cfg[run.name].guid # 0 => run.name \in run.goes
    BY <1>2, <2>1 DEF Replacing
  <2>5. \A n \in Names : reg.cfg[n].guid # 0 =>
          run'.cfg[n].guid = reg.cfg[n].guid \/ reg.cfg[n].guid \in gs
    BY <1>3, <2>3, <2>4
  <2>6. DropAnchors(gs)
    BY <1>6 DEF Register
  <2>7. Claimed = {run.guid} /\ run.guid \in Registered(run'.cfg)
    <3>1. run.guid # 0
      BY <1>1, <1>2, <2>1, BoundsAssumption DEF Prepared, Guids
    <3> QED
      BY <1>1, <1>2, <2>1, <2>3, <3>1, Entries DEF Claimed
  <2> HIDE DEF gs
  <2>8. \A g \in Registered(reg.cfg) : g \in Registered(run'.cfg) \/ g \in gs
    BY <1>1, <2>5, Left
  <2>9. /\ anchors' \subseteq anchors /\ excused \subseteq excused'
        /\ \A g \in anchors' : g \in gs => g \in excused'
    BY <2>6, Dropped
  <2> QED
    BY <1>2, <2>7, <2>8, <2>9
<1> QED
  BY <1>5, <1>6

(* Two copies with the same pools stand for the same drives.               *)
LEMMA SamePools ==
  ASSUME NEW c \in Config, NEW e \in Config, \A n \in Names : c[n].guid = e[n].guid
  PROVE  Registered(c) = Registered(e)
<1>1. \A g : g \in Registered(c) <=> g \in Registered(e)
  BY Entries
<1> QED
  BY <1>1

LEMMA OwnedStep ==
  ASSUME Overlap = FALSE, DiskInv, Lone, Copied, Replacing, Owned, [Next]_vars
  PROVE  Owned'
<1>1. /\ Records /\ Order /\ Prepared /\ reg.cfg \in Config /\ run.cfg \in Config
      /\ DiskInv' /\ Order' /\ reg'.cfg \in Config /\ run'.cfg \in Config
  BY DiskStep DEF DiskInv, TypeOK, Records, RunType
<1>2. /\ anchors \subseteq Registered(reg.cfg) \cup excused \cup Claimed
      /\ run.step \in Closing \cup {"points"} => anchors \subseteq Registered(run.cfg) \cup excused
  BY DEF Owned, Claimed
<1>3. Idle => Claimed = {} /\ run = NoRun /\ run.step = ""
  BY <1>1, NoRunIs DEF Claimed, Idle, Order
<1> SUFFICES /\ anchors' \subseteq Registered(reg'.cfg) \cup excused' \cup Claimed'
             /\ run'.step \in Closing \cup {"points"} =>
                  anchors' \subseteq Registered(run'.cfg) \cup excused'
  BY DEF Owned, Claimed
<1>4. CASE Starting
  <2>1. Idle /\ UNCHANGED <<reg, anchors, excused>>
    BY <1>4, Turns
  <2>2. \A n \in Names : run'.cfg[n].guid = reg.cfg[n].guid
    BY <1>4, CopyGuids
  <2>3. Registered(run'.cfg) = Registered(reg.cfg)
    BY <1>1, <2>2, SamePools
  <2> QED
    BY <1>2, <1>3, <2>1, <2>3
<1>5. CASE Explores
  <2>1. Idle /\ UNCHANGED <<anchors, run>>
    BY <1>5, Turns
  <2>2. \/ reg' = reg /\ excused' = excused
        \/ excused' = excused \cup (Registered(reg.cfg) \ Registered(reg'.cfg))
    <3>1. \A c : [bad |-> FALSE, cfg |-> c].cfg = c
      OBVIOUS
    <3>2. \A c : Saved(c) => excused' = excused \cup (Registered(reg.cfg) \ Registered(reg'.cfg))
      BY <3>1 DEF Saved
    <3> QED
      BY <1>5, <3>2, Zenon DEF Explores, Explore, RemoveStale, AutoRegister
  <2> QED
    BY <1>2, <1>3, <2>1, <2>2 DEF Closing
<1>6. CASE Moving \/ Edit
  <2>1. Idle /\ UNCHANGED <<anchors, run, excused>> /\ reg'.cfg = reg.cfg
    BY <1>6, Turns
  <2> QED
    BY <1>2, <1>3, <2>1 DEF Closing
<1>7. CASE UNCHANGED vars
  BY <1>2, <1>7 DEF vars, Claimed
<1>8. CASE Working
  <2>1. /\ excused \subseteq excused' /\ ~Idle
        /\ anchors' \subseteq anchors \/ (Send /\ anchors' \subseteq anchors \cup {run.guid})
        /\ reg' = reg \/ (Replace /\ reg'.cfg = run.cfg)
    BY <1>1, <1>8, Origin, Turns, Copies
  <2>2. ~Saving => Registered(run.cfg) = Registered(reg.cfg)
    BY <1>1, <2>1, SamePools DEF Copied
  <2>3. run.step = "create" => Claimed = {}
    BY DEF Claimed
  <2>4. CASE run' = NoRun
    <3>1. /\ ~Send /\ ~Replace /\ run'.step = ""
      BY <1>1, <2>4, NoRunIs, Course, <2>1 DEF After, Kept, Idle
    <3>2. run'.step \notin Closing \cup {"points"}
      BY <3>1 DEF Closing
    <3>3. CASE End
      <4>1. run.step = "end" /\ ~Saving
        BY <3>3 DEF End, At, Saving
      <4> QED
        BY <1>2, <2>1, <2>2, <3>1, <3>2, <4>1 DEF Closing
    <3>4. CASE ~End /\ Claimed # {}
      <4>1. run.cmd = "prepare" /\ run.step # "create" /\ Claimed = {run.guid}
        BY <3>4 DEF Claimed
      <4>2. run.guid \in anchors' => run.guid \in excused'
        BY <1>1, <1>8, <2>4, <3>4, <4>1, LetGo
      <4> QED
        BY <1>2, <2>1, <3>1, <3>2, <4>1, <4>2
    <3>5. CASE Claimed = {}
      BY <1>2, <2>1, <3>1, <3>2, <3>5
    <3> QED
      BY <3>3, <3>4, <3>5
  <2>5. CASE run' # NoRun
    <3>1. Kept(run, run') /\ run'.cmd = run.cmd
      BY <1>8, <2>5, Turns DEF Kept
    <3>2. Claimed \subseteq Claimed'
      <4>1. CASE run.step = "create"
        BY <2>3, <4>1
      <4>2. CASE run.step # "create"
        <5>1. ~Create
          BY <4>2 DEF Create, At
        <5>2. run'.guid = run.guid /\ (run'.step = "create" => run.cmd # "prepare")
          <6>1. run'.step = "create" => run.cmd # "prepare"
            <7>1. PrepareSteps => run'.step # "create"
              BY <1>1, <2>5, Course DEF After, PrepareSteps
            <7>2. PurgeSteps => run.cmd # "prepare"
              BY <1>1, Course, Lanes DEF PurgeSteps, At
            <7>3. SharedSteps => run'.step # "create"
              <8>1. Replace => run'.step \in {"end", "send", "points"}
                BY <1>1, Course DEF After, At, Order
              <8>2. Send \/ Drop => run'.step # "create"
                BY <1>1, Course DEF After
              <8>3. LeftoverPoints \/ CloseBackup \/ Write \/ End \/ Stop => run'.step # "create"
                BY <1>1, <2>5, Course DEF After
              <8> QED
                BY <8>1, <8>2, <8>3, Zenon DEF SharedSteps
            <7> QED
              BY <1>8, <7>1, <7>2, <7>3 DEF Working
          <6> QED
            BY <1>8, <2>5, <5>1, <6>1, Paths
        <5> QED
          BY <3>1, <4>2, <5>2 DEF Claimed
      <4> QED
        BY <4>1, <4>2
    <3>3. anchors' \subseteq Registered(reg'.cfg) \cup excused' \cup Claimed'
      <4>1. CASE Replace
        <5>1. reg'.cfg = run.cfg /\ anchors' = anchors /\ run.step \in Closing
          <6>1. \A c : [bad |-> FALSE, cfg |-> c].cfg = c
            OBVIOUS
          <6> QED
            BY <4>1, <6>1 DEF Replace, At, Closing
        <5> QED
          BY <1>2, <2>1, <5>1
      <4>2. CASE Send
        <5>1. run.guid \in Registered(reg.cfg) \cup Claimed
          <6>1. run.cmd \in {"prepare", "backup"} /\ run.step = "send"
            BY <1>1, <4>2, Lanes DEF Send, At
          <6> QED
            BY <2>1, <6>1 DEF Copied, Claimed
        <5>2. reg' = reg
          BY <4>2 DEF Send
        <5> QED
          BY <1>2, <2>1, <3>2, <5>1, <5>2
      <4>3. CASE ~Replace /\ ~Send
        BY <1>2, <2>1, <3>2, <4>3
      <4> QED
        BY <4>1, <4>2, <4>3
    <3>4. ASSUME run'.step \in Closing \cup {"points"}
          PROVE  anchors' \subseteq Registered(run'.cfg) \cup excused'
      <4>1. CASE Drop \/ Register
        BY <1>1, <2>1, <4>1, LetDrop
      <4>2. CASE LeftoverPoints \/ Write \/ Replace
        <5>1. run.step \in Closing \cup {"points"} /\ run'.cfg = run.cfg /\ ~Send
          BY <1>1, <2>5, <4>2, Course DEF After, At, Closing
        <5> QED
          BY <1>2, <2>1, <5>1
      <4>3. CASE CloseBackup
        <5>1. /\ run'.cfg = run.cfg /\ ~Saving /\ Claimed = {} /\ ~Send
          BY <1>1, <2>5, <4>3, Course, Lanes DEF After, At, Saving, Claimed
        <5> QED
          BY <1>2, <2>1, <2>2, <5>1
      <4>4. PrepareSteps => Register
        BY <1>1, <2>5, <3>4, Course DEF After, PrepareSteps, Closing
      <4>5. ~PurgeSteps /\ ~Send /\ ~End /\ ~Stop
        <5>1. ~PurgeSteps
          BY <1>1, <2>5, <3>4, Course DEF After, PurgeSteps, Closing
        <5> QED
          BY <1>1, <2>5, <3>4, <5>1, Course DEF After, Closing
      <4> QED
        BY <1>8, <4>1, <4>2, <4>3, <4>4, <4>5, Zenon DEF Working, SharedSteps
    <3> QED
      BY <3>3, <3>4
  <2> QED
    BY <2>4, <2>5
<1> QED
  BY <1>4, <1>5, <1>6, <1>7, <1>8, Kinds, Zenon

(* AnchorsKept's step: which anchors a command takes.                      *)
LEMMA DropsOnly ==
  ASSUME Overlap = FALSE, DiskInv, Lone, Copied, Going, [Next]_vars
  PROVE  \A g \in anchors \ anchors' :
            \/ \E n \in run.agreed : run.cfg[n].guid = g
            \/ run.guid = g \/ ~Elsewhere(g)
<1>0. 0 \notin Guids
  BY BoundsAssumption DEF Guids
<1>1. /\ Records /\ Order /\ anchors \subseteq Guids /\ run.goes \subseteq Names
      /\ 0 \notin Guids
  BY <1>0 DEF DiskInv, TypeOK, Records, RunType
<1> SUFFICES ASSUME NEW g \in anchors \ anchors'
             PROVE  \/ \E n \in run.agreed : run.cfg[n].guid = g
                    \/ run.guid = g \/ ~Elsewhere(g)
  OBVIOUS
<1>2. ASSUME NEW gs, DropAnchors(gs) PROVE g \in gs
  BY <1>2 DEF DropAnchors
<1>3. CASE Judge \/ Readback
  BY <1>2, <1>3 DEF Judge, Readback, GiveUp
<1>4. CASE Reread
  BY <1>4 DEF Reread
<1>5. CASE Drop \/ Register
  <2>1. run.guid = g \/ g \in {run.cfg[n].guid : n \in run.goes}
    BY <1>2, <1>5, Zenon DEF Drop, Register
  <2>2. ASSUME NEW n \in run.goes \ run.agreed, run.cfg[n].guid = g PROVE ~Elsewhere(g)
    <3>1. run.step \in {"drop", "register"} /\ ~Idle
      BY <1>1, <1>5, Lanes DEF Drop, Register, At
    <3>2. reg.cfg[n].guid = g /\ g # 0
      BY <1>1, <2>2, <3>1 DEF Copied, Saving
    <3> QED
      BY <3>1, <3>2 DEF Going
  <2> QED
    BY <2>1, <2>2
<1>6. CASE Send
  BY <1>6 DEF Send
<1> QED
  BY <1>3, <1>4, <1>5, <1>6, Touched, Zenon

LEMMA AnchorHolds ==
  ASSUME Overlap = FALSE
  PROVE  Spec => [](DiskInv /\ EntryInv /\ Reached /\ Owned)
<1>1. Init => DiskInv /\ EntryInv /\ Reached /\ Owned
  BY DiskInit, RegInit DEF RegInv, EntryInv
<1>2. ASSUME DiskInv /\ EntryInv, Reached /\ Owned, [Next]_vars PROVE (Reached /\ Owned)'
  <2>1. Lone /\ Copied /\ Replacing
    BY <1>2 DEF EntryInv
  <2> QED
    BY <1>2, <2>1, ReachedStep, OwnedStep
<1> QED
  BY <1>1, <1>2, EntryHolds, PTL DEF Spec

(* Origin holds anchors of registered drives, and of those the operator    *)
(* was told of; the anchors of a pool that is on another disk than the one *)
(* a command works on go only by the operator's word, while explore and    *)
(* hand edits wait for a running command (anchors.py drop_anchors_of,      *)
(* purge.py _entries_to_remove, prepare.py _stale_entries).                *)
THEOREM Anchors ==
  ASSUME Overlap = FALSE
  PROVE  Spec => AnchorsTrue
<1> DEFINE A == \A g \in anchors \ anchors' :
                   \/ \E n \in run.agreed : run.cfg[n].guid = g
                   \/ run.guid = g \/ ~Elsewhere(g)
<1>1. Owned => AnchorsOwned
  <2>1. Idle => run.cmd # "prepare"
    BY DEF Idle
  <2> QED
    BY <2>1 DEF Owned, AnchorsOwned
<1>2. DiskInv /\ EntryInv /\ [Next]_vars => [A]_vars
  BY DropsOnly DEF EntryInv
<1>3. AnchorsKept <=> [][A]_vars
  BY DEF AnchorsKept
<1> HIDE DEF A
<1> QED
  BY <1>1, <1>2, <1>3, AnchorHolds, PTL DEF Spec, AnchorsTrue

-----------------------------------------------------------------------------
(* Proven's step: what a command registers is on its own disk.             *)
LEMMA ProvenStep ==
  ASSUME Overlap = FALSE, DiskInv, Lone, Copied, Reached, [Next]_vars
  PROVE  \A n \in Names :
          At("replace") /\ reg'.cfg[n].guid \notin Registered(reg.cfg) \cup {0} =>
              /\ reg'.cfg[n].guid \in anchors
              /\ \E d \in Disks : /\ disks[d].guid = reg'.cfg[n].guid
                                  /\ disks[d].has = Whole /\ disks[d].imp = "no"
<1>1. Records /\ Order /\ Prepared /\ reg.cfg \in Config
  BY DEF DiskInv, TypeOK, Records
<1> SUFFICES ASSUME NEW n \in Names, run.step = "replace",
                    reg'.cfg[n].guid \notin Registered(reg.cfg) \cup {0}
             PROVE  /\ reg'.cfg[n].guid \in anchors
                    /\ \E d \in Disks : /\ disks[d].guid = reg'.cfg[n].guid
                                        /\ disks[d].has = Whole /\ disks[d].imp = "no"
  BY DEF At
<1>2. reg'.cfg[n].guid # reg.cfg[n].guid
  BY <1>1, Entries
<1>3. ~Idle /\ exp.step = ""
  BY <1>1, Lanes DEF Lone
<1>4. Replace
  <2>1. ~RemoveStale /\ ~AutoRegister
    BY <1>3 DEF RemoveStale, AutoRegister
  <2>2. ~Edit
    BY <1>3, Turns
  <2> QED
    BY <1>2, <2>1, <2>2, Touched
<1>5. reg'.cfg = run.cfg
  <2>1. \A c : [bad |-> FALSE, cfg |-> c].cfg = c
    OBVIOUS
  <2> QED
    BY <1>4, <2>1 DEF Replace
<1>6. run.cmd = "prepare" /\ run.cfg[n].guid = run.guid
  BY <1>2, <1>3, <1>5 DEF Copied
<1>7. Held.has = Whole /\ Held.imp = "no" /\ run.guid \in anchors /\ Held.guid = run.guid
  BY <1>6 DEF Reached, Prepared, DiskInv
<1>8. run.disk \in Disks
  BY <1>1, <1>6 DEF Order
<1> QED
  BY <1>5, <1>6, <1>7, <1>8 DEF Held

(* What purge's steps write on the disk.                                   *)
LEMMA Erased ==
  ASSUME DiskInv, run.cmd = "purge"
  PROVE  /\ Overwrite /\ run'.fails = {} /\ ReadLabel(run.disk) # 0 =>
              disks'[run.disk].guid = 0
         /\ Zap /\ run'.fails = {} =>
              /\ run.fails = {} /\ ~disks'[run.disk].table
              /\ disks'[run.disk].guid = Held.guid
         /\ PurgeVerdict => run' = NoRun \/ (run.fails = {} /\ disks' = disks)
         /\ Drop => disks' = disks
         /\ Replace => disks' = disks
         /\ Write => run' = NoRun \/ disks' = disks
<1>1. /\ Records /\ run \in RunType /\ disks \in [Disks \cup {Sys} -> DiskType]
      /\ run.disk \in Disks /\ Held \in DiskType
  BY DEF DiskInv, TypeOK, Records, Order, Held
<1>2. ASSUME Overwrite, run'.fails = {}, ReadLabel(run.disk) # 0
      PROVE  disks'[run.disk].guid = 0
  <2>1. \A s, f : [run EXCEPT !.step = s, !.fails = f].fails = f
    BY <1>1, Zenon DEF RunType
  <2>2. PICK undone \in SUBSET {"first", "last"}, told \in BOOLEAN :
            /\ disks' = [disks EXCEPT ![run.disk] = Overwritten(@, undone = {})]
            /\ run' = [run EXCEPT !.step = "zap", !.fails =
                  {f \in {"overwrite", "label"} :
                     /\ f = "overwrite" => undone # {} /\ told
                     /\ f = "label" =>
                          ReadLabel(run.disk) # 0 /\ undone # {}}]
    <3>1. ~(run' = [run EXCEPT !.step = "verdict", !.fails = {"held"}])
      <4>1. [run EXCEPT !.step = "verdict", !.fails = {"held"}].fails = {"held"}
        BY <2>1, Zenon
      <4>2. {"held"} # {}
        OBVIOUS
      <4> QED
        BY <1>2, <4>1, <4>2, Zenon
    <3> QED
      BY <1>2, <3>1, Zenon DEF Overwrite
  <2>3. undone = {}
    <3> DEFINE fs == {f \in {"overwrite", "label"} :
                     /\ f = "overwrite" => undone # {} /\ told
                     /\ f = "label" =>
                          ReadLabel(run.disk) # 0 /\ undone # {}}
    <3>1. run'.fails = fs
      <4>1. run' = [run EXCEPT !.step = "zap", !.fails = fs]
        BY <2>2
      <4> HIDE DEF fs
      <4> QED
        BY <2>1, <4>1
    <3>2. "label" \notin fs
      BY <1>2, <3>1
    <3> QED
      BY <1>2, <3>2
  <2>4. disks'[run.disk] = Overwritten(Held, TRUE)
    BY <1>1, <2>2, <2>3 DEF Held
  <2> QED
    BY <1>1, <2>4, DiskOverwritten
<1>3. ASSUME Zap, run'.fails = {}
      PROVE  /\ run.fails = {} /\ ~disks'[run.disk].table
             /\ disks'[run.disk].guid = Held.guid
  <2>1. PICK undone \in SUBSET {"wipefs", "zap"} :
         /\ disks' = [disks EXCEPT ![run.disk] = Zapped(@, undone # {"wipefs", "zap"})]
         /\ run' = [run EXCEPT !.step = "verdict", !.fails = @ \cup undone]
    BY <1>3, Zenon DEF Zap
  <2>2. run'.fails = run.fails \cup undone
    <3> DEFINE fs == run.fails \cup undone
    <3>1. run' = [run EXCEPT !.step = "verdict", !.fails = fs]
      BY <2>1
    <3> HIDE DEF fs
    <3>2. run'.fails = fs
      BY <1>1, <3>1 DEF RunType
    <3> QED
      BY <3>2 DEF fs
  <2>3. run.fails = {} /\ undone = {}
    BY <1>3, <2>2
  <2>4. disks'[run.disk] = Zapped(Held, TRUE)
    BY <1>1, <2>1, <2>3 DEF Held
  <2> QED
    BY <1>1, <2>3, <2>4, DiskZapped
<1>4. /\ PurgeVerdict => run' = NoRun \/ (run.fails = {} /\ disks' = disks)
      /\ Drop => disks' = disks
      /\ Replace => disks' = disks
      /\ Write => run' = NoRun \/ disks' = disks
  BY Zenon DEF PurgeVerdict, Drop, Replace, Write, Leave
<1> QED
  BY <1>2, <1>3, <1>4, Zenon

LEMMA WipedStep ==
  ASSUME Overlap = FALSE, DiskInv, Lone, Copied, Wiped, [Next]_vars
  PROVE  Wiped'
<1>1. /\ Records /\ Labels /\ Order /\ Order' /\ reg.cfg \in Config /\ run.cfg \in Config
      /\ anchors' \subseteq Guids
  BY OrderStep, OriginStep DEF DiskInv, TypeOK, Records, RunType
<1>0. 0 \notin Guids
  BY BoundsAssumption DEF Guids
<1> SUFFICES ASSUME run'.cmd = "purge" PROVE Wiped'
  BY DEF Wiped
<1>2. run' # NoRun /\ ~Idle'
  BY NoRunIs DEF Idle
<1>3. CASE Starting
  <2>1. Loaded = reg.cfg /\ reg' = reg
    BY <1>3, Turns
  <2>2. ASSUME NEW d \in Disks \cup {Sys}, StartPurge(d) PROVE Wiped'
    <3>1. PICK b \in SUBSET Recognised(Loaded, d, {"bus"}) :
             Begun(run', "purge", IF ReadLabel(d) # 0 THEN "destroy" ELSE "wipe", d, "",
                  Loaded, IF disks[d].name = SysPool THEN 0 ELSE ReadLabel(d),
                  Recognised(Loaded, d, {"label", "disk"}) \cup b, b, FALSE, "")
      BY <2>2, Beginnings, Zenon
    <3>2. /\ run'.disk = d /\ run'.step \in {"destroy", "wipe"} /\ run'.guid \in {0, ReadLabel(d)}
          /\ Recognised(reg.cfg, d, {"label", "disk"}) \subseteq run'.goes
          /\ disks' = disks
      BY <2>1, <2>2, <3>1 DEF Begun, StartPurge
    <3>3. run'.guid # 0 => Held'.table /\ Held'.guid = run'.guid
      BY <3>2 DEF ReadLabel, Held
    <3>4. ASSUME NEW n \in Names, reg.cfg[n].guid = run'.guid, run'.guid # 0
          PROVE  n \in run'.goes
      <4>1. n \in Known(reg.cfg)
        BY <1>1, <3>4, Entries
      <4>2. Evidence(reg.cfg[n], d) = "label"
        BY <3>2, <3>4 DEF Evidence
      <4> QED
        BY <3>2, <4>1, <4>2 DEF Recognised
    <3> QED
      BY <2>1, <3>2, <3>3, <3>4 DEF Wiped, Closing
  <2>3. \A d \in Disks, m \in Names : ~StartPrepare(d, m)
    BY Beginnings DEF Begun
  <2>4. /\ \A m \in Names : ~Forget(m) /\ ~Retention(m)
        /\ \A g \in Guids : ~ForgetGuid(g)
        /\ \A ns \in SUBSET Names : ~Fix(ns)
        /\ \A m \in Names, d \in Disks : ~StartBackup(m, d)
    BY Beginnings DEF Begun
  <2> QED
    BY <1>3, <2>2, <2>3, <2>4, Zenon DEF Starting
<1>4. CASE Working
  <2>1. ~Idle /\ Kept(run, run')
    BY <1>2, <1>4, Turns
  <2>2. /\ run.cmd = "purge" /\ run'.disk = run.disk /\ run.disk \in Disks
        /\ run'.goes = run.goes
    BY <1>1, <2>1 DEF Kept, Order
  <2>3. ~PrepareSteps
    BY <1>1, <2>2, Course, Lanes DEF PrepareSteps, At, Building
  <2>4. ~Send /\ ~LeftoverPoints /\ ~CloseBackup /\ ~End /\ ~Stop
    BY <1>1, <1>2, <2>2, Course, Lanes DEF At
  <2>5. /\ run'.guid = run.guid /\ excused \subseteq excused' /\ anchors' \subseteq anchors
        /\ \A d \in Disks \ {run.disk} : disks'[d] = disks[d]
    <3>1. ~Create
      BY <2>3 DEF PrepareSteps
    <3> QED
      BY <1>1, <1>2, <1>4, <2>1, <2>4, <3>1, Paths, Origin, Media
  <2>6. Held' = disks'[run.disk]
    BY <2>2 DEF Held
  <2>7. /\ run.step \in {"destroy", "wipe"} /\ run.guid # 0 =>
             Held.table /\ Held.guid = run.guid
        /\ run.step = "zap" /\ run.guid # 0 /\ run.fails = {} => Held.guid = 0
        /\ run.step \in {"zap", "verdict", "drop"} \cup Closing /\ run.guid # 0 =>
             \A d \in Disks \ {run.disk} : disks[d].guid # run.guid
        /\ (run.step = "verdict" /\ run.fails = {}) \/ run.step \in {"drop"} \cup Closing =>
             ~Held.table /\ (run.guid # 0 => Held.guid = 0)
        /\ run.step \notin Closing =>
             \A n \in Names : reg.cfg[n].guid = run.guid /\ run.guid # 0 => n \in run.goes
        /\ run.step \in Closing =>
             /\ run.guid \in anchors => run.guid \in excused
             /\ run.guid # 0 => \A n \in Names : run.cfg[n].guid # run.guid
    BY <2>2 DEF Wiped
  <2>8. ~Replace => reg' = reg
    BY <1>4, Copies
  <2>9. CASE DestroyLabelledPool
    <3>1. run.step = "destroy" /\ run'.step = "wipe" /\ ~Replace
      BY <1>1, <1>2, <2>9, Course DEF After, At
    <3>2. Same(disks[run.disk], disks'[run.disk])
      <4>1. ~Makes(run.disk) /\ ~Wipes(run.disk)
        BY <3>1 DEF Makes, Wipes, At
      <4> QED
        BY <2>2, <4>1, Media
    <3> QED
      BY <2>2, <2>5, <2>6, <2>7, <2>8, <3>1, <3>2 DEF Wiped, Closing, Same, Held
  <2>10. CASE Overwrite
    <3>1. /\ run.step = "wipe" /\ run'.step \in {"zap", "verdict"} /\ ~Replace
          /\ run'.step = "verdict" => run'.fails # {}
      BY <1>1, <1>2, <2>10, Course DEF After, At
    <3>2. ASSUME run.guid # 0
          PROVE  /\ run'.fails = {} => disks'[run.disk].guid = 0
                 /\ \A d \in Disks \ {run.disk} : disks'[d].guid # run.guid
      <4>1. Held.table /\ Held.guid = run.guid
        BY <2>7, <3>1, <3>2
      <4>2. ReadLabel(run.disk) # 0
        BY <3>2, <4>1 DEF ReadLabel, Held
      <4>3. run'.fails = {} => disks'[run.disk].guid = 0
        BY <2>2, <2>10, <4>2, Erased
      <4>4. \A d \in Disks \ {run.disk} : disks[d].guid # run.guid
        BY <1>1, <2>2, <3>2, <4>1 DEF Labels, Held
      <4> QED
        BY <2>5, <4>3, <4>4
    <3> QED
      BY <2>2, <2>5, <2>6, <2>7, <2>8, <3>1, <3>2 DEF Wiped, Closing
  <2>11. CASE Zap
    <3>1. run.step = "zap" /\ run'.step = "verdict" /\ ~Replace
      BY <1>1, <1>2, <2>11, Course DEF After, At
    <3>2. run'.fails = {} =>
            /\ run.fails = {} /\ ~disks'[run.disk].table
            /\ disks'[run.disk].guid = Held.guid
      BY <2>2, <2>11, Erased
    <3> QED
      BY <2>2, <2>5, <2>6, <2>7, <2>8, <3>1, <3>2 DEF Wiped, Closing
  <2>12. CASE PurgeVerdict
    <3>1. /\ run.step = "verdict" /\ run'.step = "drop" /\ ~Replace
          /\ run.fails = {} /\ disks' = disks
      BY <1>1, <1>2, <2>2, <2>12, Course, Erased DEF After, At
    <3> QED
      BY <2>2, <2>5, <2>6, <2>7, <2>8, <3>1 DEF Wiped, Closing, Held
  <2>13. CASE Drop
    <3>1. /\ run.step = "drop" /\ run'.step \in {"save", "end"} /\ disks' = disks
          /\ run'.cfg = Without(run.cfg, run.goes)
      BY <1>1, <1>2, <2>2, <2>13, Course, Erased DEF After, At
    <3>2. run.guid \in anchors' => run.guid \in excused'
      <4> DEFINE gs == ({run.guid} \cup {run.cfg[n].guid : n \in run.goes}) \ {0}
      <4>1. DropAnchors(gs)
        BY <2>13 DEF Drop
      <4>2. run.guid \in anchors' => run.guid \in gs
        BY <1>0, <1>1
      <4> HIDE DEF gs
      <4> QED
        BY <4>1, <4>2, Dropped
    <3>3. ASSUME run.guid # 0, NEW n \in Names PROVE run'.cfg[n].guid # run.guid
      <4>1. run'.cfg[n] = IF n \in run.goes THEN None ELSE run.cfg[n]
        BY <3>1 DEF Without
      <4>2. None.guid = 0
        BY DEF None
      <4>3. run.cfg[n].guid = reg.cfg[n].guid
        BY <2>1, <3>1 DEF Copied, Saving
      <4> QED
        BY <2>7, <3>1, <3>3, <4>1, <4>2, <4>3 DEF Closing
    <3> QED
      BY <2>2, <2>5, <2>6, <2>7, <3>1, <3>2, <3>3 DEF Wiped, Closing, Held
  <2>14. CASE Write \/ Replace
    <3>1. /\ run.step \in Closing /\ run'.step \in Closing /\ run'.cfg = run.cfg
          /\ disks' = disks
      <4>1. Write => run.step = "save" /\ run'.step \in {"replace", "end"} /\ run'.cfg = run.cfg
        BY <1>1, <1>2, Course DEF After, At
      <4>2. Replace => run.step = "replace" /\ run'.step = "end" /\ run'.cfg = run.cfg
        BY <1>1, <2>2, Course DEF After, At, Order
      <4>3. disks' = disks
        BY <1>2, <2>2, <2>14, Erased
      <4> QED
        BY <2>14, <4>1, <4>2, <4>3 DEF Closing
    <3> QED
      BY <2>2, <2>5, <2>6, <2>7, <3>1 DEF Wiped, Closing, Held
  <2> QED
    BY <1>4, <2>3, <2>4, <2>9, <2>10, <2>11, <2>12, <2>13, <2>14, Zenon
       DEF Working, PurgeSteps, SharedSteps
<1>5. CASE Explores \/ Moving \/ Edit
  BY <1>2, <1>5, Turns DEF Idle
<1>6. CASE UNCHANGED vars
  BY <1>6 DEF Wiped, Held, vars
<1> QED
  BY <1>3, <1>4, <1>5, <1>6, Kinds, Zenon

(* DRIVE PURGED is said at the end of a purge, and nowhere else.           *)
LEMMA SaysPurged ==
  ASSUME DiskInv, [Next]_vars, verdict'.said = "purged"
  PROVE  \/ verdict' = verdict
         \/ End /\ run.cmd = "purge" /\ verdict'.disk = run.disk /\ verdict'.guid = run.guid
<1>1. \A w : Say(w).said = w /\ Say(w).disk = run.disk /\ Say(w).guid = run.guid
  BY DEF Say
<1>2. Quiet.said # "purged"
  BY DEF Quiet
<1>3. \A w : Leave(w) => verdict'.said = w /\ verdict'.disk = run.disk /\ verdict'.guid = run.guid
  BY <1>1 DEF Leave
<1>4. /\ ~Leave("refused") /\ ~Leave("not registered") /\ ~Leave("not verified")
      /\ ~Leave("incomplete") /\ ~Leave("crashed") /\ ~Leave("stopped")
  <2>1. \A w : Leave(w) => w = "purged"
    BY <1>3, Zenon
  <2> QED
    BY <2>1, Zenon
<1>5. Create \/ Judge \/ Readback \/ Reread \/ DestroyLabelledPool \/ PurgeVerdict
      \/ CloseBackup \/ Write \/ Stop => verdict' = verdict
  BY <1>4, Zenon DEF Create, Judge, Readback, Reread, GiveUp, DestroyLabelledPool, WipeOnly,
     Destroyed, NotDestroyed, PurgeVerdict, CloseBackup, Write, Stop
<1>6. End => run.cmd = "purge" /\ verdict'.disk = run.disk /\ verdict'.guid = run.guid
  BY <1>3 DEF End, Said
<1>7. verdict' # Quiet
  BY <1>2
<1> QED
  BY <1>5, <1>6, <1>7, Touched, Zenon

LEMMA PurgedStep ==
  ASSUME Overlap = FALSE, DiskInv, Lone, EntriesSound, Scanned, Copied, Wiped, Purged,
         [Next]_vars
  PROVE  Purged'
<1>1. /\ Records /\ Labels /\ Order /\ Wiping /\ Order' /\ reg.cfg \in Config
  BY OrderStep DEF DiskInv, TypeOK, Records
<1> SUFFICES ASSUME verdict'.said = "purged" PROVE Purged'
  BY DEF Purged
<1>2. CASE End
  <2>1. /\ run.cmd = "purge" /\ verdict'.disk = run.disk /\ verdict'.guid = run.guid
    <3>1. \A w : /\ Say(w).disk = run.disk /\ Say(w).guid = run.guid /\ Say(w).said = w
      BY DEF Say
    <3> QED
      BY <1>2, <3>1 DEF End, Leave, Said
  <2>2. /\ run.step = "end" /\ run.disk \in Disks /\ UNCHANGED <<disks, reg, anchors, excused>>
        /\ run' = NoRun
    BY <1>1, <1>2, <2>1 DEF End, At, Leave, Order
  <2>3. ~Idle /\ Idle'
    BY <2>1, <2>2, NoRunIs DEF Idle
  <2>4. \A n \in Names : run.cfg[n].guid = reg.cfg[n].guid
    BY <2>2, <2>3 DEF Copied, Saving
  <2>5. /\ ~Held.table /\ Held.imp = "no"
        /\ run.guid # 0 => /\ Held.guid = 0
                           /\ \A d \in Disks : disks[d].guid # run.guid
                           /\ \A n \in Names : reg.cfg[n].guid # run.guid
        /\ run.guid \in anchors => run.guid \in excused
    BY <1>1, <2>1, <2>2, <2>4 DEF Wiped, Wiping, Closing, Held
  <2> QED
    BY <2>1, <2>2, <2>3, <2>5 DEF Purged, Held
<1>3. CASE verdict' = verdict /\ ~End
  <2>1. /\ Idle /\ verdict.disk \in Disks
        /\ ~disks[verdict.disk].table /\ disks[verdict.disk].imp = "no"
        /\ verdict.guid # 0 =>
             /\ disks[verdict.disk].guid = 0
             /\ \A d \in Disks : disks[d].guid # verdict.guid
             /\ \A n \in Names : reg.cfg[n].guid # verdict.guid
             /\ verdict.guid \in anchors => verdict.guid \in excused
    BY <1>3 DEF Purged
  <2>2. ~Starting
    <3>1. Quiet.said # "purged"
      BY DEF Quiet
    <3> QED
      BY <3>1, Turns
  <2>3. ~Working
    BY <2>1, Turns
  <2>4. CASE Moving
    <3>1. Idle' /\ UNCHANGED <<reg, anchors, excused>>
      BY <2>4, Turns DEF Idle
    <3>2. \A d \in Disks : /\ Same(disks[d], disks'[d])
                           /\ disks'[d].imp \in {disks[d].imp, "no"} \/ Opens(d)
      <4>1. run.step = ""
        BY <1>1, <2>1, Lanes
      <4>2. \A d \in Disks : ~Makes(d) /\ ~Wipes(d)
        BY <4>1 DEF Makes, Wipes, At
      <4> QED
        BY <4>2, Media
    <3>3. ~Opens(verdict.disk)
      BY <2>1 DEF Opens
    <3> QED
      BY <1>3, <2>1, <3>1, <3>2, <3>3 DEF Purged, Same
  <2>5. CASE Edit \/ UNCHANGED vars
    <3>1. /\ UNCHANGED <<disks, anchors, excused, run>> /\ reg'.cfg = reg.cfg
      BY <2>5, Turns DEF vars
    <3> QED
      BY <1>3, <2>1, <3>1 DEF Purged, Idle
  <2>6. CASE Explores
    <3>1. UNCHANGED <<disks, anchors, run>>
      BY <2>6, Turns
    <3>2. \A c : [bad |-> FALSE, cfg |-> c].cfg = c
      OBVIOUS
    <3>3. excused \subseteq excused'
      <4>1. CASE UNCHANGED excused
        BY <4>1
      <4>2. CASE RemoveStale \/ AutoRegister
        BY <4>2 DEF RemoveStale, AutoRegister, Saved
      <4> QED
        BY <2>6, <4>1, <4>2 DEF Explores, Explore
    <3>4. ASSUME verdict.guid # 0, NEW n \in Names PROVE reg'.cfg[n].guid # verdict.guid
      <4>1. CASE reg' = reg
        BY <2>1, <3>4, <4>1
      <4>2. CASE RemoveStale /\ reg' # reg
        <5>1. exp.cfg = reg.cfg
          BY <4>2 DEF RemoveStale, Scanned
        <5>2. reg'.cfg = Without(reg.cfg, Stale(exp.cfg, exp.found))
          BY <3>2, <4>2, <5>1 DEF RemoveStale, Saved
        <5>3. reg'.cfg[n] = None \/ reg'.cfg[n] = reg.cfg[n]
          BY <5>2 DEF Without
        <5> QED
          BY <2>1, <3>4, <5>3 DEF None
      <4>3. CASE AutoRegister /\ reg' # reg
        <5>1. /\ exp.cfg = reg.cfg /\ exp.found \in SUBSET Drive
              /\ \A d \in exp.found : disks[d.disk].guid = d.guid
          BY <1>1, <4>3 DEF AutoRegister, Scanned, Records, ExploreType
        <5>2. reg'.cfg = Added(reg.cfg, News(exp.cfg, exp.found))
          BY <3>2, <4>3, <5>1 DEF AutoRegister, Saved
        <5>3. CASE reg'.cfg[n] = reg.cfg[n]
          BY <2>1, <3>4, <5>3
        <5>4. CASE \E x \in News(exp.cfg, exp.found) : reg'.cfg[n].guid = x.guid
          <6>1. PICK x \in exp.found : reg'.cfg[n].guid = x.guid
            BY <5>4 DEF News
          <6>2. x.disk \in Disks /\ disks[x.disk].guid = x.guid
            BY <5>1, <6>1 DEF Drive
          <6> QED
            BY <2>1, <3>4, <6>1, <6>2
        <5>5. \/ reg'.cfg[n] = reg.cfg[n]
              \/ \E x \in News(exp.cfg, exp.found) : reg'.cfg[n].guid = x.guid
          <6> DEFINE c == Added(reg.cfg, News(exp.cfg, exp.found))
          <6>1. \A m \in Names : \/ c[m] = reg.cfg[m]
                                 \/ \E x \in News(exp.cfg, exp.found) : c[m].guid = x.guid
            BY <1>1, <5>1, Adds
          <6> HIDE DEF c
          <6> QED
            BY <5>2, <6>1 DEF c
        <5> QED
          BY <5>3, <5>4, <5>5
      <4> QED
        BY <2>6, <4>1, <4>2, <4>3, Zenon DEF Explores, Explore
    <3> QED
      BY <1>3, <2>1, <3>1, <3>3, <3>4 DEF Purged, Idle
  <2> QED
    BY <2>2, <2>3, <2>4, <2>5, <2>6, Kinds, Zenon
<1> QED
  BY <1>2, <1>3, SaysPurged, Zenon

(* The whole of RegInv.                                                    *)
LEMMA RegHolds ==
  ASSUME Overlap = FALSE
  PROVE  Spec => [](DiskInv /\ RegInv)
<1>1. Init => DiskInv /\ RegInv
  BY DiskInit, RegInit
<1>2. ASSUME DiskInv /\ EntryInv, Wiped /\ Purged, [Next]_vars PROVE (Wiped /\ Purged)'
  <2>1. Lone /\ EntriesSound /\ Scanned /\ Copied
    BY <1>2 DEF EntryInv
  <2> QED
    BY <1>2, <2>1, WipedStep, PurgedStep
<1>3. RegInv <=> EntryInv /\ Reached /\ Owned /\ Wiped /\ Purged
  BY DEF RegInv, EntryInv
<1> QED
  BY <1>1, <1>2, <1>3, EntryHolds, AnchorHolds, PTL DEF Spec

(* What purge says of a disk is so on the medium, in the registry and in   *)
(* origin, and what a command registers was proven on its disk and has its *)
(* anchors, while explore and hand edits wait for a running command        *)
(* (purge.py run, prepare.py DRIVE NOT REGISTERED and NOT VERIFIED).       *)
THEOREM Drives ==
  ASSUME Overlap = FALSE
  PROVE  Spec => DiskTrue
<1> DEFINE A == \A n \in Names :
          At("replace") /\ reg'.cfg[n].guid \notin Registered(reg.cfg) \cup {0} =>
              /\ reg'.cfg[n].guid \in anchors
              /\ \E d \in Disks : /\ disks[d].guid = reg'.cfg[n].guid
                                  /\ disks[d].has = Whole /\ disks[d].imp = "no"
<1>1. DiskInv /\ RegInv => PurgedTrue
  <2> SUFFICES ASSUME DiskInv, RegInv, verdict.said = "purged" PROVE PurgedTrue
    BY DEF PurgedTrue
  <2>1. reg.cfg \in Config /\ verdict.disk \in Disks
    BY DEF DiskInv, TypeOK, Records, RegInv, Purged
  <2>2. verdict.guid \notin Registered(reg.cfg)
    BY <2>1, Entries DEF RegInv, Purged
  <2>3. verdict.guid \in anchors => verdict.guid \in excused
    <3>1. 0 \notin Guids
      BY BoundsAssumption DEF Guids
    <3> QED
      BY <3>1 DEF DiskInv, TypeOK, Records, RegInv, Purged
  <2> QED
    BY <2>1, <2>2, <2>3 DEF RegInv, Purged, PurgedTrue
<1>2. DiskInv /\ RegInv /\ [Next]_vars => [A]_vars
  <2>1. RegInv => Lone /\ Copied /\ Reached
    BY DEF RegInv
  <2> QED
    BY <2>1, ProvenStep
<1>3. Proven <=> [][A]_vars
  BY DEF Proven
<1> HIDE DEF A
<1> QED
  BY <1>1, <1>2, <1>3, RegHolds, Under, PTL DEF Spec, DiskTrue
=============================================================================
