----------------------------- MODULE Exclusions -----------------------------
(***************************************************************************)
(* The datasets a user leaves out (zark exclude) and the copies a drive    *)
(* holds: what a point records of what it left out, the destroys the user  *)
(* confirms (an excluded copy, a diverged lineage, an orphan) with the     *)
(* archived lineages cloned from them, the marks of the points rewritten   *)
(* after one, and what recover makes of a point afterwards.  Backups and   *)
(* lineages kept aside (archive, branch) are here as they change the       *)
(* drive's datasets; Engine has how a backup sends them.                   *)
(*                                                                         *)
(* A dataset of origin is a name; one on the drive is a path, a sequence   *)
(* of <<name, k>> where k > 0 is its k-th archived lineage.  A snapshot on *)
(* the drive is [at, p, count, rec]: where, the backup point, its          *)
(* COMPLETE_PROP (0 for none) and its record of what was left out.         *)
(* Commands hold the lock: one runs at a time.                             *)
(***************************************************************************)
EXTENDS Integers, FiniteSets, Sequences, SequencesExt, FiniteSetsExt

CONSTANTS
  MaxPoints,   \* bound: backups
  MaxActs,     \* bound: exclusions changed, lineages moved or destroyed
  MaxFaults    \* bound: commands that fail, kills

ASSUME BoundsAssumption ==
  MaxPoints \in Nat /\ MaxActs \in Nat /\ MaxFaults \in Nat

VARIABLES
  origin,   \* the datasets of origin
  excl,     \* the flags set on each of them
  fs,       \* the drive's datasets: what each is a clone of, its kept mark
  snaps,    \* the drive's snapshots
  anchors,  \* <<drive, dataset>>: origin has an anchor of it for the drive
  job,      \* the command that is changing the drive
  points,   \* history: what each point's run found and brought
  took,     \* history: <<point, dataset>> a confirmed destroy took
  warned,   \* history: points a warning named
  stopped,  \* history: points rewritten after a destroy that stopped midway
  asked,    \* history: datasets whose copy the user chose to keep
  budget    \* bounds left: acts, faults

vars == <<origin, excl, fs, snaps, anchors, job, points, took, warned,
          stopped, asked, budget>>

hist == <<points, took, warned, stopped, asked>>

(***************************************************************************)
(* Names.  A boot environment, a dataset with one below it, and a clone of *)
(* it that the user makes in origin, next to it.                           *)
(***************************************************************************)
Rels == {"root", "data", "sub", "clone"}
Above == [r \in Rels |-> IF r = "sub" THEN {"data", "sub"} ELSE {r}]
Below(r) == {x \in Rels : r \in Above[x]}

Live(r) == IF r = "sub" THEN << <<"data", 0>>, <<"sub", 0>> >> ELSE << <<r, 0>> >>
Aside(r, k) == Front(Live(r)) \o << <<r, k>> >>

Name(x) == Last(x)[1]
IsArchived(x) == \E i \in DOMAIN x : x[i][2] # 0
Under(x, t) == IsPrefix(t, x)
UnderAny(x, T) == \E t \in T : Under(x, t)

(* A path with its archived names as the datasets they are lineages of.    *)
Plain(x) == [i \in DOMAIN x |-> <<x[i][1], 0>>]

NoClone == <<>>
NewFs == [of |-> NoClone, kept |-> FALSE]

Mine == "mine"
Other == "other"

(***************************************************************************)
(* What origin declares (lib/exclusions.py).                               *)
(***************************************************************************)
Flags == {"replicate", "snapshot"}

(* never_excluded: a boot environment, or a subtree that holds one.        *)
NeverExcluded(r) == "root" \in Below(r) \cap origin

(* parse: the datasets a flag is set on, without the ones zark ignores.    *)
Declared(e) == {r \in origin : e[r] # {} /\ ~NeverExcluded(r)}

(* _minimal: the datasets no other one of them covers.                     *)
Minimal(tops) == {t \in tops : Above[t] \cap tops = {t}}

TopsOf(e, flag) == Minimal({r \in Declared(e) : flag \in e[r]})
NoBackup(e) == TopsOf(e, "replicate")
NoSnapshot(e) == TopsOf(e, "snapshot")

(* is_excluded, covering.                                                  *)
Covered(r, tops) == Above[r] \cap tops # {}

(* Declared.flags_of: both only when the snapshot flag is on the top.      *)
FlagsOf(e, t) == IF "snapshot" \in e[t] THEN "both" ELSE "backups"

(* expected, with the subtrees left out of the backup.                     *)
Expected(e) == {r \in origin : ~Covered(r, NoBackup(e))}

(* point_mark: every top with its flags, and every dataset left out.       *)
PointMark(e) ==
  [state |-> "read",
   tops |-> {<<t, FlagsOf(e, t)>> : t \in NoBackup(e)}
              \cup {<<t, "snapshots">> : t \in NoSnapshot(e) \ NoBackup(e)},
   sets |-> origin \ Expected(e)]

Empty == [state |-> "read", tops |-> {}, sets |-> {}]
NoRecord == [Empty EXCEPT !.state = "none"]
(* A part of it is missing, or the whole does not match its digest.        *)
BadRecord == [Empty EXCEPT !.state = "bad"]

LeftTops(m) == {t[1] : t \in {u \in m.tops : u[2] # "snapshots"}}

(* Mutant: the tops alone, and not what is below them.                     *)
CoversTops(m, r) == r \in LeftTops(m)

Covers(m, r) == r \in m.sets \/ Covered(r, LeftTops(m))

(***************************************************************************)
(* The points a drive holds (lib/restore_points.py).                       *)
(***************************************************************************)
RP == INSTANCE RestorePoints WITH RepeatGap <- 1, Sorted <- <<>>, MaxTime <- 1

Members(p) == {s \in snaps : s.p = p}

Listing ==
  {[ds |-> Name(s.at), arch |-> s.at, kind |-> "point", name |-> s.p,
    creation |-> s.p, mark |-> s.count] : s \in snaps}

Complete == RP!CompletePoints(Listing, 0)

(* read_point_mark, for recover: one readable record on every snapshot     *)
(* that has one; otherwise recover warns and leaves nothing out.           *)
ReadPointMark(p) ==
  LET recs == {s.rec : s \in Members(p)} \ {NoRecord}
  IN  IF Cardinality(recs) = 1 /\ BadRecord \notin recs
      THEN CHOOSE r \in recs : TRUE ELSE Empty

(* build_plan: what recover makes of every dataset at a point: nothing of  *)
(* one whose parent is not there.                                          *)
Restored(p) ==
  LET m == ReadPointMark(p)
      L == Listing
      C == RP!CompletePoints(L, 0)
      got(r) == RP!Resolve(L, RP!Members(L, p), r, C)
      alone == [r \in Rels |->
                  IF Covers(m, r)
                  THEN IF r \in LeftTops(m) THEN "empty"
                       ELSE IF Covered(r, LeftTops(m)) THEN "below" ELSE "absent"
                  ELSE IF \E s \in Members(p) : Name(s.at) = r THEN "own"
                  ELSE IF got(r) = {} THEN "absent" ELSE "older"]
  IN  [r \in Rels |-> IF \E u \in Above[r] : alone[u] = "absent" THEN "absent" ELSE alone[r]]

(***************************************************************************)
(* Clones that stand in a destroy's way (lib/dependents.py).               *)
(***************************************************************************)
Tree(d, t) == {x \in DOMAIN d : Under(x, t)}
IsCloneFrom(d, x, T) == d[x].of # NoClone /\ UnderAny(d[x].of[1], T)

(* _trees: what is cloned from the tree, from those clones, and so on.     *)
Reach(d, t) ==
  LET f[k \in 0..Cardinality(DOMAIN d)] ==
        IF k = 0 THEN {t}
        ELSE f[k-1] \cup {x \in DOMAIN d : /\ IsCloneFrom(d, x, f[k-1])
                                           /\ ~UnderAny(x, f[k-1])}
  IN  f

Trees(d, t) ==
  LET found == Reach(d, t)[Cardinality(DOMAIN d)] \ {t}
  IN  {x \in found : \A y \in found \ {x} : ~Under(x, y)}

Depth(d, t, x) == Min({k \in 0..Cardinality(DOMAIN d) : x \in Reach(d, t)[k]})

(* The trees of T that hold a clone from tree y.                           *)
Holding(d, T, y) ==
  {x \in T \ {y} : \E c \in Tree(d, x) : IsCloneFrom(d, c, {y})}

(* _topological: the trees ready to go, deepest first.                     *)
Ready(d, T) == {y \in T : Holding(d, T, y) = {}}

NextTrees(d, t, T) ==
  {y \in Ready(d, T) : \A z \in Ready(d, T) : Depth(d, t, z) <= Depth(d, t, y)}

Stuck(d, T) ==
  LET f[k \in 0..Cardinality(T)] ==
        IF k = 0 THEN T ELSE f[k-1] \ Ready(d, f[k-1])
  IN  f[Cardinality(T)]

(* Mutant: any clone goes with the tree, archived or not.                  *)
PlanAny(d, t) == Stuck(d, Trees(d, t)) = {}

(* destroy_plan: a destroy is offered when every clone is an archived      *)
(* lineage of the tree, none of the tree is cloned from one of them, and   *)
(* an order exists.                                                        *)
PlanOK(d, t) ==
  LET T == Trees(d, t)
  IN  /\ \A x \in T : IsArchived(x) /\ Under(Plain(x), t)
      /\ \A x \in Tree(d, t) : ~IsCloneFrom(d, x, T)
      /\ Stuck(d, T) = {}

(* ZFS refuses the destroy of a tree that something outside is cloned from.*)
Refused(d, t) == \E x \in DOMAIN d \ Tree(d, t) : IsCloneFrom(d, x, {t})

(***************************************************************************)
(* Commands.                                                               *)
(***************************************************************************)
NoJob == [kind |-> "none", rel |-> "root", step |-> "", dest |-> <<>>, held |-> {},
          todo |-> {}, gone |-> {}, pts |-> {}, ok |-> TRUE]

Idle == job.kind = "none"
At(step) == job.step = step

Init ==
  /\ origin = Rels \ {"clone"}
  /\ excl = [r \in Rels |-> {}]
  /\ fs = <<>>
  /\ snaps = {}
  /\ anchors = {<<Other, r>> : r \in Rels \ {"clone"}}
  /\ job = NoJob
  /\ points = <<>>
  /\ took = {} /\ warned = {} /\ stopped = {} /\ asked = {}
  /\ budget = [acts |-> MaxActs, faults |-> MaxFaults]

Spend(what) == budget[what] > 0 /\ budget' = [budget EXCEPT ![what] = @ - 1]
Act == Spend("acts")
Fault == Spend("faults")

(* exclude add: refused where never excluded; every flag in one zfs set.   *)
Exclude(r, what) ==
  /\ Idle
  /\ r \in origin /\ ~NeverExcluded(r)
  /\ ~(what \subseteq excl[r])
  /\ Act
  /\ excl' = [excl EXCEPT ![r] = @ \cup what]
  /\ UNCHANGED <<origin, fs, snaps, anchors, job, hist>>

(* exclude remove: one zfs inherit per flag set on the dataset itself, and *)
(* a failure ends it; a dataset excluded with one above it is refused.     *)
Include(r, what) ==
  /\ Idle
  /\ r \in Declared(excl)
  /\ what \cap excl[r] # {}
  /\ Act
  /\ excl' = [excl EXCEPT ![r] = @ \ what]
  /\ UNCHANGED <<origin, fs, snaps, anchors, job, hist>>

(* The user clones data in origin, and later destroys the clone.           *)
UserClone ==
  /\ Idle /\ "clone" \notin origin /\ Len(points) = 1
  /\ Act
  /\ origin' = origin \cup {"clone"}
  /\ UNCHANGED <<excl, fs, snaps, anchors, job, hist>>

UserDestroy ==
  /\ Idle /\ "clone" \in origin /\ Len(points) > 1
  /\ origin' = origin \ {"clone"}
  /\ anchors' = {a \in anchors : a[2] # "clone"}
  /\ Act
  /\ UNCHANGED <<excl, fs, snaps, job, hist>>
-----------------------------------------------------------------------------
(* A backup: the marks of copies included again go, the datasets it        *)
(* expects reach the point or not, what was left out is recorded on what   *)
(* reached it, and a run that brought everything is marked complete.       *)

Held(r) == Live(r) \in DOMAIN fs
HeldAt(x) == {s.p : s \in {u \in snaps : u.at = x}}

(* A new clone is received as a clone of the drive's copy (_clone_base).   *)
ReceivedAs(r) ==
  LET base == HeldAt(Live("data"))
  IN  IF r = "clone" /\ base # {}
      THEN [NewFs EXCEPT !.of = <<Live("data"), Min(base)>>] ELSE NewFs

(* clear_excluded_kept.                                                    *)
ClearKept(x) ==
  IF UnderAny(x, {Live(t) : t \in NoBackup(excl)}) THEN fs[x]
  ELSE [fs[x] EXCEPT !.kept = FALSE]

Backup(reached) ==
  LET p == Len(points) + 1
  IN  /\ Idle
      /\ p <= MaxPoints
      /\ "root" \in reached
      /\ \A r \in reached : \A u \in Above[r] : u \in reached \/ Held(u)
      /\ \A r \in reached : Held(r) => HeldAt(Live(r)) # {}
      /\ fs' = [x \in DOMAIN fs \cup {Live(r) : r \in reached} |->
                  IF x \in DOMAIN fs THEN ClearKept(x) ELSE ReceivedAs(Name(x))]
      /\ asked' = {r \in asked : Covered(r, NoBackup(excl))}
      /\ snaps' = snaps \cup {[at |-> Live(r), p |-> p, count |-> 0, rec |-> NoRecord] :
                                r \in reached}
      /\ anchors' = anchors \cup {<<Mine, r>> : r \in reached}
      /\ points' = Append(points, [ran |-> reached, excl |-> excl,
                                   left |-> origin \ Expected(excl),
                                   recorded |-> FALSE])
      /\ job' = [NoJob EXCEPT !.kind = "backup", !.step = "record", !.pts = {p},
                              !.ok = (reached = Expected(excl))]
      /\ IF reached = Expected(excl) THEN UNCHANGED budget ELSE Fault
      /\ UNCHANGED <<origin, excl, took, warned, stopped>>

Put(s, c, r) == [s EXCEPT !.count = c, !.rec = r]

(* zfs set of a count and a record on snapshots.  One that fails has       *)
(* written all but the root's, or none; on the others it wrote nothing,    *)
(* one of the two, or part of the record, which is then unreadable.        *)
SetProps(targets, c, r) ==
  snaps' = {IF s \in targets THEN Put(s, c, r) ELSE s : s \in snaps}

SetPartly(targets, c, r) ==
  /\ Fault
  /\ \E failed \in {{s \in targets : Name(s.at) = "root"}, targets},
        wrote \in {"nothing", "count", "record", "part"} :
       snaps' = {IF s \in targets \ failed THEN Put(s, c, r)
                 ELSE IF s \notin targets THEN s
                 ELSE CASE wrote = "nothing" -> s
                        [] wrote = "count"   -> Put(s, c, s.rec)
                        [] wrote = "record"  -> Put(s, s.count, r)
                        [] wrote = "part"    -> Put(s, s.count, BadRecord) : s \in snaps}

(* exclusions.record: on whatever reached the point; a failure is a        *)
(* warning.                                                                *)
Record ==
  /\ job.kind = "backup" /\ At("record")
  /\ \E p \in job.pts :
       LET m == PointMark(excl)
       IN  \/ /\ SetProps(Members(p), 0, m)
              /\ points' = [points EXCEPT ![p].recorded = TRUE]
              /\ UNCHANGED <<warned, budget>>
           \/ /\ SetPartly(Members(p), 0, m)
              /\ warned' = warned \cup {p}
              /\ UNCHANGED points
  /\ job' = IF job.ok THEN [job EXCEPT !.step = "complete"] ELSE NoJob
  /\ UNCHANGED <<origin, excl, fs, anchors, took, stopped, asked>>

(* record_complete: the count on every snapshot of the point.              *)
MarkComplete ==
  /\ job.kind = "backup" /\ At("complete")
  /\ \E p \in job.pts :
       snaps' = {IF s.p = p THEN [s EXCEPT !.count = Cardinality(Members(p))] ELSE s :
                   s \in snaps}
  /\ job' = NoJob
  /\ UNCHANGED <<origin, excl, fs, anchors, hist, budget>>
-----------------------------------------------------------------------------
(* Lineages kept aside: archive, branch and rollback.                      *)

Moved(x, from, to) ==
  IF Under(x, from) THEN to \o SubSeq(x, Len(from) + 1, Len(x)) ELSE x

MovedOf(of, from, to) == IF of = NoClone THEN of ELSE <<Moved(of[1], from, to), of[2]>>

(* zfs rename takes the children and the clones along.                     *)
Renamed(d, from, to) ==
  [y \in {Moved(x, from, to) : x \in DOMAIN d} |->
     LET x == CHOOSE x \in DOMAIN d : Moved(x, from, to) = y
     IN  [d[x] EXCEPT !.of = MovedOf(@, from, to)]]

Rename(from, to) ==
  /\ fs' = Renamed(fs, from, to)
  /\ snaps' = {[s EXCEPT !.at = Moved(@, from, to)] : s \in snaps}

(* archive_name: a name nothing on the drive has.                          *)
Free(r) ==
  LET k == Min({i \in 1..(MaxActs + 1) : Aside(r, i) \notin DOMAIN fs})
  IN  Aside(r, k)

(* Run.archive, for a diverged lineage.                                    *)
Archive(r) ==
  /\ Idle /\ r # "root" /\ r \in Expected(excl) /\ Held(r)
  /\ Act
  /\ Rename(Live(r), Free(r))
  /\ UNCHANGED <<origin, excl, anchors, job, hist>>

(* Run.branch: the lineage is renamed aside, a clone of its common         *)
(* snapshot takes its place and is promoted, and the children move back;   *)
(* a failure stops there.                                                  *)
Branch(r, common) ==
  LET new == Free(r)
  IN  /\ Idle /\ r # "root" /\ r \in Expected(excl) /\ Held(r)
      /\ common \in HeldAt(Live(r)) /\ common < Max(HeldAt(Live(r)))
      /\ Act
      /\ job' = [NoJob EXCEPT !.kind = "branch", !.rel = r, !.step = "clone",
                   !.todo = {Moved(x, Live(r), new) :
                               x \in {y \in DOMAIN fs : Len(y) > 1 /\ Front(y) = Live(r)}},
                   !.gone = {new}, !.pts = {common},
                   !.held = {Live(x) : x \in {y \in Below(r) : Held(y)}}]
      /\ Rename(Live(r), new)
      /\ UNCHANGED <<origin, excl, anchors, hist>>

BranchClone ==
  /\ job.kind = "branch" /\ At("clone")
  /\ \E new \in job.gone, c \in job.pts :
       fs' = [x \in DOMAIN fs \cup {Live(job.rel)} |->
                IF x = Live(job.rel) THEN [NewFs EXCEPT !.of = <<new, c>>] ELSE fs[x]]
  /\ job' = [job EXCEPT !.step = "promote"]
  /\ UNCHANGED <<origin, excl, snaps, anchors, hist, budget>>

(* The snapshots up to the common one go to the clone, with the clones of  *)
(* them, and the archive becomes its clone.                                *)
BranchPromote ==
  /\ job.kind = "branch" /\ At("promote")
  /\ \E new \in job.gone, c \in job.pts :
       LET live == Live(job.rel)
           given(at, p) == at = new /\ p <= c
       IN  /\ snaps' = {IF given(s.at, s.p) THEN [s EXCEPT !.at = live] ELSE s : s \in snaps}
           /\ fs' = [x \in DOMAIN fs |->
                       IF x = live THEN [fs[x] EXCEPT !.of = fs[new].of]
                       ELSE IF x = new THEN [fs[x] EXCEPT !.of = <<live, c>>]
                       ELSE IF fs[x].of # NoClone /\ given(fs[x].of[1], fs[x].of[2])
                            THEN [fs[x] EXCEPT !.of = <<live, @[2]>>]
                       ELSE fs[x]]
  /\ job' = [job EXCEPT !.step = "children"]
  /\ UNCHANGED <<origin, excl, anchors, hist, budget>>

(* Mutant: the children stay where the rename took them.                   *)
BranchLeaves ==
  /\ job.kind = "branch" /\ At("children")
  /\ job' = [job EXCEPT !.step = "done"]
  /\ UNCHANGED <<origin, excl, fs, snaps, anchors, hist, budget>>

BranchChildren ==
  /\ job.kind = "branch" /\ At("children")
  /\ IF job.todo = {}
     THEN job' = [job EXCEPT !.step = "done"] /\ UNCHANGED <<fs, snaps>>
     ELSE \E x \in job.todo :
            /\ Rename(x, Live(job.rel) \o <<Last(x)>>)
            /\ job' = [job EXCEPT !.todo = @ \ {x}]
  /\ UNCHANGED <<origin, excl, anchors, hist, budget>>

BranchDone ==
  /\ job.kind = "branch" /\ At("done")
  /\ job' = NoJob
  /\ UNCHANGED <<origin, excl, fs, snaps, anchors, hist, budget>>

(* zfs rollback -r of a dataset, offered when nothing is cloned from the   *)
(* snapshots it destroys (rollback_blockers).                              *)
Rollback(r, common) ==
  LET newer == {s \in snaps : s.at = Live(r) /\ s.p > common}
  IN  /\ Idle /\ r # "root" /\ r \in Expected(excl) /\ Held(r)
      /\ common \in HeldAt(Live(r)) /\ newer # {}
      /\ \A x \in DOMAIN fs : fs[x].of \notin {<<s.at, s.p>> : s \in newer}
      /\ Act
      /\ snaps' = snaps \ newer
      /\ took' = took \cup {<<s.p, r>> : s \in newer}
      /\ UNCHANGED <<origin, excl, fs, anchors, job, points, warned, stopped, asked>>
-----------------------------------------------------------------------------
(* Confirmed destroys.                                                     *)

(* keep_held: the user keeps the copy, and a backup asks no more.          *)
KeepHeld(t) ==
  /\ Idle /\ t \in NoBackup(excl) /\ Held(t) /\ ~fs[Live(t)].kept
  /\ fs' = [fs EXCEPT ![Live(t)].kept = TRUE]
  /\ asked' = asked \cup {t}
  /\ Act
  /\ UNCHANGED <<origin, excl, snaps, anchors, job, points, took, warned, stopped>>

(* point_losses: of the snapshots H that were read, what is left of each   *)
(* counted point once the trees G are gone, and the datasets it loses.     *)
Of(H, p) == {s \in H : s.p = p}
LeftOf(H, G, p) == {s \in Of(H, p) : ~UnderAny(s.at, G)}
LostOf(H, G, p) == {Name(s.at) : s \in Of(H, p)} \ {Name(s.at) : s \in LeftOf(H, G, p)}
Counts(H, p) == {s.count : s \in Of(H, p)} \ {0}

Losing(H, G) ==
  {p \in DOMAIN points :
     /\ \E s \in Of(H, p) : s.count > 0 /\ UnderAny(s.at, G)
     /\ LostOf(H, G, p) # {} /\ LeftOf(H, G, p) # {}
     /\ \E c \in Counts(H, p) : c > Cardinality(LostOf(H, G, p))}

(* The records a rewrite may read: of several, the first listed.           *)
RecordsOf(H, G, p) ==
  LET recs == {s.rec : s \in LeftOf(H, G, p)} \ {NoRecord}
  IN  IF recs = {} THEN {Empty} ELSE recs

(* A point whose record cannot be read stops the destroy of an excluded    *)
(* copy before anything goes.                                              *)
MayRead(G) == \A p \in Losing(snaps, G) : RecordsOf(snaps, G, p) # {BadRecord}

(* A destroy the user confirms, with the clones the plan found; the points *)
(* of an excluded copy or of an orphan are read first.                     *)
StartDestroy(kind, r) ==
  LET T == Trees(fs, Live(r))
  IN  /\ Idle /\ Held(r)
      /\ Act
      /\ PlanOK(fs, Live(r))
      /\ kind = "excluded" => MayRead(T \cup {Live(r)})
      /\ job' = [NoJob EXCEPT !.kind = kind, !.rel = r, !.step = "destroy",
                              !.dest = fs, !.held = snaps, !.todo = T]
      /\ UNCHANGED <<origin, excl, fs, snaps, anchors, hist>>

(* From a backup's question or from zark prune, for a declared top.        *)
DestroyHeld(t) == t \in NoBackup(excl) /\ StartDestroy("excluded", t)
DestroyDiverged(r) ==
  r \in Expected(excl) \ {"root"} /\ StartDestroy("diverged", r)
DestroyOrphan(r) == r \notin origin /\ StartDestroy("orphan", r)

Without(G) == [x \in {y \in DOMAIN fs : ~UnderAny(y, G)} |-> fs[x]]

Take(G) ==
  /\ fs' = Without(G)
  /\ snaps' = {s \in snaps : ~UnderAny(s.at, G)}
  /\ took' = took \cup {<<s.p, Name(s.at)>> : s \in snaps \ snaps'}

(* The next tree to go: the clones in order, then the tree.                *)
Targets ==
  IF job.todo = {} THEN {Live(job.rel)} ELSE NextTrees(job.dest, Live(job.rel), job.todo)

AfterDestroy(j) ==
  IF j.kind = "diverged" THEN NoJob
  ELSE [j EXCEPT !.step = "rewrite", !.pts = Losing(j.held, j.gone)]

(* zfs destroy -r of one tree.  One that fails may have taken what is      *)
(* below it; nothing else of the destroy is tried.                         *)
DestroyTree ==
  /\ At("destroy")
  /\ \E t \in Targets :
       LET j == [job EXCEPT !.todo = @ \ {t}, !.gone = @ \cup {t}]
       IN  \/ /\ Take({t})
              /\ job' = IF job.todo = {} THEN AfterDestroy(j) ELSE j
              /\ UNCHANGED budget
           \/ /\ Fault
              /\ \/ Take({x \in Tree(fs, t) : x # t})
                 \/ UNCHANGED <<fs, snaps, took>>
              /\ job' = AfterDestroy([job EXCEPT !.ok = FALSE])
  /\ UNCHANGED <<origin, excl, anchors, points, warned, stopped, asked>>

(* Mutant: the count goes down and the record stays.                       *)
RewrittenNot(m, p) == m

(* The record of a point that lost part of its snapshots: what it left     *)
(* out, with the destroyed top and the datasets it no longer holds.        *)
Rewritten(m, p) ==
  LET r == job.rel
  IN  [state |-> "read", tops |-> {u \in m.tops : u[1] # r} \cup {<<r, FlagsOf(excl, r)>>},
       sets |-> m.sets \cup LostOf(job.held, job.gone, p)]

(* An orphan's points: the count alone, nothing being there for recover to *)
(* make again.                                                             *)
RewriteOrphan(p, count) ==
  /\ \/ /\ snaps' = {IF s.p = p THEN [s EXCEPT !.count = count] ELSE s : s \in snaps}
        /\ UNCHANGED <<warned, budget>>
     \/ Fault /\ warned' = warned \cup {p} /\ UNCHANGED snaps
  /\ job' = [job EXCEPT !.pts = @ \ {p}]

(* One zfs set of the count and the record on what is left of the point; a *)
(* record that cannot be read now ends the command.                        *)
RewriteHeld(p, count, m) ==
  IF m = BadRecord
  THEN job' = NoJob /\ UNCHANGED <<snaps, warned, budget>>
  ELSE /\ \/ SetProps(Members(p), count, Rewritten(m, p)) /\ UNCHANGED <<warned, budget>>
          \/ /\ SetPartly(Members(p), count, Rewritten(m, p))
             /\ warned' = warned \cup {p}
       /\ job' = [job EXCEPT !.pts = @ \ {p}]

Rewrite ==
  /\ At("rewrite")
  /\ \E p \in job.pts : \E c \in Counts(job.held, p) :
       LET count == c - Cardinality(LostOf(job.held, job.gone, p))
       IN  /\ \/ job.kind = "orphan" /\ RewriteOrphan(p, count)
              \/ /\ job.kind = "excluded"
                 /\ \E m \in RecordsOf(job.held, job.gone, p) : RewriteHeld(p, count, m)
           /\ stopped' = IF job.ok THEN stopped ELSE stopped \cup {p}
  /\ UNCHANGED <<origin, excl, fs, anchors, points, took, asked>>

(* _drop_anchors: this drive's, on the subtree, once the copy is gone.     *)
DropAnchors ==
  /\ At("rewrite") /\ job.pts = {}
  /\ IF job.kind = "excluded" /\ job.ok
     THEN LET drop == {a \in anchors : a[1] = Mine /\ a[2] \in Below(job.rel)}
          IN  \/ anchors' = anchors \ drop /\ UNCHANGED budget
              \/ Fault /\ \E d \in SUBSET drop : anchors' = anchors \ d
     ELSE UNCHANGED <<anchors, budget>>
  /\ job' = NoJob
  /\ UNCHANGED <<origin, excl, fs, snaps, hist>>

(* The command is killed, or a step fails and it gives up.                 *)
Stop ==
  /\ ~Idle
  /\ Fault
  /\ job' = NoJob
  /\ UNCHANGED <<origin, excl, fs, snaps, anchors, hist>>
-----------------------------------------------------------------------------
Step ==
  \/ Record \/ MarkComplete
  \/ BranchClone \/ BranchPromote \/ BranchChildren \/ BranchDone
  \/ DestroyTree \/ Rewrite \/ DropAnchors

Whats(r) == {{"replicate"}, {"snapshot"}} \cup (IF r = "data" THEN {Flags} ELSE {})

(* Once the last backup is made only exclusions, destroys and branches of  *)
(* data follow: what else could happen then happens before it as well.     *)
More == Len(points) < MaxPoints

(* No command runs and a bound is reached: the user may stop here.         *)
Finished == Idle /\ (~More \/ budget.acts = 0) /\ UNCHANGED vars

Next ==
  \/ Step \/ Stop \/ Finished
  \/ \E r \in {"data", "sub"} : \E what \in Whats(r) : Exclude(r, what)
  \/ \E r \in {"data", "sub"} : \E what \in Whats(r) : More /\ Include(r, what)
  \/ UserClone \/ UserDestroy
  \/ Backup(Expected(excl))
  \/ \E r \in Expected(excl) : Backup(Expected(excl) \ Below(r))
  \/ \E r \in Rels : DestroyDiverged(r) \/ DestroyOrphan(r)
  \/ \E r \in Rels : More /\ Archive(r)
  \/ \E r \in Rels, c \in DOMAIN points :
       ((More \/ r = "data") /\ Branch(r, c)) \/ (More /\ Rollback(r, c))
  \/ \E t \in Rels : DestroyHeld(t)
  \/ \E t \in Rels : More /\ KeepHeld(t)

Spec == Init /\ [][Next]_vars
-----------------------------------------------------------------------------
(* Properties.                                                             *)

RecordType ==
  [state : {"none", "bad", "read"},
   tops : SUBSET (Rels \X {"backups", "both", "snapshots"}), sets : SUBSET Rels]

(* TypeOK: a clone on the drive is one of a snapshot the drive has, and    *)
(* every snapshot is in a dataset that is there: no destroy, rename or     *)
(* promote leaves something hanging.                                       *)
TypeOK ==
  /\ origin \subseteq Rels
  /\ excl \in [Rels -> SUBSET Flags]
  /\ \A x \in DOMAIN fs :
       /\ fs[x].kept \in BOOLEAN
       /\ fs[x].of = NoClone \/ \E s \in snaps : fs[x].of = <<s.at, s.p>>
       /\ Len(x) > 1 => Front(x) \in DOMAIN fs
  /\ \A s \in snaps : s.at \in DOMAIN fs /\ s.count \in Nat /\ s.rec \in RecordType
  /\ anchors \subseteq {Mine, Other} \X Rels

(* OrderAccepted: whatever clones a history of branches, archives and      *)
(* received clones left on the drive, no zfs destroy -r that a plan orders *)
(* is one ZFS would refuse for a clone outside the tree (destroy_plan).    *)
OrderAccepted == At("destroy") => \A t \in Targets : ~Refused(fs, t)

(* TakesOnly: a confirmed destroy takes the dataset it names, what is      *)
(* below it and archived lineages of those, and nothing else on the drive. *)
TakesOnly ==
  [][\A x \in DOMAIN fs \ DOMAIN fs' :
       \/ job.kind = "branch" \/ job'.kind = "branch" \/ Idle
       \/ Under(Plain(x), Live(job.rel))]_vars

(* LeftOut: at every point whose record was written, what the backup left  *)
(* out comes back empty, or not at all below an empty top, however often   *)
(* it was included, excluded or destroyed since; never an older copy.      *)
LeftOut ==
  \A p \in DOMAIN points \ warned :
    points[p].recorded /\ Members(p) # {}
      => LET got == Restored(p)
         IN  \A r \in points[p].left : got[r] \notin {"own", "older"}

(* WholeTrue: a point that reads complete and that no warning named holds  *)
(* every dataset its run brought, as recover restores it, but those a      *)
(* confirmed destroy took; those come back empty, an orphan not at all.    *)
WholeTrue ==
  \A p \in Complete \ (warned \cup stopped) :
    LET got == Restored(p)
    IN  \A r \in points[p].ran :
          IF <<p, r>> \in took
          THEN got[r] \in {"empty", "below"} \cup (IF r = "clone" THEN {"absent"} ELSE {})
          ELSE got[r] = "own"

(* ExclusionsRestored: a system recovered from a complete point leaves out *)
(* of backups and of snapshots, of the datasets it has, what origin left   *)
(* out at the point, with the flags where they were set.                   *)
ExclusionsRestored ==
  \A p \in Complete \ warned :
    LET e   == points[p].excl
        m   == ReadPointMark(p)
        got == Restored(p)
        has == {r \in Rels : got[r] \in {"own", "empty"}}
        rep == LeftTops(m) \cap has
        snp == {r \in has : \/ <<r, "both">> \in m.tops
                            \/ <<r, "snapshots">> \in m.tops /\ got[r] = "own"}
    IN  (\A r \in Rels : <<p, r>> \notin took) =>
          /\ \A r \in has : Covered(r, rep) <=> Covered(r, NoBackup(e))
          /\ \A r \in has : Covered(r, snp) <=> Covered(r, NoSnapshot(e))
          /\ \A r \in rep : "replicate" \in e[r]
          /\ \A r \in snp : "snapshot" \in e[r]

(* AnchorsKept: an anchor goes from origin only with the dataset, or for   *)
(* the drive whose copy was destroyed and that holds none any more.        *)
AnchorsKept ==
  [][\A a \in anchors \ anchors' : a[2] \notin origin' \/ (a[1] = Mine /\ ~Held(a[2]))]_vars

(* BranchWhole: a branch that reports its end left live every dataset that *)
(* was, the one it branched with the snapshots up to the common one.       *)
BranchWhole ==
  job.kind = "branch" /\ At("done") =>
    /\ job.held \subseteq DOMAIN fs
    /\ \A c \in job.pts : Max(HeldAt(Live(job.rel))) = c

(* KeptAnswered: a copy is marked as kept only while the user's answer     *)
(* stands: a backup with the dataset included again withdraws it.          *)
KeptAnswered == \A x \in DOMAIN fs : fs[x].kept => Name(x) \in asked

(* Destroys: a confirmed destroy is one ZFS accepts at every step, takes   *)
(* the copy it names and its lineages only, and drops the anchors in       *)
(* origin of no copy that is still there.                                  *)
Destroys == []OrderAccepted /\ TakesOnly /\ AnchorsKept

(* LeavesOut: recover leaves out what the point left out, with the flags   *)
(* of its day.                                                             *)
LeavesOut == LeftOut /\ ExclusionsRestored

(* Lineages: however branches, archives, destroys and clones followed one  *)
(* another or were stopped, the copies on the drive hang together, a       *)
(* branch lost none, and one is kept only while the user said so.          *)
Lineages == TypeOK /\ BranchWhole /\ KeptAnswered
=============================================================================
