----------------------------- MODULE Retention -----------------------------
(***************************************************************************)
(* The life of one backup drive as retention sees it: backups that bring   *)
(* points and the sanoid snapshots between them, datasets destroyed and    *)
(* created again in origin, archived or destroyed on the drive, snapshots  *)
(* held or lost, and everything that removes snapshots from the drive by   *)
(* plan: the policy after a complete run (_apply_retention), the space     *)
(* plan of a backup (_make_room) and the stages of `zark prune'.           *)
(*                                                                         *)
(* The clock counts in one unit for days, the window and the gap between   *)
(* sanoid runs; each snapshot, and each change of origin, has an instant   *)
(* of its own.  Datasets are flat: the subtree of a lineage is the lineage.*)
(***************************************************************************)
EXTENDS RestorePoints

CONSTANTS Root,         \* the boot environment's root, a dataset
          Bpool,        \* those of bpool, snapshot by a second zfs call
          WindowDays,   \* Policy.window_days
          MaxAges,      \* the values of Policy.max_age_days, 0 for off
          MonthLen,     \* instants in a calendar month
          Pause,        \* instants a drive stays away at a time
          MaxPauses,    \* bound: times it does
          MaxBackups,   \* bound: backups
          MaxEvents,    \* bound: what users do to origin and to the drive
          MaxSessions,  \* bound: zark prune and space plans
          MarkFaults    \* whether zfs set may leave a mark out

(* The datasets origin may have.                                           *)
Datasets == Range(Sorted)

ASSUME RetentionAssumption ==
  /\ Root \in Datasets /\ Bpool \subseteq Datasets
  /\ MaxTime \in Nat /\ MonthLen \in Nat \ {0} /\ RepeatGap \in Nat

VARIABLES now, listing,
          stores,       \* the lineages on the drive, <<dataset, number>>
          kept,         \* live copies marked as kept orphans
          pins,         \* snapshots that are held or a clone's origin
          first, last,  \* org.zark:first-point and last-point, 0 for none
          origin,       \* origin's datasets
          maxAge,       \* the drive's Policy.max_age_days
          sess,         \* what a zark prune session has read
          left,         \* the bounds: what may still happen
          act,          \* the last operation that removed by plan
          since, runs, begun \* history: see the properties

vars == <<now, listing, stores, kept, pins, first, last, origin, maxAge, sess,
          left, act, since, runs, begun>>

Idle == [st |-> "idle"]

(***************************************************************************)
(* lib/retention.py.                                                       *)
(***************************************************************************)
Month(t) == t \div MonthLen

(* is_live: neither an archived lineage nor a kept orphan.                 *)
IsLive(s, keep) == s.arch = 0 /\ s.ds \notin keep

(* A snapshot whatever its mark: pins and what must stay name snapshots so.*)
Id(s) == <<s.ds, s.arch, s.creation>>
Ids(S) == {Id(s) : s \in S}

IsNewest(L, s) ==
  \A u \in L : Stored(u) = Stored(s) => u.creation <= s.creation

(* The order of monthly_points and newest_complete: whole points first,    *)
(* then by time; names break ties and are times here.                      *)
Better(L, whole, p, q) ==
  \/ p \in whole /\ q \notin whole
  \/ (p \in whole <=> q \in whole) /\ PointTime(L, p) > PointTime(L, q)
  \/ /\ p \in whole <=> q \in whole
     /\ PointTime(L, p) = PointTime(L, q) /\ p >= q

(* Mutant: a month keeps its newest complete point, skipped or not.        *)
BestNewest(L, whole, ps) == {p \in ps : \A q \in ps : p >= q}

Best(L, whole, ps) == {p \in ps : \A q \in ps : Better(L, whole, p, q)}

Done(L, c) == PointNames(L) \cap c.run

MonthlyOf(L, c, ps) ==
  UNION {Best(L, c.whole, {q \in ps :
                             Month(PointTime(L, q)) = Month(PointTime(L, p))}) :
           p \in ps}

(* Mutant: a month is judged from the complete points that are still whole.*)
MonthlyWhole(L, c) == MonthlyOf(L, c, Done(L, c) \cap c.whole)

MonthlyPoints(L, c) == MonthlyOf(L, c, Done(L, c))

NewestComplete(L, c) == Best(L, c.whole, Done(L, c))

(* first_point_time: the recorded first point or the oldest still there.   *)
FirstPointTime(L, c) ==
  LET found == {PointTime(L, p) : p \in PointNames(L)} \cup ({c.first} \ {0})
  IN  IF found = {} THEN 0 ELSE Min(found)

(* A point is dated once for the whole drive, by its newest snapshot.      *)
When(L, s) == IF s.kind = "point" THEN PointTime(L, s.name) ELSE s.creation

(* _keep_reason: what the policy never takes; `start' is the time of the   *)
(* first point, `newest' the newest complete one.                          *)
KeepReason(L, keep, start, newest, protected, s) ==
  \/ s.kind = "other"
  \/ When(L, s) < start
  \/ IsLive(s, keep) /\ IsNewest(L, s)
  \/ s.kind = "point" /\ s.name \in newest
  \/ Id(s) \in protected

(* plan_prune: the snapshots the policy removes.                           *)
PlanPrune(L, keep, c, age, t, pinned, protected) ==
  LET start   == FirstPointTime(L, c)
      newest  == NewestComplete(L, c)
      monthly == MonthlyPoints(L, c)
  IN  {s \in L :
         /\ start # 0
         /\ Id(s) \notin pinned
         /\ \/ age # 0 /\ When(L, s) < t - age
            \/ /\ When(L, s) < t - WindowDays
               /\ s.kind = "point" => s.name \notin monthly
         /\ ~KeepReason(L, keep, start, newest, protected, s)}

(* space_candidates: the monthly points outside the window.                *)
SpaceCandidates(L, c, t, removals) ==
  {p \in MonthlyPoints(L, c) :
     /\ PointTime(L, p) < t - WindowDays
     /\ p \notin NewestComplete(L, c)
     /\ p \notin {s.name : s \in removals}}

(* point_removals: what may go of one point.                               *)
PointRemovals(L, keep, p, pinned, protected) ==
  {s \in Members(L, p) : /\ Id(s) \notin pinned \cup protected
                         /\ ~(IsLive(s, keep) /\ IsNewest(L, s))}

(* The n oldest candidates, those of which nothing can go left out.        *)
Oldest(L, keep, c, t, removals, pinned, protected, n) ==
  LET can == {p \in SpaceCandidates(L, c, t, removals) :
                PointRemovals(L, keep, p, pinned, protected) # {}}
      sel == {p \in can : Cardinality({q \in can : q < p}) < n}
  IN  UNION {PointRemovals(L, keep, p, pinned, protected) : p \in sel}

(* _legacy_history: sanoid's snapshots from before the first point.        *)
LegacyHistory(L, keep, c, pinned) ==
  {s \in L :
     /\ s.kind = "auto" /\ Id(s) \notin pinned
     /\ ~(IsLive(s, keep) /\ IsNewest(L, s))
     /\ FirstPointTime(L, c) = 0 \/ s.creation < FirstPointTime(L, c)}

(* whole_datasets: the lineages and kept orphans that lose everything.     *)
WholeDatasets(L, keep, removals) ==
  {Stored(s) : s \in {r \in removals :
     /\ ~IsLive(r, keep)
     /\ \A u \in L : Stored(u) = Stored(r) => u \in removals}}

(***************************************************************************)
(* lib/reclaim.py.                                                         *)
(***************************************************************************)
(* What apply_prune destroys of a plan: snapshots by name, the group of a  *)
(* dataset one by one when ZFS refuses it; a dataset that goes whole goes  *)
(* at once or not at all.  `cut' are the datasets a signal leaves undone.  *)
Destroyed(removals, tops, pinned, cut) ==
  {s \in removals :
     /\ Stored(s) \notin cut
     /\ IF Stored(s) \in tops
        THEN \A i \in pinned : <<i[1], i[2]>> # Stored(s)
        ELSE Id(s) \notin pinned}

ApplyPrune(L, removals, tops, cut) ==
  LET gone == Destroyed(removals, tops, pins, cut)
      done == {st \in tops : \E s \in gone : Stored(s) = st}
  IN  /\ listing' = L \ gone
      /\ stores' = stores \ done
      /\ kept' = {d \in kept : <<d, 0>> \notin done}

(* drive_complete: what the marks and the metadata say of the points.      *)
Complete(L, recorded) ==
  [run |-> RunComplete(L, last), whole |-> WholePoints(L, last),
   first |-> recorded]

(***************************************************************************)
(* Initially: a new drive; a drive of zark 1.x, with sanoid's snapshots or *)
(* a user's only; one of an early 2.0.0, whose point has no mark; of rc2.  *)
(***************************************************************************)
Snap(d, kind, name, creation, mark) ==
  [ds |-> d, arch |-> 0, kind |-> kind, name |-> name, creation |-> creation,
   mark |-> mark]

Init ==
  /\ \E age \in {"new", "1.x", "hand", "rc1", "rc2"} :
       LET old == CASE age = "new" -> {}
                    [] age = "1.x" -> {"auto"}
                    [] age = "hand" -> {"other"}
                    [] OTHER       -> {"point"}
       IN  /\ listing = {Snap(d, k, 1, 1, IF age = "rc2" THEN Legacy ELSE 0) :
                           d \in Datasets, k \in old}
           /\ last = IF "point" \in old THEN 1 ELSE 0
           /\ begun = IF "point" \in old THEN 1 ELSE 0
           /\ stores = IF old = {} THEN {} ELSE Datasets \X {0}
  /\ now = 2
  /\ first = 0 /\ kept = {} /\ pins = {} /\ origin = Datasets
  /\ maxAge \in MaxAges
  /\ sess = Idle /\ act = "none" /\ runs = {}
  /\ since = [d \in Datasets |-> 0]
  /\ left = [backups |-> MaxBackups, events |-> MaxEvents,
             sessions |-> MaxSessions, pauses |-> MaxPauses]

Spend(what) ==
  /\ left[what] > 0
  /\ left' = [left EXCEPT ![what] = @ - 1]

(***************************************************************************)
(* A backup.  record_first_point reads the drive before the run's point    *)
(* reaches it; the point is taken on rpool and then on bpool.  `reached'   *)
(* are the datasets the run brings to the point; when they are all it      *)
(* expects, the run is complete: record_complete marks the point on every  *)
(* snapshot `marked' (zfs set sets those it can), brings older marks to a  *)
(* count, and retention follows; last-point is written after it.           *)
(***************************************************************************)
(* record_first_point: the oldest point there, by time.                    *)
OldestPoint(L) ==
  IF PointNames(L) = {} THEN 0
  ELSE CHOOSE p \in PointNames(L) :
         \A q \in PointNames(L) : PointTime(L, p) <= PointTime(L, q)

RecordFirst == IF first # 0 THEN first ELSE OldestPoint(listing)

(* The points of before the count that record_complete gives one.          *)
OldMarks(L) ==
  IF Marked(L) = {} THEN LegacyComplete(L, last)
  ELSE {p \in Marked(L) : \A s \in Members(L, p) : s.mark = Legacy}

RecordComplete(L, p, marked, n) ==
  LET old == OldMarks(L) \ {p}
      upd(s) == IF s.kind # "point" THEN s
                ELSE IF s.name = p /\ s.ds \in marked THEN [s EXCEPT !.mark = n]
                ELSE IF s.name \in old
                     THEN [s EXCEPT !.mark = Cardinality(Holders(L, s.name))]
                ELSE s
  IN  {upd(s) : s \in L}

(* The drive once a run has brought its point, and a sanoid run before it. *)
Received(reached, autos, skew) ==
  LET p == now + (IF autos THEN 1 ELSE 0)
  IN  listing
        \cup {Snap(d, "point", p, IF d \in Bpool THEN p + skew ELSE p, 0) :
                d \in reached}
        \cup {Snap(d, "auto", now, now, 0) :
                d \in IF autos THEN {e \in reached : since[e] < now} ELSE {}}

Backup(reached, marked, autos, skew) ==
  LET p  == now + (IF autos THEN 1 ELSE 0)
      L  == Received(reached, autos, skew)
      ok == reached = origin
      M  == RecordComplete(L, p, marked, Cardinality(reached))
      keep == kept \ reached
      rm == PlanPrune(M, keep, Complete(M, RecordFirst), maxAge, p + skew, pins, {})
  IN  /\ sess = Idle
      /\ IF ok /\ marked # reached THEN Spend("events") /\ left.backups > 0
                                    ELSE Spend("backups")
      /\ p + skew < MaxTime
      /\ now' = p + skew + 1
      /\ first' = RecordFirst
      /\ begun' = IF first # 0 THEN begun
                  ELSE IF PointNames(listing) = {} THEN p ELSE OldestPoint(listing)
      /\ act' = IF ok THEN "policy" ELSE "none"
      /\ IF ok
         THEN LET tops == WholeDatasets(M, keep, rm)
                  gone == Destroyed(rm, tops, pins, {})
              IN  /\ listing' = M \ gone
                  /\ stores' = (stores \cup (reached \X {0}))
                                 \ {st \in tops : \E s \in gone : Stored(s) = st}
                  /\ kept' = {d \in keep : <<d, 0>> \in stores'}
         ELSE /\ listing' = L
              /\ stores' = stores \cup (reached \X {0})
              /\ kept' = keep
      /\ last' = IF ok THEN p ELSE last
      /\ runs' = IF ok
                 THEN {[r EXCEPT !.reached = IF r.name \in OldMarks(L)
                                             THEN Holders(L, r.name) ELSE @] :
                         r \in runs} \cup {[name |-> p, reached |-> reached]}
                 ELSE runs
      /\ UNCHANGED <<pins, origin, maxAge, sess, since>>

(* A run needs a copy of each dataset it brings that still has a base:     *)
(* a dataset created again in origin is archived or destroyed first.       *)
Current(d) ==
  \A s \in listing : s.ds = d /\ s.arch = 0 => s.creation >= since[d]

SomeBackup ==
  \E reached \in SUBSET {d \in origin : Current(d)}, skew \in {0, 1},
     autos \in BOOLEAN :
    /\ reached # {}
    /\ skew = 1 => reached \cap Bpool # {}
    /\ \E marked \in IF reached = origin /\ MarkFaults
                     THEN {reached, reached \ {Root}}
                     ELSE {reached} :
         Backup(reached, marked, autos, skew)

(***************************************************************************)
(* What users do to origin and to the drive.  An instant passes in each.   *)
(***************************************************************************)
Instant == now < MaxTime /\ now' = now + 1

Drop(d) ==
  /\ sess = Idle /\ Instant /\ Spend("events")
  /\ d \in origin \ {Root}
  /\ origin' = origin \ {d} /\ act' = "none"
  /\ UNCHANGED <<listing, stores, kept, pins, first, last, maxAge, sess, since,
                 runs, begun>>

Create(d) ==
  /\ sess = Idle /\ Instant
  /\ d \notin origin
  /\ origin' = origin \cup {d} /\ since' = [since EXCEPT ![d] = now]
  /\ act' = "none"
  /\ UNCHANGED <<listing, stores, kept, pins, first, last, maxAge, sess, left,
                 runs, begun>>

(* keep_orphan marks the live copy of a dataset origin no longer has.      *)
KeepOrphan(d) ==
  /\ sess = Idle /\ d \notin origin \cup kept /\ <<d, 0>> \in stores
  /\ kept' = kept \cup {d} /\ act' = "none"
  /\ UNCHANGED <<now, listing, stores, pins, first, last, origin, maxAge, sess,
                 left, since, runs, begun>>

(* destroy_orphan: the copy goes, and every point that held it is told.    *)
(* `unset' are the points whose marks could not be written.                *)
DestroyOrphan(d) ==
  LET gone == {s \in listing : s.ds = d /\ s.arch = 0}
  IN  /\ sess = Idle
      /\ d \notin origin /\ <<d, 0>> \in stores
      /\ Ids(gone) \cap pins = {}
      /\ \E mark \in [PointNames(listing) -> 0..Cardinality(Datasets)] :
           /\ \A p \in PointNames(listing) :
                mark[p] \in Lowered(listing, gone, p) \cup {0}
           /\ listing' = {IF s.kind = "point" /\ mark[s.name] > 0
                          THEN [s EXCEPT !.mark = mark[s.name]] ELSE s :
                            s \in listing \ gone}
      /\ stores' = stores \ {<<d, 0>>} /\ kept' = kept \ {d}
      /\ runs' = {[r EXCEPT !.reached = @ \ {d}] : r \in runs}
      /\ act' = "none"
      /\ UNCHANGED <<now, pins, first, last, origin, maxAge, sess, left, since,
                     begun>>

(* A diverged copy is archived and the dataset resent in full, or is       *)
(* destroyed (engine.archive, engine.destroy): no mark is rewritten.       *)
Archive(d) ==
  LET n == 1 + Cardinality({st \in stores : st[1] = d})
  IN  /\ sess = Idle /\ d \in origin /\ <<d, 0>> \in stores /\ ~Current(d)
      /\ listing' = {IF Stored(s) = <<d, 0>> THEN [s EXCEPT !.arch = n] ELSE s :
                       s \in listing}
      /\ pins' = {IF <<i[1], i[2]>> = <<d, 0>> THEN <<d, n, i[3]>> ELSE i :
                    i \in pins}
      /\ stores' = (stores \ {<<d, 0>>}) \cup {<<d, n>>}
      /\ kept' = kept \ {d} /\ act' = "none"
      /\ UNCHANGED <<now, first, last, origin, maxAge, sess, left, since, runs,
                     begun>>

(* A rollback, or a destroy by hand, of a live copy's newest snapshot, or  *)
(* of another when it is not held.                                         *)
Lose(s) ==
  /\ sess = Idle /\ Spend("events")
  /\ s.arch = 0 /\ Id(s) \notin pins
  /\ \E u \in listing : u # s /\ Stored(u) = Stored(s)
  /\ listing' = listing \ {s} /\ act' = "none"
  /\ UNCHANGED <<now, stores, kept, pins, first, last, origin, maxAge, sess,
                 since, runs, begun>>

Hold(s) ==
  /\ pins = {} /\ Spend("events")
  /\ pins' = {Id(s)} /\ act' = "none"
  /\ UNCHANGED <<now, listing, stores, kept, first, last, origin, maxAge, sess,
                 since, runs, begun>>

(* Time passes: the drive is away.                                         *)
Away ==
  /\ sess = Idle /\ Spend("pauses") /\ now + Pause <= MaxTime
  /\ now' = now + Pause /\ act' = "none"
  /\ UNCHANGED <<listing, stores, kept, pins, first, last, origin, maxAge, sess,
                 since, runs, begun>>

(***************************************************************************)
(* _make_room: the policy and then, on a yes, the n oldest monthly points; *)
(* the bases of this run are protected, and a lineage is whole by what     *)
(* both remove.                                                            *)
(***************************************************************************)
MakeRoom(n, protected) ==
  LET c    == Complete(listing, first)
      rm   == PlanPrune(listing, kept, c, maxAge, now, pins, protected)
      more == Oldest(listing, kept, c, now, rm, pins, protected, n)
  IN  /\ sess = Idle /\ Spend("sessions")
      /\ rm \cup more # {}
      /\ ApplyPrune(listing, rm \cup more,
                    WholeDatasets(listing, kept, rm \cup more), {})
      /\ act' = "room"
      /\ UNCHANGED <<now, pins, first, last, origin, maxAge, sess, since, runs,
                     begun>>

(***************************************************************************)
(* `zark prune' on the drive: it reads the drive once, applies or not what *)
(* the policy removes, reads the listing again, and goes beyond the policy *)
(* with the marks and pins it read first.                                  *)
(***************************************************************************)
PruneOpen ==
  LET c == Complete(listing, first)
  IN  /\ sess = Idle /\ Spend("sessions")
      /\ sess' = [st |-> "policy", c |-> c, pins |-> pins,
                  plan |-> PlanPrune(listing, kept, c, maxAge, now, pins, {})]
      /\ act' = "none"
      /\ UNCHANGED <<now, listing, stores, kept, pins, first, last, origin,
                     maxAge, since, runs, begun>>

(* The policy's plan confirmed; a signal may leave some datasets undone    *)
(* and ends the session.                                                   *)
PruneApply(cut) ==
  /\ sess.st = "policy" /\ sess.plan # {}
  /\ cut \subseteq {Stored(s) : s \in sess.plan}
  /\ ApplyPrune(listing, sess.plan, WholeDatasets(listing, kept, sess.plan), cut)
  /\ sess' = IF cut = {} THEN [sess EXCEPT !.st = "beyond", !.plan = {}] ELSE Idle
  /\ act' = IF cut = {} THEN "policy" ELSE "cut"
  /\ UNCHANGED <<now, pins, first, last, origin, maxAge, left, since, runs, begun>>

PruneDecline ==
  /\ sess.st = "policy"
  /\ sess' = [sess EXCEPT !.st = "beyond"] /\ act' = "none"
  /\ UNCHANGED <<now, listing, stores, kept, pins, first, last, origin, maxAge,
                 left, since, runs, begun>>

(* _beyond: the n oldest monthly points, then what is older than the first *)
(* point, each on a typed word.                                            *)
PruneBeyond(n) ==
  LET rm == Oldest(listing, kept, sess.c, now, sess.plan, sess.pins, {}, n)
  IN  /\ sess.st = "beyond" /\ rm # {}
      /\ ApplyPrune(listing, rm, WholeDatasets(listing, kept, rm), {})
      /\ sess' = [sess EXCEPT !.st = "legacy"] /\ act' = "beyond"
      /\ UNCHANGED <<now, pins, first, last, origin, maxAge, left, since, runs,
                     begun>>

PruneLegacy ==
  LET rm == LegacyHistory(listing, kept, sess.c, sess.pins)
  IN  /\ sess.st \in {"beyond", "legacy"} /\ rm # {}
      /\ ApplyPrune(listing, rm, WholeDatasets(listing, kept, rm), {})
      /\ sess' = Idle /\ act' = "legacy"
      /\ UNCHANGED <<now, pins, first, last, origin, maxAge, left, since, runs,
                     begun>>

PruneEnd ==
  /\ sess.st \in {"beyond", "legacy"}
  /\ sess' = Idle /\ act' = "none"
  /\ UNCHANGED <<now, listing, stores, kept, pins, first, last, origin, maxAge,
                 left, since, runs, begun>>

Next ==
  \/ SomeBackup
  \/ \E d \in Datasets : \/ Drop(d) \/ Create(d) \/ KeepOrphan(d)
                         \/ DestroyOrphan(d) \/ Archive(d)
  \/ \E s \in listing : Lose(s) \/ Hold(s)
  \/ Away
  \/ \E n \in 0..1, protected \in {{}} \cup
       {{Id(s)} : s \in {u \in listing : u.kind = "auto" /\ u.arch = 0}} :
       MakeRoom(n, protected)
  \/ PruneOpen
  \/ \E cut \in SUBSET stores : PruneApply(cut)
  \/ PruneDecline
  \/ \E n \in 1..2 : PruneBeyond(n)
  \/ PruneLegacy
  \/ PruneEnd

Spec == Init /\ [][Next]_vars

TypeOK ==
  /\ now \in 1..MaxTime /\ {first, last, begun} \subseteq 0..MaxTime
  /\ \A s \in listing :
       /\ s.ds \in Datasets /\ s.arch \in Nat /\ s.kind \in {"point", "auto", "other"}
       /\ s.creation < now /\ Stored(s) \in stores
       /\ s.mark \in {0, Legacy} \cup 1..Cardinality(Datasets)
       /\ \A u \in listing : Id(u) = Id(s) => u = s
  /\ kept \subseteq Datasets /\ origin \subseteq Datasets
  /\ sess.st \in {"idle", "policy", "beyond", "legacy"}

(* MonthsKept: the policy never empties a month.  Every calendar month     *)
(* with a marked point not past the maximum age keeps a complete run's,    *)
(* complete in what it still held, and one no dataset skipped when it had  *)
(* such a point.                                                           *)
MonthsKept ==
  [][act' = "policy" =>
      LET B == listing \cup listing'
      IN  \A p \in Marked(listing) :
            \/ maxAge # 0
            \/ \E q \in RunComplete(listing', last') :
                 /\ Month(PointTime(B, q)) = Month(PointTime(B, p))
                 /\ Ids(Members(B, q)) \subseteq Ids(listing')
                 /\ p \in Skipped(B) \/ q \notin Skipped(B)]_vars

(* Removing by plan: the steps whose removals zark chose.                  *)
ByPlan == act' \in {"policy", "room", "beyond", "legacy", "cut"}

(* NewestStays: whatever is removed by plan, in whatever order and from    *)
(* whatever was read before, the newest snapshot of every live copy stays  *)
(* (the base of its next incremental).                                     *)
NewestStays ==
  [][ByPlan =>
      \A s \in listing :
        IsLive(s, kept) /\ s.ds \in origin /\ IsNewest(listing, s)
          => \E u \in listing' : Stored(u) = Stored(s) /\ u.creation >= s.creation]_vars

(* PointsWhole: the policy takes a backup point whole or leaves it whole:  *)
(* what it leaves of a point it takes from is a live copy's newest         *)
(* snapshot, or pinned.                                                    *)
PointsWhole ==
  [][act' = "policy" =>
      \A s \in PointsOf(listing) \cap listing' :
        \/ Ids(Members(listing, s.name)) \subseteq Ids(listing')
        \/ Id(s) \in pins
        \/ IsLive(s, kept) /\ IsNewest(listing', s)
        \/ \E i \in pins : <<i[1], i[2]>> = Stored(s)]_vars

(* AgesOut: the policy leaves no sanoid snapshot older than the window and *)
(* newer than the drive's very first backup point (`begun'), whatever has  *)
(* become of that point since; live copies' newest and pinned ones apart.  *)
AgesOut ==
  [][act' = "policy" =>
      \A s \in listing' :
        \/ s.kind = "point" \/ s.creation < begun' \/ Id(s) \in pins
        \/ s.creation >= now - WindowDays
        \/ IsLive(s, kept) /\ IsNewest(listing', s)
        \/ \E i \in pins : <<i[1], i[2]>> = Stored(s)]_vars

(* CompleteTrue: a point read as complete is held by every dataset its run *)
(* brought to it (`runs'), those destroyed on the drive on purpose and the *)
(* marks without a count apart.                                            *)
CompleteTrue ==
  \A r \in runs :
    /\ r.name \in CompletePoints(listing, last)
    /\ \E s \in Members(listing, r.name) : s.mark > 0
    => r.reached \subseteq Holders(listing, r.name)

(* NoEmptyLineage: no archived lineage is left on the drive with its data  *)
(* and no snapshot to reach it by.                                         *)
NoEmptyLineage ==
  \A st \in stores : st[2] # 0 => \E s \in listing : Stored(s) = st

(* NeverForgets: a dataset that origin has had since before a snapshot the *)
(* drive holds of it is restored by every restore point after that         *)
(* snapshot, on a drive whose complete points record their count.          *)
Counted == \A p \in CompletePoints(listing, last) :
             \E s \in Members(listing, p) : s.mark > 0

NeverForgets ==
  Counted => \A run \in Offered(listing, Root) :
    LET complete == CompletePoints(listing, last)
    IN  \A s \in listing :
          s.ds \in origin /\ since[s.ds] <= s.creation /\ s.creation <= End(run)
            => Resolve(listing, run, s.ds, complete) # {}

(* Reachable: nothing the drive holds gets out of reach: no lineage is     *)
(* left without a snapshot, no dataset without a restore point.            *)
Reachable == NoEmptyLineage /\ NeverForgets

(* PruneRight: what the policy, the room made before a backup and zark     *)
(* prune remove: never a month's last complete point, a base or part of a  *)
(* point, and everything that is past the window.                          *)
PruneRight == MonthsKept /\ NewestStays /\ PointsWhole /\ AgesOut
=============================================================================
