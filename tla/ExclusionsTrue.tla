--------------------------- MODULE ExclusionsTrue ---------------------------
(***************************************************************************)
(* Proof of LeavesOut of Exclusions, for any number of backups, exclusions,*)
(* lineages moved or destroyed and faults: recover leaves out what a       *)
(* point's backup left out, with the flags of its day.                     *)
(*                                                                         *)
(* What is on a drive of a point moves between paths and goes; its name    *)
(* and its record stay, until a destroy the user confirmed took something  *)
(* of the point, and then the record only says more (Recorded).  A command *)
(* that destroys rewrites from what it read before (HeldRecords,           *)
(* HeldTaken), and a count says that the run brought all it expected       *)
(* (Counted, Present).                                                     *)
(***************************************************************************)
EXTENDS Exclusions, SequenceTheorems, FiniteSetTheorems, TLAPS

(* Paths on the drive.  Where Min has nothing to choose from it is still   *)
(* one value for each set.                                                 *)
Index == Nat \cup {Min(S) : S \in SUBSET (1..(MaxActs + 1))}
Step1 == Rels \X Index
Paths == Seq(Step1) \ {<<>>}

LEMMA PathIs ==
  ASSUME NEW x \in Paths
  PROVE  /\ x \in Seq(Step1) /\ Len(x) \in Nat \ {0} /\ x[Len(x)] \in Step1
         /\ Name(x) \in Rels /\ Name(x) = x[Len(x)][1] /\ Last(x) = x[Len(x)]
<1>1. x \in Seq(Step1) /\ x # <<>>
  BY DEF Paths
<1>2. Len(x) \in Nat \ {0}
  BY <1>1, EmptySeq, LenProperties
<1>3. x[Len(x)] \in Step1
  BY <1>1, <1>2, ElementOfSeq
<1> QED
  BY <1>1, <1>2, <1>3 DEF Name, Last, Step1

LEMMA OneStep ==
  ASSUME NEW s \in Step1
  PROVE  <<s>> \in Paths /\ Name(<<s>>) = s[1]
BY DEF Paths, Name, Last

LEMMA TwoSteps ==
  ASSUME NEW x \in Seq(Step1), NEW s \in Step1
  PROVE  x \o <<s>> \in Paths /\ Name(x \o <<s>>) = s[1]
<1> DEFINE y == x \o <<s>>
<1>1. <<s>> \in Seq(Step1) /\ Len(<<s>>) = 1 /\ <<s>>[1] = s
  OBVIOUS
<1>2. y \in Seq(Step1) /\ Len(y) = Len(x) + 1 /\ Len(x) \in Nat
  BY <1>1, ConcatProperties, LenProperties
<1>3. y[Len(x) + 1] = s
  BY <1>1, <1>2, ConcatProperties
<1> QED
  BY <1>2, <1>3 DEF Paths, Name, Last

LEMMA LivePath ==
  ASSUME NEW r \in Rels
  PROVE  /\ Live(r) \in Paths /\ Name(Live(r)) = r
         /\ \A k \in Index : Aside(r, k) \in Paths /\ Name(Aside(r, k)) = r
<1>0. <<r, 0>> \in Step1 /\ <<"data", 0>> \in Step1 /\ <<"sub", 0>> \in Step1
  BY DEF Step1, Index, Rels
<1>1. Live(r) \in Paths /\ Name(Live(r)) = r
  <2>1. CASE r = "sub"
    <3> DEFINE d == << <<"data", 0>> >>
    <3>1. Live(r) = d \o << <<"sub", 0>> >>
      BY <2>1 DEF Live
    <3>2. d \in Seq(Step1)
      BY <1>0
    <3>3. d \o << <<"sub", 0>> >> \in Paths /\ Name(d \o << <<"sub", 0>> >>) = "sub"
      <4> HIDE DEF d
      <4> QED
        BY <1>0, <3>2, TwoSteps
    <3> QED
      BY <2>1, <3>1, <3>3
  <2>2. CASE r # "sub"
    BY <1>0, <2>2, OneStep DEF Live
  <2> QED
    BY <2>1, <2>2
<1>2. Front(Live(r)) \in Seq(Step1)
  <2>1. Live(r) \in Seq(Step1) /\ Len(Live(r)) \in Nat \ {0}
    BY <1>1, PathIs
  <2>2. \A i \in 1..(Len(Live(r)) - 1) : Live(r)[i] \in Step1
    BY <2>1, ElementOfSeq
  <2> QED
    BY <2>1, <2>2, SubSeqProperties DEF Front
<1>3. ASSUME NEW k \in Index PROVE Aside(r, k) \in Paths /\ Name(Aside(r, k)) = r
  <2>1. <<r, k>> \in Step1
    BY DEF Step1
  <2> QED
    BY <1>2, <2>1, TwoSteps DEF Aside
<1> QED
  BY <1>1, <1>3

LEMMA FreePath ==
  ASSUME NEW r \in Rels
  PROVE  Free(r) \in Paths /\ Name(Free(r)) = r
<1> DEFINE S == {i \in 1..(MaxActs + 1) : Aside(r, i) \notin DOMAIN fs}
<1>1. Min(S) \in Index
  BY DEF Index
<1>2. Free(r) = Aside(r, Min(S))
  BY DEF Free
<1> QED
  BY <1>1, <1>2, LivePath

(* A rename changes no name but that of the dataset that is renamed.       *)
LEMMA MovedPath ==
  ASSUME NEW x \in Paths, NEW from \in Paths, NEW to \in Paths, Name(to) = Name(from)
  PROVE  Moved(x, from, to) \in Paths /\ Name(Moved(x, from, to)) = Name(x)
<1>1. CASE ~Under(x, from)
  BY <1>1 DEF Moved
<1>2. CASE Under(x, from)
  <2>x. x \in Seq(Step1) /\ Len(x) \in Nat \ {0} /\ from \in Seq(Step1)
        /\ Len(from) \in Nat \ {0} /\ to \in Seq(Step1) /\ Len(to) \in Nat \ {0}
    BY PathIs
  <2> DEFINE rest == SubSeq(x, Len(from) + 1, Len(x))
             y == to \o rest
  <2>1. Moved(x, from, to) = y
    BY <1>2 DEF Moved
  <2>2. Len(from) <= Len(x) /\ SubSeq(from, 1, Len(from)) = SubSeq(x, 1, Len(from))
    BY <1>2 DEF Under, IsPrefix
  <2>3. \A i \in (Len(from) + 1)..Len(x) : x[i] \in Step1
    BY <2>x, ElementOfSeq
  <2>4. /\ rest \in Seq(Step1)
        /\ Len(rest) = IF Len(from) + 1 <= Len(x) THEN Len(x) - Len(from) ELSE 0
        /\ \A i \in 1..(Len(x) - Len(from)) : rest[i] = x[Len(from) + i]
    <3>1. /\ rest \in Seq(Step1)
          /\ Len(rest) = IF Len(from) + 1 <= Len(x) THEN Len(x) - (Len(from) + 1) + 1 ELSE 0
          /\ \A i \in 1..(Len(x) - (Len(from) + 1) + 1) : rest[i] = x[Len(from) + 1 + i - 1]
      BY <2>x, <2>3, SubSeqProperties
    <3> QED
      BY <2>x, <3>1
  <2>5. /\ y \in Seq(Step1) /\ Len(y) = Len(to) + Len(rest)
        /\ \A i \in 1..(Len(to) + Len(rest)) :
             y[i] = IF i <= Len(to) THEN to[i] ELSE rest[i - Len(to)]
    BY <2>x, <2>4, ConcatProperties
  <2>6. y \in Paths
    BY <2>x, <2>4, <2>5 DEF Paths
  <2>7. CASE Len(from) = Len(x)
    <3>1. \A i \in 1..Len(from) : SubSeq(from, 1, Len(from))[i] = from[i]
                                  /\ SubSeq(x, 1, Len(from))[i] = x[i]
      <4>1. \A i \in 1..Len(from) : from[i] \in Step1 /\ x[i] \in Step1
        BY <2>x, <2>7, ElementOfSeq
      <4>2. \A i \in 1..(Len(from) - 1 + 1) : SubSeq(from, 1, Len(from))[i] = from[1 + i - 1]
                                              /\ SubSeq(x, 1, Len(from))[i] = x[1 + i - 1]
        BY <2>x, <4>1, SubSeqProperties
      <4> QED
        BY <2>x, <4>2
    <3>2. from[Len(from)] = x[Len(x)]
      BY <2>x, <2>2, <2>7, <3>1
    <3>3. Len(y) = Len(to) /\ y[Len(y)] = to[Len(to)]
      BY <2>x, <2>4, <2>5, <2>7
    <3> QED
      BY <2>1, <2>6, <3>2, <3>3, PathIs
  <2>8. CASE Len(from) < Len(x)
    <3>1. Len(rest) = Len(x) - Len(from) /\ Len(y) = Len(to) + Len(rest)
      BY <2>x, <2>4, <2>5, <2>8
    <3>a. /\ Len(y) \in 1..(Len(to) + Len(rest)) /\ ~(Len(y) <= Len(to))
          /\ Len(y) - Len(to) = Len(rest) /\ Len(rest) \in 1..(Len(x) - Len(from))
          /\ Len(from) + Len(rest) = Len(x)
      <4> HIDE DEF y, rest
      <4> QED
        BY <2>x, <2>8, <3>1
    <3>2. y[Len(y)] = rest[Len(rest)]
      <4>1. y[Len(y)] = IF Len(y) <= Len(to) THEN to[Len(y)] ELSE rest[Len(y) - Len(to)]
        <5> HIDE DEF y, rest
        <5> QED
          BY <2>5, <3>a
      <4> HIDE DEF y, rest
      <4> QED
        BY <3>a, <4>1
    <3>3. rest[Len(rest)] = x[Len(x)]
      <4>1. rest[Len(rest)] = x[Len(from) + Len(rest)]
        <5> HIDE DEF y, rest
        <5> QED
          BY <2>4, <3>a
      <4> HIDE DEF y, rest
      <4> QED
        BY <3>a, <4>1
    <3> QED
      BY <2>1, <2>6, <3>2, <3>3, PathIs
  <2> QED
    BY <2>x, <2>2, <2>7, <2>8
<1> QED
  BY <1>1, <1>2
-----------------------------------------------------------------------------
(* The inductive invariant.                                                *)

IsSnap(s) == s = [at |-> s.at, p |-> s.p, count |-> s.count, rec |-> s.rec]

IsJob ==
  job = [kind |-> job.kind, rel |-> job.rel, step |-> job.step, dest |-> job.dest,
         held |-> job.held, todo |-> job.todo, gone |-> job.gone, pts |-> job.pts,
         ok |-> job.ok]

PointRec ==
  [ran : SUBSET Rels, excl : [Rels -> SUBSET Flags], left : SUBSET Rels, recorded : BOOLEAN]

(* Flags are set on data and on what is below it only.                     *)
Set == {"data", "sub"}
FlagsSet(e) == e \in [Rels -> SUBSET Flags] /\ \A r \in Rels \ Set : e[r] = {}

OriginOK == origin \subseteq Rels /\ ({"root"} \cup Set) \subseteq origin /\ FlagsSet(excl)

(* The tops a flag makes, whatever clones origin has (NoBackupIs).         *)
Tops(e, flag) == {t \in Set : flag \in e[t] /\ (t = "sub" => flag \notin e["data"])}

(* What a run left out is covered by the flags of its day.                 *)
PointsOK ==
  /\ points \in Seq(PointRec)
  /\ \A p \in DOMAIN points :
       /\ FlagsSet(points[p].excl)
       /\ \A r \in points[p].left : Covered(r, Tops(points[p].excl, "replicate"))

SnapOK(s) == IsSnap(s) /\ s.at \in Paths /\ s.p \in DOMAIN points
SnapsOK == (\A s \in snaps : SnapOK(s)) /\ DOMAIN fs \subseteq Paths

(* What point_mark writes at a point.                                      *)
Marks(e, left) ==
  [state |-> "read",
   tops |-> {<<t, FlagsOf(e, t)>> : t \in Tops(e, "replicate")}
              \cup {<<t, "snapshots">> : t \in Tops(e, "snapshot") \ Tops(e, "replicate")},
   sets |-> left]

(* A record that covers all that the point left out.                       *)
Good(m, p) == m.state = "read" /\ \A r \in points[p].left : Covers(m, r)

Untouched(p) == \A r \in Rels : <<p, r>> \notin took
Sure(p) == points[p].recorded /\ p \notin warned

RecordedAt(p) ==
  Sure(p) =>
    /\ \A s \in Members(p) : Good(s.rec, p)
    /\ \A s \in Members(p), u \in Members(p) : s.rec = u.rec
    /\ Untouched(p) => \A s \in Members(p) : s.rec = Marks(points[p].excl, points[p].left)

RecordedOK == \A p \in DOMAIN points : RecordedAt(p)

(* A point that was counted: its run brought all that was expected.        *)
Counted(p) ==
  /\ points[p].recorded \/ p \in warned
  /\ ({"root"} \cup Set) \subseteq points[p].ran \cup points[p].left

CountedOK == \A s \in snaps : s.count # 0 => Counted(s.p)

(* What a run brought is on the drive, or a confirmed destroy took it.     *)
PresentOK ==
  \A p \in DOMAIN points : \A r \in points[p].ran :
    <<p, r>> \in took \/ \E s \in snaps : s.p = p /\ Name(s.at) = r

BackupOK ==
  job.kind = "backup" =>
    /\ job.step \in {"record", "complete"}
    /\ \E p \in DOMAIN points :
         /\ job.pts = {p}
         /\ points[p].excl = excl
         /\ points[p].left = origin \ Expected(excl)
         /\ job.ok => points[p].ran = Expected(excl)
         /\ At("complete") => job.ok /\ (points[p].recorded \/ p \in warned)

BranchOK ==
  job.kind = "branch" =>
    /\ job.step \notin {"record", "complete", "destroy", "rewrite"}
    /\ job.rel \in Rels /\ job.todo \subseteq Paths
    /\ \A new \in job.gone : new \in Paths /\ Name(new) = job.rel

Took(h) == <<h.p, Name(h.at)>> \in took

(* A destroy goes by what it read before: what was read is there, or gone  *)
(* with a tree the user confirmed.                                         *)
DestroyOK ==
  At("destroy") \/ At("rewrite") =>
    /\ job.kind \in {"excluded", "diverged", "orphan"} /\ job.rel \in Rels
    /\ \A h \in job.held :
         /\ SnapOK(h)
         /\ Sure(h.p) => Good(h.rec, h.p)
         /\ h.count # 0 => Counted(h.p)
         /\ At("destroy") => h \in snaps \/ Took(h)
         /\ UnderAny(h.at, job.gone) => Took(h)
    /\ At("rewrite") => job.pts \subseteq Losing(job.held, job.gone)

JobOK == IsJob /\ BackupOK /\ BranchOK /\ DestroyOK

Shape == OriginOK /\ PointsOK /\ SnapsOK
Says == RecordedOK /\ CountedOK /\ PresentOK
LeftInv == Shape /\ Says /\ JobOK
-----------------------------------------------------------------------------
(* What origin declares.                                                   *)

LEMMA NameSets ==
  /\ Rels = {"root", "data", "sub", "clone"} /\ Set = {"data", "sub"}
  /\ Above["root"] = {"root"} /\ Above["data"] = {"data"}
  /\ Above["sub"] = {"data", "sub"} /\ Above["clone"] = {"clone"}
BY DEF Rels, Set, Above

LEMMA DeclaredIs ==
  ASSUME OriginOK, NEW e, FlagsSet(e)
  PROVE  Declared(e) = {r \in Set : e[r] # {}}
<1>1. \A r \in Set : r \in origin /\ ~NeverExcluded(r)
  BY DEF OriginOK, NeverExcluded, Below, Set, Rels, Above
<1>2. \A r \in Rels \ Set : e[r] = {}
  BY DEF FlagsSet
<1> QED
  BY <1>1, <1>2 DEF Declared, OriginOK

(* The tops do not depend on the clones origin has.                        *)
LEMMA TopsAre ==
  ASSUME OriginOK, NEW e, FlagsSet(e)
  PROVE  NoBackup(e) = Tops(e, "replicate") /\ NoSnapshot(e) = Tops(e, "snapshot")
<1>1. ASSUME NEW flag \in Flags PROVE TopsOf(e, flag) = Tops(e, flag)
  <2>1. {r \in Declared(e) : flag \in e[r]} = {r \in Set : flag \in e[r]}
    BY DeclaredIs
  <2>2. Minimal({r \in Set : flag \in e[r]}) = Tops(e, flag)
    BY NameSets DEF Minimal, Tops
  <2> QED
    BY <2>1, <2>2 DEF TopsOf
<1> QED
  BY <1>1 DEF NoBackup, NoSnapshot, Flags

LEMMA MarkIs ==
  ASSUME OriginOK
  PROVE  PointMark(excl) = Marks(excl, origin \ Expected(excl))
BY TopsAre DEF PointMark, Marks, OriginOK

LEMMA LeftIs ==
  ASSUME OriginOK
  PROVE  /\ Expected(excl) \subseteq Rels
         /\ ({"root"} \cup Set) \subseteq Expected(excl) \cup (origin \ Expected(excl))
         /\ \A r \in origin \ Expected(excl) : Covered(r, Tops(excl, "replicate"))
BY TopsAre DEF OriginOK, Expected

LEMMA MarksGood ==
  ASSUME NEW p, NEW m, m = Marks(points[p].excl, points[p].left)
  PROVE  Good(m, p)
BY DEF Good, Marks, Covers

(* A record rewritten after a destroy only says more.                      *)
LEMMA RewrittenGood ==
  ASSUME NEW p, NEW q, NEW m, Good(m, p), job.rel \in Rels
  PROVE  Good(Rewritten(m, q), p)
<1> DEFINE n == Rewritten(m, q)
<1>1. n.state = "read" /\ m.sets \subseteq n.sets
  BY DEF Rewritten
<1>2. LeftTops(m) \subseteq LeftTops(n)
  <2>1. n.tops = {u \in m.tops : u[1] # job.rel} \cup {<<job.rel, FlagsOf(excl, job.rel)>>}
    BY DEF Rewritten
  <2>2. FlagsOf(excl, job.rel) # "snapshots"
    BY DEF FlagsOf
  <2>3. ASSUME NEW u \in m.tops, u[2] # "snapshots" PROVE u[1] \in LeftTops(n)
    <3>1. CASE u[1] = job.rel
      <4>1. <<job.rel, FlagsOf(excl, job.rel)>> \in n.tops
        BY <2>1
      <4> QED
        BY <2>2, <3>1, <4>1 DEF LeftTops
    <3>2. CASE u[1] # job.rel
      BY <2>1, <2>3, <3>2 DEF LeftTops
    <3> QED
      BY <3>1, <3>2
  <2> QED
    BY <2>3 DEF LeftTops
<1>3. \A r : Covers(m, r) => Covers(n, r)
  BY <1>1, <1>2 DEF Covers, Covered
<1> QED
  BY <1>1, <1>3 DEF Good

LEMMA SamePlans ==
  ASSUME UNCHANGED <<origin, excl>>
  PROVE  Expected(excl)' = Expected(excl) /\ NoBackup(excl)' = NoBackup(excl)
BY DEF Expected, NoBackup, TopsOf, Minimal, Declared, NeverExcluded
-----------------------------------------------------------------------------
(* What a step must keep.                                                  *)

LEMMA NoJobOK ==
  ASSUME job' = NoJob
  PROVE  JobOK'
BY DEF JobOK, IsJob, BackupOK, BranchOK, DestroyOK, NoJob, At

Same(s, u) ==
  Name(u.at) = Name(s.at) /\ u.p = s.p /\ u.count = s.count /\ u.rec = s.rec

(* Snapshots only move, keeping their name, or go with a destroy.          *)
Moves ==
  /\ \A u \in snaps' : \E s \in snaps : Same(s, u)
  /\ \A s \in snaps : <<s.p, Name(s.at)>> \in took' \/ \E u \in snaps' : Same(s, u)

LEMMA SaysMoved ==
  ASSUME Says, Moves, took \subseteq took', UNCHANGED <<points, warned>>
  PROVE  Says'
<1>1. RecordedOK'
  <2> SUFFICES ASSUME NEW p \in DOMAIN points, Sure(p)
               PROVE  /\ \A s \in Members(p)' : Good(s.rec, p)
                      /\ \A s \in Members(p)', u \in Members(p)' : s.rec = u.rec
                      /\ Untouched(p)' =>
                           \A s \in Members(p)' : s.rec = Marks(points[p].excl, points[p].left)
    BY DEF RecordedOK, RecordedAt, Sure, Good
  <2>1. ASSUME NEW u \in Members(p)' PROVE \E s \in Members(p) : s.rec = u.rec
    <3>1. u \in snaps' /\ u.p = p
      BY DEF Members
    <3> QED
      BY <3>1 DEF Moves, Same, Members
  <2>2. Untouched(p)' => Untouched(p)
    BY DEF Untouched
  <2>3. /\ \A s \in Members(p) : Good(s.rec, p)
        /\ \A s \in Members(p), u \in Members(p) : s.rec = u.rec
        /\ Untouched(p) => \A s \in Members(p) : s.rec = Marks(points[p].excl, points[p].left)
    BY DEF Says, RecordedOK, RecordedAt
  <2>4. ASSUME NEW s \in Members(p)' PROVE Good(s.rec, p)
    BY <2>1, <2>3
  <2>5. ASSUME NEW s \in Members(p)', NEW u \in Members(p)' PROVE s.rec = u.rec
    BY <2>1, <2>3
  <2>6. ASSUME Untouched(p)', NEW s \in Members(p)'
        PROVE  s.rec = Marks(points[p].excl, points[p].left)
    BY <2>1, <2>2, <2>3, <2>6
  <2> QED
    BY <2>4, <2>5, <2>6
<1>2. CountedOK'
  <2>1. \A p : Counted(p)' <=> Counted(p)
    BY DEF Counted
  <2> QED
    BY <2>1 DEF Says, CountedOK, Moves, Same
<1>3. PresentOK'
  <2> SUFFICES ASSUME NEW p \in DOMAIN points, NEW r \in points[p].ran, <<p, r>> \notin took'
               PROVE  \E u \in snaps' : u.p = p /\ Name(u.at) = r
    BY DEF PresentOK
  <2>1. PICK s \in snaps : s.p = p /\ Name(s.at) = r
    BY DEF Says, PresentOK
  <2> QED
    BY <2>1 DEF Moves, Same
<1> QED
  BY <1>1, <1>2, <1>3 DEF Says

LEMMA SaysSame ==
  ASSUME Says, UNCHANGED <<snaps, points, took, warned>>
  PROVE  Says'
BY SaysMoved DEF Moves, Same

LEMMA ShapeSame ==
  ASSUME Shape, OriginOK', UNCHANGED points, \A s \in snaps' : IsSnap(s) /\ s.at \in Paths
           /\ s.p \in DOMAIN points, DOMAIN fs' \subseteq Paths
  PROVE  Shape'
BY DEF Shape, PointsOK, SnapsOK, SnapOK

LEMMA OriginSame ==
  ASSUME OriginOK, UNCHANGED <<origin, excl>>
  PROVE  OriginOK'
BY DEF OriginOK

(* No command runs after the step.                                         *)
Quieter == job' = NoJob \/ (Idle /\ UNCHANGED job)

LEMMA QuieterOK ==
  ASSUME JobOK, Quieter
  PROVE  JobOK'
<1>1. CASE Idle /\ UNCHANGED job
  <2>1. job.kind = "none" /\ ~At("destroy") /\ ~At("rewrite")
    BY <1>1 DEF Idle, JobOK, DestroyOK
  <2>2. job'.kind = "none" /\ ~At("destroy")' /\ ~At("rewrite")' /\ IsJob'
    BY <1>1, <2>1 DEF At, JobOK, IsJob
  <2> QED
    BY <2>2 DEF JobOK, BackupOK, BranchOK, DestroyOK
<1> QED
  BY <1>1, NoJobOK DEF Quieter

(* A step that leaves the drive's snapshots and the points alone.          *)
LEMMA QuietStep ==
  ASSUME LeftInv, OriginOK', UNCHANGED <<snaps, points, took, warned>>,
         DOMAIN fs' \subseteq Paths, Quieter
  PROVE  LeftInv'
<1>1. Shape'
  BY ShapeSame DEF LeftInv, Shape, SnapsOK, SnapOK
<1> QED
  BY <1>1, SaysSame, QuieterOK DEF LeftInv
-----------------------------------------------------------------------------
(* Steps that leave the snapshots alone.                                   *)

LEMMA UserSteps ==
  ASSUME LeftInv,
         \/ \E r \in Set : \E what \in Whats(r) : Exclude(r, what) \/ Include(r, what)
         \/ UserClone \/ UserDestroy
         \/ \E t \in Rels : KeepHeld(t)
  PROVE  LeftInv'
<1>f. DOMAIN fs \subseteq Paths /\ OriginOK
  BY DEF LeftInv, Shape, SnapsOK
<1>w. \A r \in Set : \A what \in Whats(r) : what \subseteq Flags
  BY DEF Whats, Flags
<1>1. ASSUME NEW r \in Set, NEW what \in Whats(r), Exclude(r, what) \/ Include(r, what)
      PROVE  LeftInv'
  <2>1. /\ excl' = [excl EXCEPT ![r] = @ \cup what] \/ excl' = [excl EXCEPT ![r] = @ \ what]
        /\ UNCHANGED <<origin, fs, snaps, job, points, took, warned>> /\ Idle
    BY <1>1 DEF Exclude, Include, hist
  <2>2. what \subseteq Flags /\ r \in Rels
    BY <1>w, NameSets
  <2>3. FlagsSet(excl)'
    BY <1>f, <2>1, <2>2 DEF OriginOK, FlagsSet
  <2>4. OriginOK'
    BY <1>f, <2>1, <2>3 DEF OriginOK
  <2> QED
    BY <1>f, <2>1, <2>4, QuietStep DEF Quieter
<1>2. CASE UserClone
  <2>1. OriginOK'
    BY <1>2, <1>f DEF UserClone, OriginOK, Rels
  <2> QED
    BY <1>2, <1>f, <2>1, QuietStep DEF UserClone, hist, Quieter
<1>3. CASE UserDestroy
  <2>1. OriginOK'
    BY <1>3, <1>f DEF UserDestroy, OriginOK, Set
  <2> QED
    BY <1>3, <1>f, <2>1, QuietStep DEF UserDestroy, hist, Quieter
<1>4. ASSUME NEW t \in Rels, KeepHeld(t) PROVE LeftInv'
  <2>1. DOMAIN fs' = DOMAIN fs
    BY <1>4 DEF KeepHeld
  <2>2. OriginOK'
    BY <1>4, <1>f, OriginSame DEF KeepHeld
  <2> QED
    BY <1>4, <1>f, <2>1, <2>2, QuietStep DEF KeepHeld, Quieter
<1> QED
  BY <1>1, <1>2, <1>3, <1>4

LEMMA EndSteps ==
  ASSUME LeftInv, DropAnchors \/ Stop \/ BranchDone
  PROVE  LeftInv'
<1>1. DOMAIN fs \subseteq Paths /\ OriginOK
  BY DEF LeftInv, Shape, SnapsOK
<1>2. /\ UNCHANGED <<origin, excl, fs, snaps, points, took, warned>>
      /\ job' = NoJob
  BY DEF DropAnchors, Stop, BranchDone, hist
<1> QED
  BY <1>1, <1>2, OriginSame, QuietStep DEF Quieter
-----------------------------------------------------------------------------
(* Lineages kept aside: every snapshot keeps its name.                     *)

LEMMA RenameKeeps ==
  ASSUME Shape, NEW from \in Paths, NEW to \in Paths, Name(to) = Name(from), Rename(from, to),
         UNCHANGED took
  PROVE  /\ Moves
         /\ DOMAIN fs' \subseteq Paths
         /\ \A u \in snaps' : IsSnap(u) /\ u.at \in Paths /\ u.p \in DOMAIN points
<1>1. DOMAIN fs \subseteq Paths /\ \A s \in snaps : SnapOK(s)
  BY DEF Shape, SnapsOK
<1>2. ASSUME NEW s \in snaps
      PROVE  LET u == [s EXCEPT !.at = Moved(@, from, to)]
             IN  Same(s, u) /\ IsSnap(u) /\ u.at \in Paths /\ u.p \in DOMAIN points
  <2>1. s = [at |-> s.at, p |-> s.p, count |-> s.count, rec |-> s.rec]
        /\ s.at \in Paths /\ s.p \in DOMAIN points
    BY <1>1 DEF SnapOK, IsSnap
  <2> DEFINE u == [s EXCEPT !.at = Moved(@, from, to)]
  <2>2. u = [at |-> Moved(s.at, from, to), p |-> s.p, count |-> s.count, rec |-> s.rec]
    BY <2>1
  <2>3. Moved(s.at, from, to) \in Paths /\ Name(Moved(s.at, from, to)) = Name(s.at)
    BY <2>1, MovedPath
  <2> QED
    BY <2>1, <2>2, <2>3 DEF Same, IsSnap
<1>3. snaps' = {[s EXCEPT !.at = Moved(@, from, to)] : s \in snaps}
  BY DEF Rename
<1>4. Moves
  BY <1>2, <1>3 DEF Moves
<1>5. DOMAIN fs' = {Moved(x, from, to) : x \in DOMAIN fs}
  BY DEF Rename, Renamed
<1>6. DOMAIN fs' \subseteq Paths
  BY <1>1, <1>5, MovedPath
<1> QED
  BY <1>2, <1>3, <1>4, <1>6

LEMMA RenameStep ==
  ASSUME LeftInv, NEW from \in Paths, NEW to \in Paths, Name(to) = Name(from),
         Rename(from, to), UNCHANGED <<origin, excl, points, took, warned>>, JobOK'
  PROVE  LeftInv'
<1>1. /\ Moves
      /\ DOMAIN fs' \subseteq Paths
      /\ \A u \in snaps' : IsSnap(u) /\ u.at \in Paths /\ u.p \in DOMAIN points
  BY RenameKeeps DEF LeftInv
<1>2. Shape'
  BY <1>1, OriginSame, ShapeSame DEF LeftInv, Shape
<1>3. Says'
  BY <1>1, SaysMoved DEF LeftInv
<1> QED
  BY <1>2, <1>3 DEF LeftInv

LEMMA ArchiveStep ==
  ASSUME LeftInv, NEW r \in Rels, Archive(r)
  PROVE  LeftInv'
<1>1. Live(r) \in Paths /\ Free(r) \in Paths /\ Name(Free(r)) = Name(Live(r))
  BY LivePath, FreePath
<1>2. /\ Rename(Live(r), Free(r)) /\ UNCHANGED <<origin, excl, points, took, warned>>
      /\ Idle /\ UNCHANGED job
  BY DEF Archive, hist
<1>3. JobOK'
  BY <1>2, QuieterOK DEF Quieter, LeftInv
<1> QED
  BY <1>1, <1>2, <1>3, RenameStep

LEMMA BranchStep ==
  ASSUME LeftInv, NEW r \in Rels, NEW common, Branch(r, common)
  PROVE  LeftInv'
<1> DEFINE new == Free(r)
           todo == {Moved(x, Live(r), new) :
                      x \in {y \in DOMAIN fs : Len(y) > 1 /\ Front(y) = Live(r)}}
           held == {Live(x) : x \in {y \in Below(r) : Held(y)}}
<1>1. Live(r) \in Paths /\ new \in Paths /\ Name(new) = Name(Live(r)) /\ Name(new) = r
  BY LivePath, FreePath
<1>2. /\ Rename(Live(r), new) /\ UNCHANGED <<origin, excl, points, took, warned>>
      /\ job' = [NoJob EXCEPT !.kind = "branch", !.rel = r, !.step = "clone", !.todo = todo,
                              !.gone = {new}, !.pts = {common}, !.held = held]
  BY DEF Branch, hist
<1>3. todo \subseteq Paths
  BY <1>1, MovedPath DEF LeftInv, Shape, SnapsOK
<1>4. JobOK'
  <2> HIDE DEF new, todo, held
  <2>1. job' = [kind |-> "branch", rel |-> r, step |-> "clone", dest |-> <<>>, held |-> held,
                todo |-> todo, gone |-> {new}, pts |-> {common}, ok |-> TRUE]
    BY <1>2 DEF NoJob
  <2>2. IsJob'
    BY <2>1 DEF IsJob
  <2> QED
    BY <1>1, <1>3, <2>1, <2>2 DEF JobOK, BackupOK, BranchOK, DestroyOK, At
<1> QED
  BY <1>1, <1>2, <1>4, RenameStep

(* The steps of a branch that go on with another one.                      *)
GoesOn(step, todo) ==
  /\ step \notin {"record", "complete", "destroy", "rewrite"} /\ todo \subseteq job.todo
  /\ job' = [kind |-> job.kind, rel |-> job.rel, step |-> step, dest |-> job.dest,
              held |-> job.held, todo |-> todo, gone |-> job.gone, pts |-> job.pts,
              ok |-> job.ok]

LEMMA BranchGoesOn ==
  ASSUME JobOK, job.kind = "branch", NEW step, NEW todo, GoesOn(step, todo)
  PROVE  JobOK'
<1>1. IsJob /\ BranchOK
  BY DEF JobOK
<1>3. IsJob'
  BY DEF GoesOn, IsJob
<1>4. job.rel \in Rels /\ job.todo \subseteq Paths
      /\ \A new \in job.gone : new \in Paths /\ Name(new) = job.rel
  BY <1>1 DEF BranchOK
<1> QED
  BY <1>3, <1>4 DEF GoesOn, JobOK, BackupOK, BranchOK, DestroyOK, At

LEMMA BranchJob ==
  ASSUME JobOK, job.kind = "branch"
  PROVE  /\ job.rel \in Rels /\ job.todo \subseteq Paths
         /\ \A new \in job.gone : new \in Paths /\ Name(new) = job.rel
         /\ job.step \notin {"record", "complete", "destroy", "rewrite"} /\ IsJob
BY DEF JobOK, BranchOK

LEMMA BranchCloneStep ==
  ASSUME LeftInv, BranchClone
  PROVE  LeftInv'
<1>1. /\ job.kind = "branch" /\ JobOK
      /\ job' = [job EXCEPT !.step = "promote"]
      /\ UNCHANGED <<origin, excl, snaps, points, took, warned>>
  BY DEF BranchClone, hist, LeftInv
<1>2. JobOK'
  <2>1. GoesOn("promote", job.todo)
    BY <1>1 DEF JobOK, IsJob, GoesOn
  <2> QED
    BY <1>1, <2>1, BranchGoesOn
<1>3. DOMAIN fs' \subseteq Paths
  <2>1. DOMAIN fs' = DOMAIN fs \cup {Live(job.rel)}
    BY DEF BranchClone
  <2> QED
    BY <1>1, <2>1, BranchJob, LivePath DEF LeftInv, Shape, SnapsOK
<1>4. Shape'
  BY <1>1, <1>3, OriginSame, ShapeSame DEF LeftInv, Shape, SnapsOK, SnapOK
<1>5. Says'
  BY <1>1, SaysSame DEF LeftInv
<1> QED
  BY <1>2, <1>4, <1>5 DEF LeftInv

LEMMA BranchPromoteStep ==
  ASSUME LeftInv, BranchPromote
  PROVE  LeftInv'
<1>1. /\ job.kind = "branch" /\ JobOK
      /\ job' = [job EXCEPT !.step = "children"]
      /\ UNCHANGED <<origin, excl, points, took, warned>>
  BY DEF BranchPromote, hist, LeftInv
<1>2. JobOK'
  <2>1. GoesOn("children", job.todo)
    BY <1>1 DEF JobOK, IsJob, GoesOn
  <2> QED
    BY <1>1, <2>1, BranchGoesOn
<1> DEFINE live == Live(job.rel)
<1>3. PICK new \in job.gone, c \in job.pts :
        /\ snaps' = {IF s.at = new /\ s.p <= c THEN [s EXCEPT !.at = live] ELSE s : s \in snaps}
        /\ DOMAIN fs' = DOMAIN fs
  BY DEF BranchPromote
<1>4. live \in Paths /\ Name(live) = job.rel /\ Name(new) = job.rel
  BY <1>1, BranchJob, LivePath
<1> HIDE DEF live
<1>5. ASSUME NEW s \in snaps
      PROVE  LET u == IF s.at = new /\ s.p <= c THEN [s EXCEPT !.at = live] ELSE s
             IN  Same(s, u) /\ IsSnap(u) /\ u.at \in Paths /\ u.p \in DOMAIN points
  <2>1. IsSnap(s) /\ s.at \in Paths /\ s.p \in DOMAIN points
    BY DEF LeftInv, Shape, SnapsOK, SnapOK
  <2>2. CASE s.at = new /\ s.p <= c
    <3> DEFINE u == [s EXCEPT !.at = live]
    <3>1. u = [at |-> live, p |-> s.p, count |-> s.count, rec |-> s.rec]
      BY <2>1 DEF IsSnap
    <3>2. Same(s, u) /\ IsSnap(u) /\ u.at \in Paths /\ u.p \in DOMAIN points
      BY <1>4, <2>1, <2>2, <3>1 DEF Same, IsSnap
    <3> QED
      BY <2>2, <3>2
  <2> QED
    BY <2>1, <2>2 DEF Same
<1>6. Moves
  BY <1>3, <1>5 DEF Moves
<1>7. Shape'
  BY <1>1, <1>3, <1>5, OriginSame, ShapeSame DEF LeftInv, Shape, SnapsOK
<1>8. Says'
  BY <1>1, <1>6, SaysMoved DEF LeftInv
<1> QED
  BY <1>2, <1>7, <1>8 DEF LeftInv

LEMMA BranchChildrenStep ==
  ASSUME LeftInv, BranchChildren
  PROVE  LeftInv'
<1>1. /\ job.kind = "branch" /\ JobOK
      /\ UNCHANGED <<origin, excl, points, took, warned>>
  BY DEF BranchChildren, hist, LeftInv
<1>2. CASE job.todo = {}
  <2>1. job' = [job EXCEPT !.step = "done"] /\ UNCHANGED <<fs, snaps>>
    BY <1>2 DEF BranchChildren
  <2>2. GoesOn("done", job.todo)
    BY <1>1, <2>1 DEF JobOK, IsJob, GoesOn
  <2>3. JobOK'
    BY <1>1, <2>2, BranchGoesOn
  <2>4. Shape'
    BY <1>1, <2>1, OriginSame, ShapeSame DEF LeftInv, Shape, SnapsOK, SnapOK
  <2>5. Says'
    BY <1>1, <2>1, SaysSame DEF LeftInv
  <2> QED
    BY <2>3, <2>4, <2>5 DEF LeftInv
<1>3. CASE job.todo # {}
  <2>1. PICK x \in job.todo : /\ Rename(x, Live(job.rel) \o <<Last(x)>>)
                              /\ job' = [job EXCEPT !.todo = @ \ {x}]
    BY <1>3 DEF BranchChildren
  <2>2. job.rel \in Rels /\ x \in Paths
        /\ job.step \notin {"record", "complete", "destroy", "rewrite"} /\ IsJob
    BY <1>1, BranchJob
  <2>3. GoesOn(job.step, job.todo \ {x})
    BY <2>1, <2>2 DEF IsJob, GoesOn
  <2>4. JobOK'
    BY <1>1, <2>2, <2>3, BranchGoesOn
  <2> DEFINE to == Live(job.rel) \o <<Last(x)>>
  <2>5. to \in Paths /\ Name(to) = Name(x)
    <3>1. Live(job.rel) \in Seq(Step1) /\ Last(x) \in Step1 /\ Name(x) = Last(x)[1]
      BY <2>2, LivePath, PathIs DEF Name
    <3> QED
      BY <3>1, TwoSteps
  <2> HIDE DEF to
  <2>6. Rename(x, to)
    BY <2>1 DEF to
  <2> QED
    BY <1>1, <2>2, <2>4, <2>5, <2>6, RenameStep
<1> QED
  BY <1>2, <1>3
-----------------------------------------------------------------------------
(* A backup.                                                               *)

LEMMA BackupStep ==
  ASSUME LeftInv, NEW reached, reached \subseteq Expected(excl), Backup(reached)
  PROVE  LeftInv'
<1> DEFINE p == Len(points) + 1
           new == [ran |-> reached, excl |-> excl, left |-> origin \ Expected(excl),
                   recorded |-> FALSE]
           brought == {[at |-> Live(r), p |-> p, count |-> 0, rec |-> NoRecord] : r \in reached}
<1>1. /\ Idle /\ snaps' = snaps \cup brought
      /\ points' = Append(points, new)
      /\ job' = [NoJob EXCEPT !.kind = "backup", !.step = "record", !.pts = {p},
                              !.ok = (reached = Expected(excl))]
      /\ DOMAIN fs' = DOMAIN fs \cup {Live(r) : r \in reached}
      /\ UNCHANGED <<origin, excl, took, warned>>
  BY DEF Backup
<1>2. OriginOK /\ OriginOK' /\ reached \subseteq Rels /\ origin \subseteq Rels /\ FlagsSet(excl)
  BY <1>1, OriginSame, LeftIs DEF LeftInv, Shape, OriginOK
<1>3. /\ points \in Seq(PointRec) /\ new \in PointRec
      /\ DOMAIN points = 1..Len(points) /\ Len(points) \in Nat
  <2>1. points \in Seq(PointRec)
    BY DEF LeftInv, Shape, PointsOK
  <2>2. new \in PointRec
    BY <1>2 DEF PointRec, FlagsSet
  <2> QED
    BY <2>1, <2>2, LenProperties
<1>4. /\ points' \in Seq(PointRec) /\ Len(points') = p
      /\ \A q \in DOMAIN points : points'[q] = points[q]
      /\ points'[p] = new
  <2> HIDE DEF new
  <2>1. /\ Append(points, new) \in Seq(PointRec) /\ Len(Append(points, new)) = Len(points) + 1
        /\ \A i \in 1..Len(points) : Append(points, new)[i] = points[i]
        /\ Append(points, new)[Len(points) + 1] = new
    BY <1>3, AppendProperties
  <2> QED
    BY <1>1, <1>3, <2>1
<1>5. DOMAIN points' = DOMAIN points \cup {p} /\ p \notin DOMAIN points /\ p \in DOMAIN points'
  <2>1. DOMAIN points' = 1..Len(points')
    BY <1>4, LenProperties
  <2> QED
    BY <1>3, <1>4, <2>1
<1> HIDE DEF p
<1>6. ASSUME NEW s \in brought
      PROVE  /\ IsSnap(s) /\ s.at \in Paths /\ s.p = p /\ s.count = 0
  <2>1. PICK r \in reached : s = [at |-> Live(r), p |-> p, count |-> 0, rec |-> NoRecord]
    OBVIOUS
  <2> QED
    BY <1>2, <2>1, LivePath DEF IsSnap
<1>7. ASSUME NEW r \in reached PROVE \E s \in brought : s.p = p /\ Name(s.at) = r
  <2>1. [at |-> Live(r), p |-> p, count |-> 0, rec |-> NoRecord] \in brought
    OBVIOUS
  <2>2. Name(Live(r)) = r
    BY <1>2, LivePath
  <2> QED
    BY <2>1, <2>2
<1> HIDE DEF brought
<1>8. \A s \in snaps : SnapOK(s)
  BY DEF LeftInv, Shape, SnapsOK
<1>9. Shape'
  <2>1. PointsOK'
    <3> SUFFICES ASSUME NEW q \in DOMAIN points'
                 PROVE  /\ FlagsSet(points'[q].excl)
                        /\ \A r \in points'[q].left :
                             Covered(r, Tops(points'[q].excl, "replicate"))
      BY <1>4 DEF PointsOK
    <3>1. CASE q \in DOMAIN points
      BY <1>4, <3>1 DEF LeftInv, Shape, PointsOK
    <3>2. CASE q = p
      BY <1>2, <1>4, <3>2, LeftIs
    <3> QED
      BY <1>5, <3>1, <3>2
  <2>2. ASSUME NEW s \in snaps' PROVE SnapOK(s)'
    BY <1>1, <1>5, <1>6, <1>8 DEF SnapOK
  <2>3. DOMAIN fs' \subseteq Paths
    BY <1>1, <1>2, LivePath DEF LeftInv, Shape, SnapsOK
  <2> QED
    BY <1>2, <2>1, <2>2, <2>3 DEF Shape, SnapsOK
<1>10. RecordedOK'
  <2> SUFFICES ASSUME NEW q \in DOMAIN points', Sure(q)'
               PROVE  /\ \A s \in Members(q)' : Good(s.rec, q)'
                      /\ \A s \in Members(q)', u \in Members(q)' : s.rec = u.rec
                      /\ Untouched(q)' =>
                           \A s \in Members(q)' :
                             s.rec = Marks(points'[q].excl, points'[q].left)
    BY DEF RecordedOK, RecordedAt
  <2>1. q # p
    <3>1. ~new.recorded
      OBVIOUS
    <3> QED
      BY <1>4, <3>1 DEF Sure
  <2>2. q \in DOMAIN points /\ points'[q] = points[q] /\ Sure(q)
    BY <1>1, <1>4, <1>5, <2>1 DEF Sure
  <2>3. Members(q)' = Members(q)
    BY <1>1, <1>6, <2>1 DEF Members
  <2>4. \A m : Good(m, q)' <=> Good(m, q)
    BY <2>2 DEF Good
  <2>5. Untouched(q)' <=> Untouched(q)
    BY <1>1 DEF Untouched
  <2> QED
    BY <2>2, <2>3, <2>4, <2>5 DEF LeftInv, Says, RecordedOK, RecordedAt
<1>11. CountedOK'
  <2> SUFFICES ASSUME NEW s \in snaps', s.count # 0 PROVE Counted(s.p)'
    BY DEF CountedOK
  <2>1. s \in snaps /\ s.p \in DOMAIN points
    BY <1>1, <1>6, <1>8 DEF SnapOK
  <2>2. Counted(s.p) /\ points'[s.p] = points[s.p]
    BY <1>4, <2>1 DEF LeftInv, Says, CountedOK
  <2> QED
    BY <1>1, <2>2 DEF Counted
<1>12. PresentOK'
  <2> SUFFICES ASSUME NEW q \in DOMAIN points', NEW r \in points'[q].ran
               PROVE  <<q, r>> \in took' \/ \E s \in snaps' : s.p = q /\ Name(s.at) = r
    BY DEF PresentOK
  <2>1. CASE q \in DOMAIN points
    <3>1. r \in points[q].ran
      BY <1>4, <2>1
    <3> QED
      BY <1>1, <2>1, <3>1 DEF LeftInv, Says, PresentOK
  <2>2. CASE q = p
    BY <1>1, <1>4, <1>7, <2>2
  <2> QED
    BY <1>5, <2>1, <2>2
<1>13. JobOK'
  <2>1. job' = [kind |-> "backup", rel |-> "root", step |-> "record", dest |-> <<>>,
                held |-> {}, todo |-> {}, gone |-> {}, pts |-> {p},
                ok |-> (reached = Expected(excl))]
    BY <1>1 DEF NoJob
  <2>2. IsJob'
    BY <2>1 DEF IsJob
  <2>3. Expected(excl)' = Expected(excl)
    BY <1>1, SamePlans
  <2>4. BackupOK'
    <3>1. /\ points'[p].excl = excl' /\ points'[p].left = origin' \ Expected(excl)'
          /\ points'[p].ran = reached
      BY <1>1, <1>4, <2>3
    <3>2. /\ job'.step = "record" /\ job'.pts = {p} /\ ~At("complete")'
          /\ job'.ok = (reached = Expected(excl))
      BY <2>1 DEF At
    <3>3. job'.ok => points'[p].ran = Expected(excl)'
      BY <2>3, <3>1, <3>2
    <3> HIDE DEF new
    <3> QED
      BY <1>5, <3>1, <3>2, <3>3 DEF BackupOK
  <2> QED
    BY <2>1, <2>2, <2>4 DEF JobOK, BranchOK, DestroyOK, At
<1> QED
  BY <1>9, <1>10, <1>11, <1>12, <1>13 DEF LeftInv, Says
-----------------------------------------------------------------------------
(* Properties of a point's snapshots that are set.                         *)

(* Only what snapshots of p say may change, their count to c.              *)
Puts(p, c) ==
  /\ \A u \in snaps' : \E s \in snaps :
       /\ u.at = s.at /\ u.p = s.p /\ IsSnap(u)
       /\ s.p # p => u = s
       /\ u.count = s.count \/ u.count = c
  /\ \A s \in snaps : /\ \E u \in snaps' : u.at = s.at /\ u.p = s.p
                      /\ s.p # p => s \in snaps'

LEMMA PutIs ==
  ASSUME NEW s, IsSnap(s), NEW c, NEW r
  PROVE  Put(s, c, r) = [at |-> s.at, p |-> s.p, count |-> c, rec |-> r]
<1> DEFINE t == [s EXCEPT !.count = c]
<1>1. t = [at |-> s.at, p |-> s.p, count |-> c, rec |-> s.rec]
  BY DEF IsSnap
<1>2. Put(s, c, r) = [t EXCEPT !.rec = r]
  BY DEF Put
<1> HIDE DEF t
<1> QED
  BY <1>1, <1>2

LEMMA SetPropsPuts ==
  ASSUME Shape, NEW p, NEW c, NEW r, SetProps(Members(p), c, r)
  PROVE  Puts(p, c) /\ \A u \in Members(p)' : u.rec = r
<1>1. \A s \in snaps : IsSnap(s)
  BY DEF Shape, SnapsOK, SnapOK
<1>2. snaps' = {IF s \in Members(p) THEN Put(s, c, r) ELSE s : s \in snaps}
  BY DEF SetProps
<1>3. ASSUME NEW s \in snaps
      PROVE  LET u == IF s \in Members(p) THEN Put(s, c, r) ELSE s
             IN  /\ u.at = s.at /\ u.p = s.p /\ IsSnap(u) /\ (s.p # p => u = s)
                 /\ u.count = s.count \/ u.count = c
                 /\ u.p = p => u.rec = r
  <2>1. CASE s \in Members(p)
    <3>1. Put(s, c, r) = [at |-> s.at, p |-> s.p, count |-> c, rec |-> r] /\ s.p = p
      BY <1>1, <2>1, PutIs DEF Members
    <3> QED
      BY <2>1, <3>1 DEF IsSnap
  <2>2. CASE s \notin Members(p)
    BY <1>1, <2>2 DEF Members
  <2> QED
    BY <2>1, <2>2
<1>4. Puts(p, c)
  BY <1>2, <1>3 DEF Puts
<1>5. \A u \in snaps' : u.p = p => u.rec = r
  BY <1>2, <1>3
<1> QED
  BY <1>4, <1>5 DEF Members

LEMMA SetPartlyPuts ==
  ASSUME Shape, NEW p, NEW c, NEW r, SetPartly(Members(p), c, r)
  PROVE  Puts(p, c)
<1>1. \A s \in snaps : IsSnap(s)
  BY DEF Shape, SnapsOK, SnapOK
<1> DEFINE put(s, failed, wrote) ==
             IF s \in Members(p) \ failed THEN Put(s, c, r)
             ELSE IF s \notin Members(p) THEN s
             ELSE CASE wrote = "nothing" -> s
                    [] wrote = "count"   -> Put(s, c, s.rec)
                    [] wrote = "record"  -> Put(s, s.count, r)
                    [] wrote = "part"    -> Put(s, s.count, BadRecord)
<1>2. PICK failed \in {{s \in Members(p) : Name(s.at) = "root"}, Members(p)},
           wrote \in {"nothing", "count", "record", "part"} :
        snaps' = {put(s, failed, wrote) : s \in snaps}
  BY DEF SetPartly
<1>3. ASSUME NEW s \in snaps
      PROVE  LET u == put(s, failed, wrote)
             IN  /\ u.at = s.at /\ u.p = s.p /\ IsSnap(u) /\ (s.p # p => u = s)
                 /\ u.count = s.count \/ u.count = c
  <2>1. \A c1, r1 : Put(s, c1, r1) = [at |-> s.at, p |-> s.p, count |-> c1, rec |-> r1]
    BY <1>1, PutIs
  <2>2. \A c1, r1 : /\ Put(s, c1, r1).at = s.at /\ Put(s, c1, r1).p = s.p
                    /\ IsSnap(Put(s, c1, r1)) /\ Put(s, c1, r1).count = c1
    BY <2>1 DEF IsSnap
  <2>3. CASE s \notin Members(p)
    BY <1>1, <2>3 DEF Members
  <2>4. CASE s \in Members(p)
    <3>1. s.p = p
      BY <2>4 DEF Members
    <3>2. \/ put(s, failed, wrote) = s
          \/ \E c1 \in {s.count, c} : \E r1 : put(s, failed, wrote) = Put(s, c1, r1)
      <4>1. CASE s \notin failed
        <5>1. put(s, failed, wrote) = Put(s, c, r)
          BY <2>4, <4>1
        <5> QED
          BY <5>1
      <4>2. CASE s \in failed /\ wrote = "nothing"
        BY <2>4, <4>2
      <4>3. CASE s \in failed /\ wrote = "count"
        <5>1. put(s, failed, wrote) = Put(s, c, s.rec)
          BY <2>4, <4>3
        <5> QED
          BY <5>1
      <4>4. CASE s \in failed /\ wrote = "record"
        <5>1. put(s, failed, wrote) = Put(s, s.count, r)
          BY <2>4, <4>4
        <5> QED
          BY <5>1
      <4>5. CASE s \in failed /\ wrote = "part"
        <5>1. put(s, failed, wrote) = Put(s, s.count, BadRecord)
          BY <2>4, <4>5
        <5> QED
          BY <5>1
      <4> QED
        BY <4>1, <4>2, <4>3, <4>4, <4>5
    <3> HIDE DEF put
    <3> QED
      BY <1>1, <2>2, <3>1, <3>2
  <2> QED
    BY <2>3, <2>4
<1> HIDE DEF put
<1>4. Puts(p, c)
  BY <1>2, <1>3 DEF Puts
<1> QED
  BY <1>4

(* The count alone.                                                        *)
Recounts(p, c) == snaps' = {IF s.p = p THEN [s EXCEPT !.count = c] ELSE s : s \in snaps}

LEMMA CountPuts ==
  ASSUME Shape, NEW p, NEW c, Recounts(p, c)
  PROVE  Puts(p, c) /\ \A u \in Members(p)' : \E s \in Members(p) : u.rec = s.rec
<1>1. \A s \in snaps : IsSnap(s)
  BY DEF Shape, SnapsOK, SnapOK
<1>2. ASSUME NEW s \in snaps
      PROVE  LET u == IF s.p = p THEN [s EXCEPT !.count = c] ELSE s
             IN  /\ u.at = s.at /\ u.p = s.p /\ IsSnap(u) /\ (s.p # p => u = s)
                 /\ u.count = s.count \/ u.count = c
                 /\ u.rec = s.rec
  <2>1. CASE s.p = p
    <3>1. [s EXCEPT !.count = c] = [at |-> s.at, p |-> s.p, count |-> c, rec |-> s.rec]
      BY <1>1 DEF IsSnap
    <3> QED
      BY <2>1, <3>1 DEF IsSnap
  <2>2. CASE s.p # p
    BY <1>1, <2>2
  <2> QED
    BY <2>1, <2>2
<1> DEFINE put(s) == IF s.p = p THEN [s EXCEPT !.count = c] ELSE s
<1>5. snaps' = {put(s) : s \in snaps}
  BY DEF Recounts
<1>6. \A s \in snaps : /\ put(s).at = s.at /\ put(s).p = s.p /\ IsSnap(put(s))
                       /\ (s.p # p => put(s) = s)
                       /\ put(s).count = s.count \/ put(s).count = c
                       /\ put(s).rec = s.rec
  BY <1>2
<1> HIDE DEF put
<1>3. Puts(p, c)
  BY <1>5, <1>6 DEF Puts
<1>4. \A u \in snaps' : \E s \in snaps : u.p = s.p /\ u.rec = s.rec
  BY <1>5, <1>6
<1> QED
  BY <1>3, <1>4 DEF Members

(* Only p may be recorded, or named by a warning.                          *)
Marking(p) ==
  /\ DOMAIN points' = DOMAIN points /\ took' = took /\ warned \subseteq warned'
  /\ \A q \in DOMAIN points :
       /\ points'[q].ran = points[q].ran /\ points'[q].left = points[q].left
       /\ points'[q].excl = points[q].excl
       /\ points[q].recorded => points'[q].recorded
       /\ q # p => points'[q] = points[q] /\ (q \in warned' => q \in warned)

LEMMA SaysPut ==
  ASSUME LeftInv, NEW p \in DOMAIN points, NEW c, Puts(p, c), Marking(p), RecordedAt(p)',
         c # 0 => Counted(p)'
  PROVE  Says'
<1>1. \A q \in DOMAIN points : Counted(q) => Counted(q)'
  BY DEF Counted, Marking
<1>2. RecordedOK'
  <2> SUFFICES ASSUME NEW q \in DOMAIN points, q # p PROVE RecordedAt(q)'
    BY DEF RecordedOK, Marking
  <2>1. Members(q)' = Members(q)
    <3>1. ASSUME NEW u \in Members(q)' PROVE u \in Members(q)
      <4>1. u \in snaps' /\ u.p = q
        BY DEF Members
      <4>2. PICK s \in snaps : u.p = s.p /\ (s.p # p => u = s)
        BY <4>1 DEF Puts
      <4> QED
        BY <4>1, <4>2 DEF Members
    <3>2. ASSUME NEW s \in Members(q) PROVE s \in Members(q)'
      <4>1. s \in snaps /\ s.p = q /\ s.at = s.at
        BY DEF Members
      <4>2. s \in snaps'
        BY <4>1 DEF Puts
      <4> QED
        BY <4>1, <4>2 DEF Members
    <3> QED
      BY <3>1, <3>2
  <2>2. points'[q] = points[q] /\ (Sure(q)' => Sure(q)) /\ (Untouched(q)' <=> Untouched(q))
    BY DEF Marking, Sure, Untouched
  <2>3. \A m : Good(m, q)' <=> Good(m, q)
    BY <2>2 DEF Good
  <2>4. RecordedAt(q)
    BY DEF LeftInv, Says, RecordedOK
  <2> QED
    BY <2>1, <2>2, <2>3, <2>4 DEF RecordedAt
<1>3. CountedOK'
  <2> SUFFICES ASSUME NEW u \in snaps', u.count # 0 PROVE Counted(u.p)'
    BY DEF CountedOK
  <2>1. PICK s \in snaps : /\ u.p = s.p /\ (s.p # p => u = s)
                           /\ u.count = s.count \/ u.count = c
    BY DEF Puts
  <2>2. s.p \in DOMAIN points /\ (s.count # 0 => Counted(s.p))
    BY DEF LeftInv, Shape, SnapsOK, SnapOK, Says, CountedOK
  <2>3. CASE s.count # 0
    BY <1>1, <2>1, <2>2, <2>3
  <2>4. CASE s.count = 0
    BY <2>1, <2>4
  <2> QED
    BY <2>3, <2>4
<1>4. PresentOK'
  <2> SUFFICES ASSUME NEW q \in DOMAIN points', NEW r \in points'[q].ran, <<q, r>> \notin took'
               PROVE  \E u \in snaps' : u.p = q /\ Name(u.at) = r
    BY DEF PresentOK
  <2>2. q \in DOMAIN points /\ r \in points[q].ran /\ <<q, r>> \notin took
    BY DEF Marking
  <2>1. PICK s \in snaps : s.p = q /\ Name(s.at) = r
    BY <2>2 DEF LeftInv, Says, PresentOK
  <2> QED
    BY <2>1 DEF Puts
<1> QED
  BY <1>2, <1>3, <1>4 DEF Says

LEMMA ShapePut ==
  ASSUME Shape, NEW p \in DOMAIN points, NEW c, Puts(p, c), Marking(p),
         points' \in Seq(PointRec), UNCHANGED <<origin, excl, fs>>
  PROVE  Shape'
<1>1. OriginOK'
  BY OriginSame DEF Shape
<1>2. PointsOK'
  BY DEF Shape, PointsOK, Marking
<1>3. ASSUME NEW u \in snaps' PROVE SnapOK(u)'
  <2>1. PICK s \in snaps : u.at = s.at /\ u.p = s.p /\ IsSnap(u)
    BY DEF Puts
  <2> QED
    BY <2>1 DEF Shape, SnapsOK, SnapOK, Marking
<1> QED
  BY <1>1, <1>2, <1>3 DEF Shape, SnapsOK

LEMMA BackupJob ==
  ASSUME LeftInv, job.kind = "backup"
  PROVE  \E p \in DOMAIN points :
           /\ job.pts = {p}
           /\ points[p].excl = excl
           /\ points[p].left = origin \ Expected(excl)
           /\ job.ok => points[p].ran = Expected(excl)
           /\ At("complete") => job.ok /\ (points[p].recorded \/ p \in warned)
BY DEF LeftInv, JobOK, BackupOK

LEMMA RecordStep ==
  ASSUME LeftInv, Record
  PROVE  LeftInv'
<1>1. /\ job.kind = "backup" /\ IsJob
      /\ UNCHANGED <<origin, excl, fs, took>>
      /\ job' = IF job.ok THEN [job EXCEPT !.step = "complete"] ELSE NoJob
  BY DEF Record, LeftInv, JobOK
<1>2. PICK p \in DOMAIN points :
        /\ job.pts = {p}
        /\ points[p].excl = excl
        /\ points[p].left = origin \ Expected(excl)
        /\ job.ok => points[p].ran = Expected(excl)
  BY <1>1, BackupJob
<1>m. PICK m : m = PointMark(excl)
  OBVIOUS
<1>3. m = Marks(points[p].excl, points[p].left)
  BY <1>2, <1>m, MarkIs DEF LeftInv, Shape
<1>4. \/ /\ SetProps(Members(p), 0, m)
         /\ points' = [points EXCEPT ![p].recorded = TRUE]
         /\ UNCHANGED warned
      \/ /\ SetPartly(Members(p), 0, m)
         /\ warned' = warned \cup {p}
         /\ UNCHANGED points
  BY <1>2, <1>m DEF Record
<1>5. points \in Seq(PointRec) /\ DOMAIN points = 1..Len(points) /\ points[p] \in PointRec
  <2>1. points \in Seq(PointRec)
    BY DEF LeftInv, Shape, PointsOK
  <2> QED
    BY <2>1, LenProperties, ElementOfSeq
<1>6. /\ Puts(p, 0) /\ Marking(p) /\ RecordedAt(p)' /\ points' \in Seq(PointRec)
      /\ points'[p].recorded \/ p \in warned'
  <2>1. CASE /\ SetProps(Members(p), 0, m)
             /\ points' = [points EXCEPT ![p].recorded = TRUE]
             /\ UNCHANGED warned
    <3>1. Puts(p, 0) /\ \A u \in Members(p)' : u.rec = m
      BY <2>1, SetPropsPuts DEF LeftInv
    <3>2. points'[p] = [points[p] EXCEPT !.recorded = TRUE]
          /\ \A q \in DOMAIN points : q # p => points'[q] = points[q]
      BY <2>1
    <3>3. points[p] = [ran |-> points[p].ran, excl |-> points[p].excl, left |-> points[p].left,
                       recorded |-> points[p].recorded]
      BY <1>5 DEF PointRec
    <3>4. points'[p] = [ran |-> points[p].ran, excl |-> points[p].excl, left |-> points[p].left,
                        recorded |-> TRUE]
      BY <3>2, <3>3
    <3>5. points'[p] \in PointRec
      BY <1>5, <3>4 DEF PointRec
    <3>6. points' \in Seq(PointRec)
      <4>1. /\ DOMAIN points' = 1..Len(points) /\ Len(points) \in Nat
            /\ points' = [i \in 1..Len(points) |-> points'[i]]
        BY <1>5, <2>1, LenProperties
      <4>2. \A i \in 1..Len(points) : points'[i] \in PointRec
        BY <1>5, <3>2, <3>5, ElementOfSeq
      <4>3. points' \in [1..Len(points) -> PointRec]
        BY <4>1, <4>2
      <4> QED
        BY <4>1, <4>3, SeqDef
    <3>7. Marking(p)
      BY <1>1, <2>1, <3>2, <3>4 DEF Marking
    <3>8. m = Marks(points'[p].excl, points'[p].left)
      BY <1>3, <3>4
    <3>9. Good(m, p)'
      <4>1. Good(m, p)
        BY <1>3, MarksGood
      <4> QED
        BY <3>4, <4>1 DEF Good
    <3>10. RecordedAt(p)'
      <4>1. \A u \in Members(p)' : u.rec = m
        BY <3>1
      <4> QED
        BY <3>8, <3>9, <4>1 DEF RecordedAt
    <3> QED
      BY <3>1, <3>4, <3>6, <3>7, <3>10
  <2>2. CASE /\ SetPartly(Members(p), 0, m)
             /\ warned' = warned \cup {p}
             /\ UNCHANGED points
    <3>1. Puts(p, 0)
      BY <2>2, SetPartlyPuts DEF LeftInv
    <3>2. Marking(p)
      BY <1>1, <2>2 DEF Marking
    <3>3. RecordedAt(p)'
      BY <2>2 DEF RecordedAt, Sure
    <3> QED
      BY <1>5, <2>2, <3>1, <3>2, <3>3
  <2> QED
    BY <1>4, <2>1, <2>2
<1>7. Says'
  BY <1>6, SaysPut
<1>8. Shape'
  BY <1>1, <1>6, ShapePut DEF LeftInv
<1>9. JobOK'
  <2>1. CASE ~job.ok
    BY <1>1, <2>1, NoJobOK
  <2>2. CASE job.ok
    <3>1. job' = [kind |-> "backup", rel |-> job.rel, step |-> "complete", dest |-> job.dest,
                  held |-> job.held, todo |-> job.todo, gone |-> job.gone, pts |-> job.pts,
                  ok |-> job.ok]
      BY <1>1, <2>2 DEF IsJob
    <3>2. IsJob'
      BY <3>1 DEF IsJob
    <3>3. Expected(excl)' = Expected(excl)
      BY <1>1, SamePlans
    <3>4. /\ points'[p].excl = excl' /\ points'[p].left = origin' \ Expected(excl)'
          /\ points'[p].ran = Expected(excl)' /\ p \in DOMAIN points'
      BY <1>1, <1>2, <1>6, <2>2, <3>3 DEF Marking
    <3>5. job'.step = "complete" /\ job'.pts = {p} /\ job'.ok
      BY <1>2, <2>2, <3>1
    <3>6. BackupOK'
      BY <1>6, <3>4, <3>5 DEF BackupOK
    <3> QED
      BY <3>1, <3>2, <3>6 DEF JobOK, BranchOK, DestroyOK, At
  <2> QED
    BY <2>1, <2>2
<1> QED
  BY <1>7, <1>8, <1>9 DEF LeftInv

LEMMA MarkCompleteStep ==
  ASSUME LeftInv, MarkComplete
  PROVE  LeftInv'
<1>1. /\ job.kind = "backup" /\ At("complete") /\ job' = NoJob
      /\ UNCHANGED <<origin, excl, fs, points, took, warned>>
  BY DEF MarkComplete, hist
<1>2. PICK p \in DOMAIN points :
        /\ job.pts = {p}
        /\ points[p].excl = excl
        /\ points[p].left = origin \ Expected(excl)
        /\ points[p].ran = Expected(excl)
        /\ points[p].recorded \/ p \in warned
  BY <1>1, BackupJob
<1> DEFINE c == Cardinality(Members(p))
<1>3. Recounts(p, c)
  BY <1>2 DEF MarkComplete, Recounts
<1> HIDE DEF c
<1>4. Puts(p, c) /\ \A u \in Members(p)' : \E s \in Members(p) : u.rec = s.rec
  BY <1>3, CountPuts DEF LeftInv
<1>5. Counted(p)'
  BY <1>1, <1>2, LeftIs DEF Counted, LeftInv, Shape
<1>6. Marking(p) /\ points' \in Seq(PointRec)
  BY <1>1 DEF Marking, LeftInv, Shape, PointsOK
<1>7. RecordedAt(p)'
  <2>1. RecordedAt(p) /\ (Sure(p)' <=> Sure(p)) /\ (Untouched(p)' <=> Untouched(p))
    BY <1>1 DEF LeftInv, Says, RecordedOK, Sure, Untouched
  <2>2. \A n : Good(n, p)' <=> Good(n, p)
    BY <1>1 DEF Good
  <2> QED
    BY <1>1, <1>4, <2>1, <2>2 DEF RecordedAt
<1>8. Says'
  BY <1>4, <1>5, <1>6, <1>7, SaysPut
<1>9. Shape'
  BY <1>1, <1>4, <1>6, ShapePut DEF LeftInv
<1> QED
  BY <1>1, <1>8, <1>9, NoJobOK DEF LeftInv
-----------------------------------------------------------------------------
(* What a rollback and a confirmed destroy take.                           *)

(* The snapshots that go are counted as taken.                             *)
Takes ==
  /\ snaps' \subseteq snaps /\ took \subseteq took'
  /\ \A s \in snaps \ snaps' : Took(s)'

LEMMA TakesStep ==
  ASSUME LeftInv, Takes, UNCHANGED <<origin, excl, points, warned>>,
         DOMAIN fs' \subseteq DOMAIN fs, JobOK'
  PROVE  LeftInv'
<1>1. Moves
  BY DEF Takes, Moves, Same, Took
<1>2. Says'
  BY <1>1, SaysMoved DEF LeftInv, Takes
<1>3. Shape'
  BY OriginSame, ShapeSame DEF LeftInv, Shape, SnapsOK, SnapOK, Takes
<1> QED
  BY <1>2, <1>3 DEF LeftInv

LEMMA RollbackStep ==
  ASSUME LeftInv, NEW r \in Rels, NEW common, Rollback(r, common)
  PROVE  LeftInv'
<1> DEFINE newer == {s \in snaps : s.at = Live(r) /\ s.p > common}
<1>1. /\ snaps' = snaps \ newer /\ took' = took \cup {<<s.p, r>> : s \in newer}
      /\ UNCHANGED <<origin, excl, fs, job, points, warned>> /\ Idle
  BY DEF Rollback
<1>2. \A s \in snaps \ snaps' : Took(s)'
  BY <1>1, LivePath DEF Took
<1>3. Takes
  BY <1>1, <1>2 DEF Takes
<1>4. JobOK'
  BY <1>1, QuieterOK DEF Quieter, LeftInv
<1> QED
  BY <1>1, <1>3, <1>4, TakesStep

LEMMA StartStep ==
  ASSUME LeftInv, NEW r \in Rels, NEW kind \in {"excluded", "diverged", "orphan"},
         StartDestroy(kind, r)
  PROVE  LeftInv'
<1>1. PICK T :
        /\ job' = [NoJob EXCEPT !.kind = kind, !.rel = r, !.step = "destroy",
                                !.dest = fs, !.held = snaps, !.todo = T]
        /\ UNCHANGED <<origin, excl, fs, snaps, points, took, warned>>
  BY DEF StartDestroy, hist
<1>2. job' = [kind |-> kind, rel |-> r, step |-> "destroy", dest |-> fs, held |-> snaps,
              todo |-> T, gone |-> {}, pts |-> {}, ok |-> TRUE]
  BY <1>1 DEF NoJob
<1>3. IsJob'
  BY <1>2 DEF IsJob
<1>4. ASSUME NEW h \in snaps
      PROVE  /\ SnapOK(h)'
             /\ Sure(h.p)' => Good(h.rec, h.p)'
             /\ h.count # 0 => Counted(h.p)'
             /\ ~UnderAny(h.at, {})
  <2>1. SnapOK(h)
    BY DEF LeftInv, Shape, SnapsOK
  <2>2. SnapOK(h)'
    BY <1>1, <2>1 DEF SnapOK
  <2>3. Sure(h.p) => Good(h.rec, h.p)
    BY <2>1 DEF SnapOK, LeftInv, Says, RecordedOK, RecordedAt, Members
  <2>4. h.count # 0 => Counted(h.p)
    BY DEF LeftInv, Says, CountedOK
  <2>5. /\ Sure(h.p)' <=> Sure(h.p)
        /\ Good(h.rec, h.p)' <=> Good(h.rec, h.p)
        /\ Counted(h.p)' <=> Counted(h.p)
    BY <1>1 DEF Sure, Good, Counted
  <2> QED
    BY <2>2, <2>3, <2>4, <2>5 DEF UnderAny
<1>5. DestroyOK'
  <2>1. /\ job'.kind \in {"excluded", "diverged", "orphan"} /\ job'.rel \in Rels
        /\ job'.held = snaps /\ job'.gone = {} /\ ~At("rewrite")'
    BY <1>2 DEF At
  <2>2. \A h \in job'.held : h \in snaps' /\ (UnderAny(h.at, job'.gone) => Took(h)')
    BY <1>1, <1>4, <2>1
  <2>3. \A h \in job'.held :
          /\ SnapOK(h)'
          /\ Sure(h.p)' => Good(h.rec, h.p)'
          /\ h.count # 0 => Counted(h.p)'
    BY <1>4, <2>1
  <2> QED
    BY <2>1, <2>2, <2>3 DEF DestroyOK
<1>6. JobOK'
  BY <1>2, <1>3, <1>5 DEF JobOK, BackupOK, BranchOK
<1>7. Shape'
  BY <1>1, OriginSame, ShapeSame DEF LeftInv, Shape, SnapsOK, SnapOK
<1> QED
  BY <1>1, <1>6, <1>7, SaysSame DEF LeftInv

LEMMA DestroyJob ==
  ASSUME LeftInv, At("destroy") \/ At("rewrite")
  PROVE  /\ job.kind \in {"excluded", "diverged", "orphan"} /\ job.rel \in Rels /\ IsJob
         /\ \A h \in job.held :
              /\ SnapOK(h)
              /\ Sure(h.p) => Good(h.rec, h.p)
              /\ h.count # 0 => Counted(h.p)
              /\ At("destroy") => h \in snaps \/ Took(h)
              /\ UnderAny(h.at, job.gone) => Took(h)
         /\ At("rewrite") => job.pts \subseteq Losing(job.held, job.gone)
BY DEF LeftInv, JobOK, DestroyOK

(* The next step of a destroy: with what todo, gone, points and result.    *)
DestroyGoes(step, todo, gone, pts, ok) ==
  /\ job' = [kind |-> job.kind, rel |-> job.rel, step |-> step, dest |-> job.dest,
             held |-> job.held, todo |-> todo, gone |-> gone, pts |-> pts, ok |-> ok]
  /\ step \in {"destroy", "rewrite"}
  /\ step = "rewrite" => pts \subseteq Losing(job.held, gone)
  /\ \A h \in job.held : /\ step = "destroy" => h \in snaps' \/ Took(h)'
                         /\ UnderAny(h.at, gone) => Took(h)'

LEMMA DestroyGoesOn ==
  ASSUME LeftInv, At("destroy") \/ At("rewrite"), UNCHANGED points, warned \subseteq warned',
         NEW step, NEW todo, NEW gone, NEW pts, NEW ok, DestroyGoes(step, todo, gone, pts, ok)
  PROVE  JobOK'
<1>1. /\ job.kind \in {"excluded", "diverged", "orphan"} /\ job.rel \in Rels
      /\ \A h \in job.held :
           /\ SnapOK(h)
           /\ Sure(h.p) => Good(h.rec, h.p)
           /\ h.count # 0 => Counted(h.p)
  BY DestroyJob
<1>2. /\ job'.kind = job.kind /\ job'.rel = job.rel /\ job'.step = step
      /\ job'.held = job.held /\ job'.gone = gone /\ job'.pts = pts /\ IsJob'
  BY DEF DestroyGoes, IsJob
<1>3. ASSUME NEW h \in job.held
      PROVE  SnapOK(h)' /\ (Sure(h.p)' => Good(h.rec, h.p)') /\ (h.count # 0 => Counted(h.p)')
  <2>1. SnapOK(h)' <=> SnapOK(h)
    BY DEF SnapOK
  <2>2. Sure(h.p)' => Sure(h.p)
    BY DEF Sure
  <2>3. Good(h.rec, h.p)' <=> Good(h.rec, h.p)
    BY DEF Good
  <2>4. Counted(h.p) => Counted(h.p)'
    BY DEF Counted
  <2> QED
    BY <1>1, <2>1, <2>2, <2>3, <2>4
<1>4. Losing(job.held, job.gone)' = Losing(job.held, gone)
  BY <1>2 DEF Losing
<1>5. DestroyOK'
  BY <1>1, <1>2, <1>3, <1>4 DEF DestroyOK, DestroyGoes, At
<1> QED
  BY <1>1, <1>2, <1>5 DEF JobOK, BackupOK, BranchOK

LEMMA TakeTakes ==
  ASSUME NEW G, Take(G)
  PROVE  /\ Takes /\ DOMAIN fs' \subseteq DOMAIN fs
         /\ \A s \in snaps : UnderAny(s.at, G) => s \notin snaps'
<1>1. DOMAIN fs' \subseteq DOMAIN fs
  BY DEF Take, Without
<1>2. snaps' \subseteq snaps /\ \A s \in snaps : UnderAny(s.at, G) => s \notin snaps'
  BY DEF Take
<1>3. took' = took \cup {<<s.p, Name(s.at)>> : s \in snaps \ snaps'}
  BY DEF Take
<1>4. \A s \in snaps \ snaps' : <<s.p, Name(s.at)>> \in took'
  BY <1>3
<1>5. \A s : Took(s)' <=> <<s.p, Name(s.at)>> \in took'
  BY DEF Took
<1> QED
  BY <1>1, <1>2, <1>3, <1>4, <1>5 DEF Takes

(* What goes with a tree was there, or was taken before.                   *)
LEMMA TakenHeld ==
  ASSUME LeftInv, At("destroy"), Takes, NEW h \in job.held
  PROVE  /\ h \in snaps' \/ Took(h)'
         /\ UnderAny(h.at, job.gone) => Took(h)'
<1>1. /\ h \in snaps \/ Took(h)
      /\ UnderAny(h.at, job.gone) => Took(h)
  BY DestroyJob
<1>2. Took(h) => Took(h)'
  BY DEF Takes, Took
<1> QED
  BY <1>1, <1>2 DEF Takes

(* The job j, with trees todo and gone, after the last tree or a failure.  *)
Down(j, todo, gone, ok) ==
  j = [kind |-> job.kind, rel |-> job.rel, step |-> job.step, dest |-> job.dest,
       held |-> job.held, todo |-> todo, gone |-> gone, pts |-> job.pts, ok |-> ok]

LEMMA AfterOK ==
  ASSUME LeftInv, At("destroy"), UNCHANGED <<points, warned>>,
         NEW j, NEW todo, NEW gone, NEW ok, Down(j, todo, gone, ok),
         \A h \in job.held : UnderAny(h.at, gone) => Took(h)',
         job' = AfterDestroy(j)
  PROVE  JobOK'
<1>1. CASE j.kind = "diverged"
  BY <1>1, NoJobOK DEF AfterDestroy
<1>2. CASE j.kind # "diverged"
  <2> DEFINE pts == Losing(j.held, j.gone)
             k == [j EXCEPT !.step = "rewrite"]
  <2>1. job' = [k EXCEPT !.pts = pts]
    BY <1>2 DEF AfterDestroy
  <2>2. k = [kind |-> job.kind, rel |-> job.rel, step |-> "rewrite", dest |-> job.dest,
             held |-> job.held, todo |-> todo, gone |-> gone, pts |-> job.pts, ok |-> ok]
    BY DEF Down
  <2>3. pts = Losing(job.held, gone)
    BY DEF Down
  <2> HIDE DEF k, pts
  <2>4. job' = [kind |-> job.kind, rel |-> job.rel, step |-> "rewrite", dest |-> job.dest,
                held |-> job.held, todo |-> todo, gone |-> gone, pts |-> pts, ok |-> ok]
    BY <2>1, <2>2
  <2>5. DestroyGoes("rewrite", todo, gone, pts, ok)
    BY <2>3, <2>4 DEF DestroyGoes
  <2> QED
    BY <2>5, DestroyGoesOn
<1> QED
  BY <1>1, <1>2

LEMMA DestroyTreeStep ==
  ASSUME LeftInv, DestroyTree
  PROVE  LeftInv'
<1>1. At("destroy") /\ UNCHANGED <<origin, excl, points, warned>> /\ IsJob
  BY DestroyJob DEF DestroyTree
<1>2. PICK t \in Targets :
        LET j == [job EXCEPT !.todo = @ \ {t}, !.gone = @ \cup {t}]
        IN  \/ /\ Take({t})
               /\ job' = IF job.todo = {} THEN AfterDestroy(j) ELSE j
            \/ /\ \/ Take({x \in Tree(fs, t) : x # t})
                  \/ UNCHANGED <<fs, snaps, took>>
               /\ job' = AfterDestroy([job EXCEPT !.ok = FALSE])
  BY DEF DestroyTree
<1> DEFINE todo == job.todo \ {t}
           gone == job.gone \cup {t}
           j == [job EXCEPT !.todo = @ \ {t}, !.gone = @ \cup {t}]
<1>3. Down(j, todo, gone, job.ok)
  <2> DEFINE k == [job EXCEPT !.todo = todo]
  <2>1. k = [kind |-> job.kind, rel |-> job.rel, step |-> job.step, dest |-> job.dest,
             held |-> job.held, todo |-> todo, gone |-> job.gone, pts |-> job.pts,
             ok |-> job.ok]
    BY <1>1 DEF IsJob
  <2>2. j = [k EXCEPT !.gone = gone]
    BY <1>1 DEF IsJob
  <2> HIDE DEF k, j, todo, gone
  <2> QED
    BY <2>1, <2>2 DEF Down
<1>4. CASE /\ Take({t})
           /\ job' = IF job.todo = {} THEN AfterDestroy(j) ELSE j
  <2> HIDE DEF j, todo
  <2>1. /\ Takes /\ DOMAIN fs' \subseteq DOMAIN fs
        /\ \A s \in snaps : UnderAny(s.at, {t}) => s \notin snaps'
    BY <1>4, TakeTakes
  <2>2. ASSUME NEW h \in job.held
        PROVE  /\ h \in snaps' \/ Took(h)'
               /\ UnderAny(h.at, gone) => Took(h)'
    <3>1. h \in snaps' \/ Took(h)'
      BY <1>1, <2>1, TakenHeld
    <3>2. UnderAny(h.at, job.gone) => Took(h)'
      BY <1>1, <2>1, TakenHeld
    <3>3. UnderAny(h.at, {t}) => h \notin snaps'
      BY <2>1 DEF Takes
    <3>4. UnderAny(h.at, gone) => UnderAny(h.at, job.gone) \/ UnderAny(h.at, {t})
      BY DEF UnderAny
    <3> QED
      BY <3>1, <3>2, <3>3, <3>4
  <2> HIDE DEF gone
  <2>3. JobOK'
    <3>1. CASE job.todo = {}
      BY <1>1, <1>3, <1>4, <2>2, <3>1, AfterOK
    <3>2. CASE job.todo # {}
      <4>1. DestroyGoes("destroy", todo, gone, job.pts, job.ok)
        BY <1>1, <1>3, <1>4, <2>2, <3>2 DEF DestroyGoes, Down, At
      <4> QED
        BY <1>1, <4>1, DestroyGoesOn
    <3> QED
      BY <3>1, <3>2
  <2> QED
    BY <1>1, <2>1, <2>3, TakesStep
<1>5. CASE /\ \/ Take({x \in Tree(fs, t) : x # t})
              \/ UNCHANGED <<fs, snaps, took>>
           /\ job' = AfterDestroy([job EXCEPT !.ok = FALSE])
  <2>1. Takes /\ DOMAIN fs' \subseteq DOMAIN fs
    <3>1. CASE Take({x \in Tree(fs, t) : x # t})
      BY <3>1, TakeTakes
    <3>2. CASE UNCHANGED <<fs, snaps, took>>
      BY <3>2 DEF Takes
    <3> QED
      BY <1>5, <3>1, <3>2
  <2> DEFINE k == [job EXCEPT !.ok = FALSE]
  <2>2. Down(k, job.todo, job.gone, FALSE)
    <3>0. PICK no : no = FALSE
      OBVIOUS
    <3>1. k = [job EXCEPT !.ok = no]
      BY <3>0
    <3>2. k = [kind |-> job.kind, rel |-> job.rel, step |-> job.step, dest |-> job.dest,
               held |-> job.held, todo |-> job.todo, gone |-> job.gone, pts |-> job.pts,
               ok |-> no]
      <4> HIDE DEF k
      <4> QED
        BY <1>1, <3>1 DEF IsJob
    <3> QED
      BY <3>0, <3>2 DEF Down
  <2>3. job' = AfterDestroy(k)
    BY <1>5
  <2> HIDE DEF k
  <2>4. \A h \in job.held : UnderAny(h.at, job.gone) => Took(h)'
    BY <1>1, <2>1, TakenHeld
  <2>5. JobOK'
    BY <1>1, <2>2, <2>3, <2>4, AfterOK
  <2> QED
    BY <1>1, <2>1, <2>5, TakesStep
<1> QED
  BY <1>2, <1>4, <1>5

LEMMA RewriteStep ==
  ASSUME LeftInv, Rewrite
  PROVE  LeftInv'
<1>1. At("rewrite") /\ UNCHANGED <<origin, excl, fs, points, took>> /\ IsJob /\ job.rel \in Rels
  BY DestroyJob DEF Rewrite
<1>0. PICK p \in job.pts : \E count :
        \/ job.kind = "orphan" /\ RewriteOrphan(p, count)
        \/ /\ job.kind = "excluded"
           /\ \E m \in RecordsOf(job.held, job.gone, p) : RewriteHeld(p, count, m)
  BY DEF Rewrite
<1>2. PICK count :
        \/ job.kind = "orphan" /\ RewriteOrphan(p, count)
        \/ /\ job.kind = "excluded"
           /\ \E m \in RecordsOf(job.held, job.gone, p) : RewriteHeld(p, count, m)
  BY <1>0
<1>3. /\ p \in DOMAIN points
      /\ \E s \in Of(job.held, p) : s.count > 0 /\ UnderAny(s.at, job.gone)
      /\ LeftOf(job.held, job.gone, p) # {}
  <2>1. p \in Losing(job.held, job.gone)
    BY <1>1, DestroyJob
  <2> QED
    BY <2>1 DEF Losing
<1>4. Counted(p) /\ ~Untouched(p)
  <2>1. PICK s \in job.held : s.p = p /\ s.count > 0 /\ UnderAny(s.at, job.gone)
    BY <1>3 DEF Of
  <2>2. s.count # 0
    BY <2>1
  <2>3. Counted(p) /\ Took(s) /\ s.at \in Paths
    BY <1>1, <2>1, <2>2, DestroyJob DEF SnapOK
  <2>4. Name(s.at) \in Rels
    BY <2>3, PathIs
  <2> QED
    BY <2>1, <2>3, <2>4 DEF Took, Untouched
<1>5. ASSUME NEW m \in RecordsOf(job.held, job.gone, p), Sure(p)
      PROVE  Good(m, p)
  <2>1. \A h \in LeftOf(job.held, job.gone, p) : Good(h.rec, p)
    BY <1>1, <1>5, DestroyJob DEF LeftOf, Of
  <2>2. \A n : Good(n, p) => n # NoRecord
    BY DEF Good, NoRecord, Empty
  <2>3. \E n \in {s.rec : s \in LeftOf(job.held, job.gone, p)} \ {NoRecord} : TRUE
    BY <1>3, <2>1, <2>2
  <2>4. m \in {s.rec : s \in LeftOf(job.held, job.gone, p)}
    BY <2>3 DEF RecordsOf
  <2> QED
    BY <2>1, <2>4
<1>7. points' \in Seq(PointRec)
  BY <1>1 DEF LeftInv, Shape, PointsOK
<1>8. ASSUME Puts(p, count), RecordedAt(p)', warned' = warned \/ warned' = warned \cup {p}
      PROVE  Shape' /\ Says'
  <2>1. Marking(p)
    BY <1>1, <1>8 DEF Marking
  <2>2. Counted(p)'
    BY <1>1, <1>4, <1>8 DEF Counted
  <2>3. Says'
    BY <1>3, <1>8, <2>1, <2>2, SaysPut
  <2>4. Shape'
    BY <1>1, <1>3, <1>7, <1>8, <2>1, ShapePut DEF LeftInv
  <2> QED
    BY <2>3, <2>4
<1>9. ASSUME job' = [job EXCEPT !.pts = @ \ {p}], warned' = warned \/ warned' = warned \cup {p}
      PROVE  JobOK'
  <2>1. DestroyGoes("rewrite", job.todo, job.gone, job.pts \ {p}, job.ok)
    <3>1. job' = [kind |-> job.kind, rel |-> job.rel, step |-> "rewrite", dest |-> job.dest,
                  held |-> job.held, todo |-> job.todo, gone |-> job.gone,
                  pts |-> job.pts \ {p}, ok |-> job.ok]
      BY <1>1, <1>9 DEF IsJob, At
    <3>2. job.pts \ {p} \subseteq Losing(job.held, job.gone)
      BY <1>1, DestroyJob
    <3>3. \A h \in job.held : UnderAny(h.at, job.gone) => Took(h)'
      BY <1>1, DestroyJob DEF Took
    <3> QED
      BY <3>1, <3>2, <3>3 DEF DestroyGoes
  <2>2. UNCHANGED points /\ warned \subseteq warned'
    BY <1>1, <1>9
  <2> QED
    BY <1>1, <2>1, <2>2, DestroyGoesOn
<1>10. warned' = warned \cup {p} => RecordedAt(p)'
  BY DEF RecordedAt, Sure
<1>11. CASE RewriteOrphan(p, count)
  <2>1. job' = [job EXCEPT !.pts = @ \ {p}]
    BY <1>11 DEF RewriteOrphan
  <2>2. CASE Recounts(p, count) /\ UNCHANGED warned
    <3>1. Puts(p, count) /\ \A u \in Members(p)' : \E s \in Members(p) : u.rec = s.rec
      BY <2>2, CountPuts DEF LeftInv
    <3>2. RecordedAt(p)'
      <4>1. RecordedAt(p) /\ (Sure(p)' <=> Sure(p)) /\ (Untouched(p)' <=> Untouched(p))
        BY <1>1, <1>3, <2>2 DEF LeftInv, Says, RecordedOK, Sure, Untouched
      <4>2. \A n : Good(n, p)' <=> Good(n, p)
        BY <1>1 DEF Good
      <4> QED
        BY <1>1, <1>4, <3>1, <4>1, <4>2 DEF RecordedAt
    <3> QED
      BY <1>8, <1>9, <2>1, <2>2, <3>1, <3>2 DEF LeftInv
  <2>3. CASE warned' = warned \cup {p} /\ UNCHANGED snaps
    <3>1. Puts(p, count)
      BY <2>3 DEF Puts, LeftInv, Shape, SnapsOK, SnapOK
    <3> QED
      BY <1>8, <1>9, <1>10, <2>1, <2>3, <3>1 DEF LeftInv
  <2> QED
    BY <1>11, <2>2, <2>3 DEF RewriteOrphan, Recounts
<1>12. ASSUME NEW m \in RecordsOf(job.held, job.gone, p), RewriteHeld(p, count, m)
       PROVE  LeftInv'
  <2>1. CASE m = BadRecord
    <3>1. job' = NoJob /\ UNCHANGED <<snaps, warned>>
      BY <1>12, <2>1 DEF RewriteHeld
    <3>2. OriginOK' /\ DOMAIN fs' \subseteq Paths
      BY <1>1, OriginSame DEF LeftInv, Shape, SnapsOK
    <3> QED
      BY <1>1, <3>1, <3>2, QuietStep DEF Quieter
  <2>2. CASE m # BadRecord
    <3>0. PICK n : n = Rewritten(m, p)
      OBVIOUS
    <3>1. /\ \/ SetProps(Members(p), count, n) /\ UNCHANGED warned
             \/ SetPartly(Members(p), count, n) /\ warned' = warned \cup {p}
          /\ job' = [job EXCEPT !.pts = @ \ {p}]
      BY <1>12, <2>2, <3>0 DEF RewriteHeld
    <3>2. CASE SetProps(Members(p), count, n) /\ UNCHANGED warned
      <4>1. Puts(p, count) /\ \A u \in Members(p)' : u.rec = n
        BY <3>2, SetPropsPuts DEF LeftInv
      <4>2. Sure(p) => Good(n, p)
        BY <1>1, <1>5, <3>0, RewrittenGood
      <4>3. RecordedAt(p)'
        <5>1. (Sure(p)' <=> Sure(p)) /\ ~Untouched(p)' /\ (Good(n, p)' <=> Good(n, p))
          BY <1>1, <1>4, <3>2 DEF Sure, Untouched, Good
        <5> QED
          BY <4>1, <4>2, <5>1 DEF RecordedAt
      <4> QED
        BY <1>8, <1>9, <3>1, <3>2, <4>1, <4>3 DEF LeftInv
    <3>3. CASE SetPartly(Members(p), count, n) /\ warned' = warned \cup {p}
      <4>1. Puts(p, count)
        BY <3>3, SetPartlyPuts DEF LeftInv
      <4> QED
        BY <1>8, <1>9, <1>10, <3>1, <3>3, <4>1 DEF LeftInv
    <3> QED
      BY <3>1, <3>2, <3>3
  <2> QED
    BY <2>1, <2>2
<1> QED
  BY <1>2, <1>11, <1>12
-----------------------------------------------------------------------------
LEMMA StutterStep ==
  ASSUME LeftInv, UNCHANGED vars
  PROVE  LeftInv'
<1>1. UNCHANGED <<origin, excl, fs, snaps, points, took, warned, job>>
  BY DEF vars, hist
<1>2. Shape'
  BY <1>1, OriginSame, ShapeSame DEF LeftInv, Shape, SnapsOK, SnapOK
<1>3. Says'
  BY <1>1, SaysSame DEF LeftInv
<1>4. IsJob' /\ BackupOK' /\ BranchOK'
  <2>1. Expected(excl)' = Expected(excl)
    BY <1>1, SamePlans
  <2> QED
    BY <1>1, <2>1 DEF LeftInv, JobOK, IsJob, BackupOK, BranchOK, At
<1>5. DestroyOK'
  <2>1. /\ \A h : SnapOK(h)' <=> SnapOK(h)
        /\ \A p : Sure(p)' <=> Sure(p)
        /\ \A m, p : Good(m, p)' <=> Good(m, p)
        /\ \A p : Counted(p)' <=> Counted(p)
        /\ \A h : Took(h)' <=> Took(h)
        /\ (At("destroy")' <=> At("destroy")) /\ (At("rewrite")' <=> At("rewrite"))
    BY <1>1 DEF SnapOK, Sure, Good, Counted, Took, At
  <2>2. Losing(job.held, job.gone)' = Losing(job.held, job.gone)
    BY <1>1 DEF Losing
  <2>3. DestroyOK
    BY DEF LeftInv, JobOK
  <2> QED
    BY <1>1, <2>1, <2>2, <2>3 DEF DestroyOK
<1> QED
  BY <1>2, <1>3, <1>4, <1>5 DEF LeftInv, JobOK

LEMMA LeftStep ==
  ASSUME LeftInv, [Next]_vars
  PROVE  LeftInv'
<1>1. CASE Step
  BY <1>1, RecordStep, MarkCompleteStep, BranchCloneStep, BranchPromoteStep,
     BranchChildrenStep, EndSteps, DestroyTreeStep, RewriteStep DEF Step
<1>2. CASE Stop
  BY <1>2, EndSteps
<1>3. CASE UNCHANGED vars
  BY <1>3, StutterStep
<1>4. CASE \/ \E r \in {"data", "sub"} : \E what \in Whats(r) : Exclude(r, what) \/ Include(r, what)
           \/ UserClone \/ UserDestroy
           \/ \E t \in Rels : KeepHeld(t)
  <2>1. Set = {"data", "sub"}
    BY DEF Set
  <2> QED
    BY <1>4, <2>1, UserSteps
<1>5. ASSUME NEW reached, reached \subseteq Expected(excl), Backup(reached) PROVE LeftInv'
  BY <1>5, BackupStep
<1>6. ASSUME NEW r \in Rels, DestroyDiverged(r) \/ DestroyOrphan(r) \/ DestroyHeld(r)
      PROVE  LeftInv'
  BY <1>6, StartStep DEF DestroyDiverged, DestroyOrphan, DestroyHeld
<1>7. ASSUME NEW r \in Rels, Archive(r) PROVE LeftInv'
  BY <1>7, ArchiveStep
<1>8. ASSUME NEW r \in Rels, NEW c, Branch(r, c) \/ Rollback(r, c) PROVE LeftInv'
  BY <1>8, BranchStep, RollbackStep
<1> QED
  <2>1. ASSUME Next PROVE LeftInv'
    <3>1. CASE Step \/ Stop \/ Finished
      BY <1>1, <1>2, <1>3, <3>1 DEF Finished
    <3>2. CASE \/ \E r \in {"data", "sub"} : \E what \in Whats(r) : Exclude(r, what)
               \/ \E r \in {"data", "sub"} : \E what \in Whats(r) : More /\ Include(r, what)
               \/ UserClone \/ UserDestroy
               \/ \E t \in Rels : More /\ KeepHeld(t)
      BY <1>4, <3>2
    <3>3. CASE \/ Backup(Expected(excl))
               \/ \E r \in Expected(excl) : Backup(Expected(excl) \ Below(r))
      BY <1>5, <3>3
    <3>4. CASE \/ \E r \in Rels : DestroyDiverged(r) \/ DestroyOrphan(r)
               \/ \E t \in Rels : DestroyHeld(t)
      BY <1>6, <3>4
    <3>5. CASE \E r \in Rels : More /\ Archive(r)
      BY <1>7, <3>5
    <3>6. CASE \E r \in Rels, c \in DOMAIN points :
                 ((More \/ r = "data") /\ Branch(r, c)) \/ (More /\ Rollback(r, c))
      BY <1>8, <3>6
    <3> QED
      BY <2>1, <3>1, <3>2, <3>3, <3>4, <3>5, <3>6 DEF Next
  <2> QED
    BY <1>3, <2>1

LEMMA LeftInit ==
  ASSUME Init
  PROVE  LeftInv
<1>1. OriginOK
  BY DEF Init, OriginOK, FlagsSet, Rels, Set, Flags
<1>2. points = <<>> /\ snaps = {} /\ fs = <<>> /\ job = NoJob
  BY DEF Init
<1>3. DOMAIN points = {} /\ DOMAIN fs = {} /\ points \in Seq(PointRec)
  BY <1>2
<1>4. IsJob /\ BackupOK /\ BranchOK /\ DestroyOK
  BY <1>2 DEF NoJob, IsJob, BackupOK, BranchOK, DestroyOK, At
<1> QED
  BY <1>1, <1>2, <1>3, <1>4 DEF LeftInv, Shape, Says, JobOK, PointsOK, SnapsOK, RecordedOK,
     CountedOK, PresentOK
-----------------------------------------------------------------------------
(* What recover makes of a point.                                          *)

(* A dataset by itself, with the record m of point p.                      *)
ByItself(p, m, alone) ==
  \A r \in Rels :
    /\ Covers(m, r) => alone[r] = IF r \in LeftTops(m) THEN "empty"
                                  ELSE IF Covered(r, LeftTops(m)) THEN "below" ELSE "absent"
    /\ ~Covers(m, r) => IF \E s \in Members(p) : Name(s.at) = r THEN alone[r] = "own"
                        ELSE alone[r] \in {"absent", "older"}

Restores(p, alone) ==
  Restored(p) = [r \in Rels |-> IF \E u \in Above[r] : alone[u] = "absent"
                                THEN "absent" ELSE alone[r]]

LEMMA RestoredIs ==
  ASSUME NEW p
  PROVE  \E alone : ByItself(p, ReadPointMark(p), alone) /\ Restores(p, alone)
<1> DEFINE m == ReadPointMark(p)
           L == Listing
           C == RP!CompletePoints(L, 0)
           got(r) == RP!Resolve(L, RP!Members(L, p), r, C)
           alone == [r \in Rels |->
                       IF Covers(m, r)
                       THEN IF r \in LeftTops(m) THEN "empty"
                            ELSE IF Covered(r, LeftTops(m)) THEN "below" ELSE "absent"
                       ELSE IF \E s \in Members(p) : Name(s.at) = r THEN "own"
                       ELSE IF got(r) = {} THEN "absent" ELSE "older"]
<1>1. Restores(p, alone)
  BY DEF Restored, Restores
<1> HIDE DEF m, got
<1>2. ByItself(p, m, alone)
  BY DEF ByItself
<1> QED
  BY <1>1, <1>2 DEF m

(* The record of a point that has one on every snapshot.                   *)
LEMMA ReadIs ==
  ASSUME NEW p, NEW m, m.state = "read", Members(p) # {}, \A s \in Members(p) : s.rec = m
  PROVE  ReadPointMark(p) = m
<1> DEFINE recs == {s.rec : s \in Members(p)} \ {NoRecord}
<1>1. m # NoRecord /\ m # BadRecord
  BY DEF NoRecord, BadRecord, Empty
<1>2. recs = {m}
  BY <1>1
<1>3. Cardinality({m}) = 1
  BY FS_Singleton
<1>4. (CHOOSE r \in {m} : TRUE) = m
  OBVIOUS
<1> QED
  BY <1>1, <1>2, <1>3, <1>4 DEF ReadPointMark

LEMMA LeftOutTrue ==
  ASSUME LeftInv
  PROVE  LeftOut
<1> SUFFICES ASSUME NEW p \in DOMAIN points \ warned, points[p].recorded, Members(p) # {},
                    NEW r \in points[p].left
             PROVE  Restored(p)[r] \notin {"own", "older"}
  BY DEF LeftOut
<1>1. /\ \A s \in Members(p) : Good(s.rec, p)
      /\ \A s \in Members(p), u \in Members(p) : s.rec = u.rec
  BY DEF LeftInv, Says, RecordedOK, RecordedAt, Sure
<1>2. PICK m : Good(m, p) /\ \A s \in Members(p) : s.rec = m
  BY <1>1
<1>3. ReadPointMark(p) = m
  BY <1>2, ReadIs DEF Good
<1>4. Covers(m, r) /\ r \in Rels
  <2>1. points[p] \in PointRec
    BY ElementOfSeq, LenProperties DEF LeftInv, Shape, PointsOK
  <2> QED
    BY <1>2, <2>1 DEF Good, PointRec
<1>5. PICK alone : ByItself(p, m, alone) /\ Restores(p, alone)
  BY <1>3, RestoredIs
<1>6. alone[r] \in {"empty", "below", "absent"}
  BY <1>4, <1>5 DEF ByItself
<1>7. Restored(p)[r] \in {"absent", alone[r]}
  BY <1>4, <1>5 DEF Restores
<1> QED
  BY <1>6, <1>7

LEMMA CompleteCounted ==
  ASSUME NEW p \in Complete
  PROVE  \E s \in snaps : s.p = p /\ s.count # 0
<1> DEFINE L == Listing
<1>1. p \in RP!CompletePoints(L, 0)
  BY DEF Complete
<1>2. RP!LegacyComplete(L, 0) = {}
  BY DEF RP!LegacyComplete
<1>3. p \in RP!Marked(L)
  BY <1>1, <1>2 DEF RP!CompletePoints
<1>4. PICK l \in L : l.name = p /\ l.mark # 0
  BY <1>3 DEF RP!Marked, RP!PointsOf
<1> QED
  BY <1>4 DEF Listing

LEMMA RestoredTrue ==
  ASSUME LeftInv
  PROVE  ExclusionsRestored
<1> SUFFICES ASSUME NEW p \in Complete \ warned, \A r \in Rels : <<p, r>> \notin took
             PROVE  LET e   == points[p].excl
                        m   == ReadPointMark(p)
                        got == Restored(p)
                        has == {r \in Rels : got[r] \in {"own", "empty"}}
                        rep == LeftTops(m) \cap has
                        snp == {r \in has : \/ <<r, "both">> \in m.tops
                                            \/ <<r, "snapshots">> \in m.tops /\ got[r] = "own"}
                    IN  /\ \A r \in has : Covered(r, rep) <=> Covered(r, NoBackup(e))
                        /\ \A r \in has : Covered(r, snp) <=> Covered(r, NoSnapshot(e))
                        /\ \A r \in rep : "replicate" \in e[r]
                        /\ \A r \in snp : "snapshot" \in e[r]
  BY DEF ExclusionsRestored
<1>1. PICK s0 \in snaps : s0.p = p /\ s0.count # 0
  BY CompleteCounted
<1>2. /\ p \in DOMAIN points /\ s0 \in Members(p) /\ Sure(p) /\ Untouched(p)
      /\ ({"root"} \cup Set) \subseteq points[p].ran \cup points[p].left
  BY <1>1 DEF LeftInv, Shape, SnapsOK, SnapOK, Says, CountedOK, Counted, Members, Sure, Untouched
<1> DEFINE e == points[p].excl
<1>m. PICK m : m = Marks(e, points[p].left)
  OBVIOUS
<1>3. \A s \in Members(p) : s.rec = m
  BY <1>2, <1>m DEF LeftInv, Says, RecordedOK, RecordedAt
<1>4. ReadPointMark(p) = m
  BY <1>2, <1>3, <1>m, ReadIs DEF Marks
<1>5. PICK alone : ByItself(p, m, alone) /\ Restores(p, alone)
  BY <1>4, RestoredIs
<1> DEFINE nb == Tops(e, "replicate")
           ns == Tops(e, "snapshot")
           got == Restored(p)
           has == {r \in Rels : got[r] \in {"own", "empty"}}
           rep == LeftTops(m) \cap has
           snp == {r \in has : \/ <<r, "both">> \in m.tops
                               \/ <<r, "snapshots">> \in m.tops /\ got[r] = "own"}
<1>6. NoBackup(e) = nb /\ NoSnapshot(e) = ns /\ FlagsSet(e)
  BY <1>2, TopsAre DEF LeftInv, Shape, PointsOK
<1>7. /\ LeftTops(m) = nb
      /\ \A t : <<t, "both">> \in m.tops <=> t \in nb /\ "snapshot" \in e[t]
      /\ \A t : <<t, "snapshots">> \in m.tops <=> t \in ns \ nb
  <2>1. m.tops = {<<t, FlagsOf(e, t)>> : t \in nb} \cup {<<t, "snapshots">> : t \in ns \ nb}
    BY <1>m DEF Marks
  <2>2. \A t : /\ FlagsOf(e, t) \in {"both", "backups"}
               /\ FlagsOf(e, t) = "both" <=> "snapshot" \in e[t]
    BY DEF FlagsOf
  <2> HIDE DEF nb, ns, e
  <2>3. ASSUME NEW t, NEW f
        PROVE  <<t, f>> \in m.tops <=>
                 (t \in nb /\ f = FlagsOf(e, t)) \/ (t \in ns \ nb /\ f = "snapshots")
    BY <2>1
  <2>4. \A u \in m.tops : u = <<u[1], u[2]>>
    BY <2>1
  <2>5. ASSUME NEW t \in LeftTops(m) PROVE t \in nb
    <3>1. PICK u \in m.tops : u[2] # "snapshots" /\ u[1] = t
      BY DEF LeftTops
    <3> QED
      BY <2>3, <2>4, <3>1
  <2>6. ASSUME NEW t \in nb PROVE t \in LeftTops(m)
    <3>1. <<t, FlagsOf(e, t)>> \in m.tops /\ FlagsOf(e, t) # "snapshots"
      BY <2>2, <2>3
    <3> QED
      BY <3>1 DEF LeftTops
  <2>7. LeftTops(m) = nb
    BY <2>5, <2>6
  <2>8. \A t : <<t, "both">> \in m.tops <=> t \in nb /\ "snapshot" \in e[t]
    BY <2>2, <2>3
  <2>9. \A t : <<t, "snapshots">> \in m.tops <=> t \in ns \ nb
    BY <2>2, <2>3
  <2> QED
    BY <2>7, <2>8, <2>9
<1>8. \A r \in Rels : Covers(m, r) <=> Covered(r, nb)
  <2>1. m.sets = points[p].left
    BY <1>m DEF Marks
  <2>2. \A r \in points[p].left : Covered(r, nb)
    BY <1>2 DEF LeftInv, Shape, PointsOK
  <2> QED
    BY <1>7, <2>1, <2>2 DEF Covers
<1>9. \A r \in Set : ~Covered(r, nb) => \E s \in Members(p) : Name(s.at) = r
  <2> SUFFICES ASSUME NEW r \in Set, ~Covered(r, nb)
               PROVE  \E s \in Members(p) : Name(s.at) = r
    OBVIOUS
  <2>1. r \notin points[p].left
    BY <1>2 DEF LeftInv, Shape, PointsOK
  <2>2. r \in points[p].ran /\ r \in Rels
    BY <1>2, <2>1, NameSets
  <2>3. <<p, r>> \notin took
    BY <1>2, <2>2 DEF Untouched
  <2> QED
    BY <1>2, <2>2, <2>3 DEF LeftInv, Says, PresentOK, Members
<1>10. nb \subseteq Set /\ ns \subseteq Set
       /\ (\A t \in nb : "replicate" \in e[t]) /\ (\A t \in ns : "snapshot" \in e[t])
  BY DEF Tops
<1>11. \A r \in Rels : r \in Above[r] /\ Above[r] \subseteq Rels
                       /\ \A u \in Above[r] : Above[u] \subseteq Above[r]
  BY NameSets
<1>12. \A r \in Set : "snapshot" \in e[r] => Covered(r, ns)
  BY NameSets DEF Tops, Covered
(* A dataset that is made again has all above it made again.               *)
<1>13. \A r \in has : \A u \in Above[r] : got[u] = alone[u] /\ alone[u] # "absent"
  <2> SUFFICES ASSUME NEW r \in has, NEW u \in Above[r]
               PROVE  got[u] = alone[u] /\ alone[u] # "absent"
    OBVIOUS
  <2>1. r \in Rels /\ got[r] # "absent" /\ u \in Rels
    BY <1>11
  <2>2. \A v \in Above[r] : alone[v] # "absent"
    BY <1>5, <2>1 DEF Restores
  <2>3. got[u] = IF \E v \in Above[u] : alone[v] = "absent" THEN "absent" ELSE alone[u]
    BY <1>5, <2>1 DEF Restores
  <2> QED
    BY <1>11, <2>1, <2>2, <2>3
<1>14. \A r \in Rels : /\ r \in nb => alone[r] = "empty"
                       /\ r \notin nb /\ Covered(r, nb) => alone[r] = "below"
  BY <1>5, <1>7, <1>8, <1>11 DEF ByItself, Covered
<1> HIDE DEF nb, ns, got, e
<1>15. \A r \in has : Covered(r, rep) <=> Covered(r, nb)
  <2>1. ASSUME NEW r \in has, Covered(r, nb) PROVE Covered(r, rep)
    <3>1. r \in nb
      BY <1>11, <1>13, <1>14, <2>1
    <3> QED
      BY <1>7, <1>11, <3>1 DEF Covered
  <2> QED
    BY <1>7, <2>1 DEF Covered
<1>16. \A t \in snp : "snapshot" \in e[t] /\ t \in Set
  BY <1>7, <1>10
<1>17. \A r \in has : Covered(r, snp) <=> Covered(r, ns)
  <2>1. ASSUME NEW r \in has, Covered(r, snp) PROVE Covered(r, ns)
    <3>1. PICK u \in Above[r] : u \in snp
      BY <2>1 DEF Covered
    <3>2. Covered(u, ns)
      BY <1>12, <1>16, <3>1
    <3> QED
      BY <1>11, <3>1, <3>2 DEF Covered
  <2>2. ASSUME NEW r \in has, Covered(r, ns) PROVE Covered(r, snp)
    <3>1. PICK t \in Above[r] : t \in ns
      BY <2>2 DEF Covered
    <3>2. got[t] = alone[t] /\ alone[t] # "absent" /\ t \in Rels /\ t \in Set
      BY <1>10, <1>11, <1>13, <3>1
    <3>3. CASE t \in nb
      <4>1. t \in has
        BY <1>14, <3>2, <3>3
      <4>2. <<t, "both">> \in m.tops
        BY <1>7, <1>10, <3>1, <3>3
      <4> QED
        BY <3>1, <4>1, <4>2 DEF Covered
    <3>4. CASE t \notin nb /\ Covered(t, nb)
      <4>1. r = t
        <5>1. t = "sub"
          BY <1>10, <3>2, <3>4, NameSets DEF Covered
        <5> QED
          BY <3>1, <5>1, NameSets
      <4> QED
        BY <1>14, <3>2, <3>4, <4>1
    <3>5. CASE ~Covered(t, nb)
      <4>1. alone[t] = "own"
        BY <1>5, <1>8, <1>9, <3>2, <3>5 DEF ByItself
      <4>2. t \in has /\ got[t] = "own"
        BY <3>2, <4>1
      <4>3. <<t, "snapshots">> \in m.tops
        BY <1>7, <1>11, <3>1, <3>2, <3>5 DEF Covered
      <4> QED
        BY <3>1, <4>2, <4>3 DEF Covered
    <3> QED
      BY <3>3, <3>4, <3>5
  <2> QED
    BY <2>1, <2>2
<1>18. \A r \in rep : "replicate" \in e[r]
  BY <1>7, <1>10
<1> QED
  BY <1>4, <1>6, <1>15, <1>16, <1>17, <1>18 DEF got, e
-----------------------------------------------------------------------------
(* Recover leaves out what the point left out, and restores the flags it   *)
(* had (exclusions.record, rewrite_point, read_point_mark, build_plan).    *)
THEOREM LeavesOutHolds == Spec => []LeavesOut
<1>1. Init => LeftInv
  BY LeftInit
<1>2. LeftInv /\ [Next]_vars => LeftInv'
  BY LeftStep
<1>3. LeftInv => LeavesOut
  BY LeftOutTrue, RestoredTrue DEF LeavesOut
<1> QED
  BY <1>1, <1>2, <1>3, PTL DEF Spec
=============================================================================
