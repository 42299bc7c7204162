----------------------------- MODULE PolicyKept -----------------------------
(***************************************************************************)
(* Proofs of what zark setup promises, for any number of changes and       *)
(* faults: a section of the user's in sanoid.conf survives every rewrite,  *)
(* and SETUP COMPLETE is so (SetupKeeps of Policy); and for any tree of    *)
(* datasets, that sanoid.conf means what zark takes it to mean, in any     *)
(* order of its sections (PolicyTrue).                                     *)
(*                                                                         *)
(* Each step of setup adds one thing to what the steps before it left, and *)
(* nothing beside it takes that away unnoticed (Path).  The user's section *)
(* is in the file, or in the command's memory and in a copy while the file *)
(* is being written (Manual).  One rule covers each dataset, and what it   *)
(* is split into covers neither an excluded dataset nor a volume (Means);  *)
(* drained sections and the others do not reach each other's datasets      *)
(* (DrainedAlone).                                                         *)
(***************************************************************************)
EXTENDS Policy, TLAPS

Steps == {"", "deps", "boot", "read", "ask", "write", "text", "timer", "snapshots",
          "alerts", "enable", "complete"}

Sections == [at : Names, kind : {"none", "off", "minimal", "production", "drained"},
             rec : BOOLEAN]

JobType == [kind : {"none", "setup", "exclude"}, step : Steps, sets : SUBSET Names,
            drained : SUBSET Names, manual : BOOLEAN,
            failed : SUBSET {"timer", "alerts", "removed"}]

ConfType == [exists : BOOLEAN, sections : SUBSET Sections, templates : BOOLEAN,
             manual : BOOLEAN]

Types ==
  /\ sets \subseteq Names /\ flags \subseteq Names
  /\ running \in {Be1, Be2}
  /\ conf \in ConfType /\ copies \in BOOLEAN
  /\ sanoid \in [there : BOOLEAN, timer : BOOLEAN]
  /\ alerts \in [files : BOOLEAN, timer : BOOLEAN]
  /\ job \in JobType

(* What setup has brought about at each of its steps.                      *)
Late == {"timer", "snapshots", "alerts", "enable", "complete"}

Path ==
  /\ job.kind = "none" => job.step = ""
  /\ job.kind = "exclude" => job.step \in {"read", "ask", "write", "text"}
  /\ job.step = "text" => conf.exists
  /\ job.kind = "setup" /\ job.step # "deps" => sanoid.there
  /\ job.step \in Late => conf.exists
  /\ job.step \in Late \ {"timer"} => sanoid.timer \/ "timer" \in job.failed
  /\ job.step \in {"enable", "complete"} => alerts.files \/ "removed" \in job.failed
  /\ job.step = "complete" => alerts.timer \/ {"alerts", "removed"} \cap job.failed # {}

(* Where the section is that the user wrote.                               *)
Manual ==
  /\ owns = "kept" /\ ~At("text") => conf.manual
  /\ owns = "kept" /\ job.step \in {"ask", "write", "text"} => job.manual
  /\ owns \in {"kept", "late"} /\ job.step \in {"write", "text"} => copies
  /\ owns = "late" => conf.manual \/ copies

KeptInv == Types /\ Path /\ Manual
-----------------------------------------------------------------------------
(* The rules setup generates are sections.                                 *)
LEMMA SectionTypes ==
  ASSUME NEW d \in Names, NEW k \in {"none", "off", "minimal", "production", "drained"},
         NEW r \in BOOLEAN
  PROVE  Section(d, k, r) \in Sections
BY DEF Section, Sections

LEMMA ClassifyTypes ==
  ASSUME NEW ds \in SUBSET Names
  PROVE  Classified(ds) \subseteq Sections
<1>1. \A d \in ds : Classify(ds, d) = NoRule \/ Classify(ds, d) \in Sections
  <2> TAKE d \in ds
  <2>1. /\ Section(d, "off", FALSE) \in Sections /\ Section(d, "minimal", FALSE) \in Sections
        /\ Section(d, "production", TRUE) \in Sections
        /\ Section(d, "minimal", TRUE) \in Sections
    BY SectionTypes
  <2>2. \/ Classify(ds, d) = NoRule
        \/ Classify(ds, d) = Section(d, "off", FALSE)
        \/ Classify(ds, d) = Section(d, "minimal", FALSE)
        \/ Classify(ds, d) = Section(d, "production", TRUE)
        \/ Classify(ds, d) = Section(d, "minimal", TRUE)
    BY DEF Classify
  <2> QED
    BY <2>1, <2>2
<1> QED
  BY <1>1 DEF Classified

LEMMA ExpandTypes ==
  ASSUME NEW ds \in SUBSET Names, NEW rules, NEW drained, NEW over, NEW s \in Sections
  PROVE  Expand(ds, rules, drained, over, s) \subseteq Sections
<1> SUFFICES ASSUME NEW x \in Expand(ds, rules, drained, over, s)
             PROVE  x \in Sections
  OBVIOUS
<1>1. PICK d \in ds, b \in BOOLEAN :
        x = Section(d, "drained", TRUE) \/ x = Section(d, s.kind, b)
  BY DEF Expand, Sections
<1>2. d \in Names /\ s.kind \in {"none", "off", "minimal", "production", "drained"}
  BY DEF Sections
<1>3. Section(d, "drained", TRUE) \in Sections /\ Section(d, s.kind, b) \in Sections
  BY <1>2, SectionTypes
<1> QED
  BY <1>1, <1>3

LEMMA RulesTypes ==
  ASSUME NEW ds \in SUBSET Names, NEW drained \in SUBSET Names
  PROVE  Rules(ds, drained) \subseteq Sections
<1>1. Pruned(Classified(ds)) \subseteq Sections
  BY ClassifyTypes DEF Pruned
<1>2. ASSUME NEW rules \in SUBSET Sections, NEW over
      PROVE  SplitAround(ds, rules, drained, over) \subseteq Sections
  <2>1. \A t \in drained : Section(t, "drained", TRUE) \in Sections
    BY SectionTypes
  <2>2. \A s \in rules : Expand(ds, rules, drained, over, s) \subseteq Sections
    BY ExpandTypes
  <2> SUFFICES ASSUME NEW x \in SplitAround(ds, rules, drained, over)
               PROVE  x \in Sections
    OBVIOUS
  <2>3. \/ \E s \in rules : x \in Expand(ds, rules, drained, over, s)
        \/ x \in rules
        \/ \E t \in drained : x = Section(t, "drained", TRUE)
    BY DEF SplitAround
  <2> QED
    BY <2>1, <2>2, <2>3
<1> QED
  BY <1>1, <1>2 DEF Rules

LEMMA NamesHere ==
  /\ Be1 \in Names /\ Be2 \in Names
  /\ \A be \in {Be1, Be2} : BootCopy(be) \in Names
  /\ Movable \subseteq Names /\ First \subseteq Names
  /\ \A boot \in BOOLEAN : Fixed(boot) \subseteq Names
<1>1. Movable \subseteq Names /\ Be1 \in Movable /\ Be2 \in Movable /\ First \subseteq Movable
  BY OthersAssumption DEF Names, Movable
<1>2. \A be \in {Be1, Be2} : BootCopy(be) \in Names
  BY DEF Names, Copies
<1>3. \A boot \in BOOLEAN : Fixed(boot) \subseteq Names
  BY DEF Names, Fixed
<1> QED
  BY <1>1, <1>2, <1>3

(* What a move of a command leaves.                                        *)
LEMMA Moves ==
  ASSUME Types
  PROVE  /\ NoJob \in JobType /\ NoJob.kind = "none" /\ NoJob.step = ""
         /\ \A s \in Steps : Goto(s) =>
              /\ job' \in JobType /\ job'.kind = job.kind /\ job'.step = s
              /\ job'.manual = job.manual /\ job'.failed = job.failed
         /\ Crossed =>
              \/ job' = NoJob /\ job.kind = "none"
              \/ /\ job' \in JobType /\ job'.kind = job.kind /\ job'.step = job.step
                 /\ job'.manual = job.manual /\ job'.failed = job.failed \cup {"removed"}
<1>1. NoJob \in JobType /\ NoJob.kind = "none" /\ NoJob.step = ""
  BY DEF NoJob, JobType, Steps
<1>2. \A s \in Steps : Goto(s) =>
        /\ job' \in JobType /\ job'.kind = job.kind /\ job'.step = s
        /\ job'.manual = job.manual /\ job'.failed = job.failed
  BY DEF Goto, Types, JobType
<1>3. Crossed =>
        \/ job' = NoJob /\ job.kind = "none"
        \/ /\ job' \in JobType /\ job'.kind = job.kind /\ job'.step = job.step
           /\ job'.manual = job.manual /\ job'.failed = job.failed \cup {"removed"}
  BY DEF Crossed, Idle, Types, JobType
<1> QED
  BY <1>1, <1>2, <1>3

LEMMA ConfiguredMoves ==
  ASSUME Types, NEW goes \in BOOLEAN, Configured(goes)
  PROVE  /\ job' \in JobType
         /\ \/ job' = NoJob
            \/ /\ goes /\ job.kind = "setup" /\ job'.kind = "setup" /\ job'.step = "timer"
               /\ job'.failed = job.failed
<1>1. "timer" \in Steps
  BY DEF Steps
<1> QED
  BY <1>1, Moves DEF Configured
-----------------------------------------------------------------------------
LEMMA TypeStep == ASSUME Types, [Next]_vars PROVE Types'
<1> USE DEF sys, host, vars
<1>t. /\ sets \subseteq Names /\ flags \subseteq Names /\ running \in {Be1, Be2}
      /\ conf \in ConfType /\ copies \in BOOLEAN
      /\ sanoid \in [there : BOOLEAN, timer : BOOLEAN]
      /\ alerts \in [files : BOOLEAN, timer : BOOLEAN] /\ job \in JobType
  BY DEF Types
<1>1. CASE UNCHANGED vars \/ SanoidRuns
  BY <1>1 DEF Types, SanoidRuns
<1>2. CASE Dependencies \/ StartTimer
  <2>1. job' \in JobType
    <3>1. CASE job' = [job EXCEPT !.step = "snapshots", !.failed = {"timer"}]
      BY <3>1, <1>t DEF JobType, Steps
    <3>2. CASE Goto("boot") \/ Goto("snapshots") \/ job' = NoJob
      BY <3>2, Moves DEF Steps
    <3> QED
      BY <1>2, <3>1, <3>2 DEF Dependencies, StartTimer
  <2>2. sanoid' \in [there : BOOLEAN, timer : BOOLEAN]
    BY <1>2, <1>t DEF Dependencies, StartTimer
  <2> QED
    BY <1>2, <2>1, <2>2, <1>t DEF Dependencies, StartTimer, Types
<1>3. CASE KeepBoot
  <2>1. job' \in JobType
    BY <1>3, Moves DEF KeepBoot, Steps
  <2>2. sets' \subseteq Names
    BY <1>3, <1>t, NamesHere DEF KeepBoot
  <2> QED
    BY <1>3, <2>1, <2>2, <1>t DEF KeepBoot, Types
<1>4. CASE ReadOrigin
  <2>1. CASE job' = [job EXCEPT !.step = "ask", !.sets = sets, !.drained = NoSnapshot(flags),
                                !.manual = conf.manual]
    <3>1. NoSnapshot(flags) \subseteq Names /\ conf.manual \in BOOLEAN
      BY <1>t DEF NoSnapshot, ConfType
    <3>2. job' \in JobType
      BY <2>1, <3>1, <1>t DEF JobType, Steps
    <3> QED
      BY <1>4, <3>2, <1>t DEF ReadOrigin, Types
  <2>2. CASE Configured(TRUE) \/ job' = NoJob
    BY <1>4, <2>2, <1>t, ConfiguredMoves, Moves DEF ReadOrigin, Types
  <2> QED
    BY <1>4, <2>1, <2>2 DEF ReadOrigin
<1>5. CASE Decline
  <2>1. conf.exists \in BOOLEAN
    BY <1>t DEF ConfType
  <2> QED
    BY <1>5, <2>1, <1>t, ConfiguredMoves DEF Decline, Types
<1>6. CASE Accept
  <2>1. job' \in JobType
    BY <1>6, Moves DEF Accept, Steps
  <2>2. copies' \in BOOLEAN
    BY <1>6, <1>t DEF Accept
  <2> QED
    BY <1>6, <2>1, <2>2, <1>t DEF Accept, Types
<1>7. CASE Truncate
  <2>1. job' \in JobType
    BY <1>7, Moves DEF Truncate, Steps
  <2>2. conf' \in ConfType
    BY <1>7 DEF Truncate, NoConf, ConfType
  <2> QED
    BY <1>7, <2>1, <2>2, <1>t DEF Truncate, Types
<1>8. CASE Write
  <2>1. job' \in JobType
    BY <1>8, ConfiguredMoves DEF Write
  <2>2. conf' \in ConfType
    <3>1. job.sets \subseteq Names /\ job.drained \subseteq Names /\ job.manual \in BOOLEAN
      BY <1>t DEF JobType
    <3>2. Rules(job.sets, job.drained) \subseteq Sections
      BY <3>1, RulesTypes
    <3> QED
      BY <1>8, <3>1, <3>2 DEF Write, Generate, ConfType
  <2> QED
    BY <1>8, <2>1, <2>2, <1>t DEF Write, Types
<1>9. CASE InitialSnapshots \/ Complete \/ Stop
  <2>1. job' \in JobType
    BY <1>9, Moves DEF InitialSnapshots, Complete, Stop, Steps
  <2> QED
    BY <1>9, <2>1, <1>t DEF InitialSnapshots, Complete, Stop, Types
<1>10. CASE AlertFiles \/ AlertTimer
  <2>1. job' \in JobType
    <3>1. CASE job' = [job EXCEPT !.step = "complete", !.failed = @ \cup {"alerts"}]
      BY <3>1, <1>t DEF JobType, Steps
    <3>2. CASE Goto("complete") \/ Goto("enable")
      BY <3>2, Moves DEF Steps
    <3> QED
      BY <1>10, <3>1, <3>2 DEF AlertFiles, AlertTimer
  <2>2. alerts' \in [files : BOOLEAN, timer : BOOLEAN]
    BY <1>10, <1>t DEF AlertFiles, AlertTimer
  <2> QED
    BY <1>10, <2>1, <2>2, <1>t DEF AlertFiles, AlertTimer, Types
<1>11. CASE StartRemove \/ RemoveFiles
  <2>1. job' \in JobType
    BY <1>11, Moves DEF StartRemove, RemoveFiles
  <2>2. alerts' \in [files : BOOLEAN, timer : BOOLEAN]
    BY <1>11, <1>t DEF StartRemove, RemoveFiles
  <2> QED
    BY <1>11, <2>1, <2>2, <1>t DEF StartRemove, RemoveFiles, Types
<1>12. CASE StartSetup
  <2>1. job' \in JobType
    BY <1>12 DEF StartSetup, NoJob, JobType, Steps
  <2> QED
    BY <1>12, <2>1, <1>t DEF StartSetup, Types
<1>13. ASSUME NEW d \in Names, Exclude(d) \/ Include(d)
       PROVE  Types'
  <2>1. PICK f : Flag(f) /\ (f = flags \cup {d} \/ f = flags \ {d})
    BY <1>13 DEF Exclude, Include
  <2>2. job' \in JobType
    BY <2>1 DEF Flag, NoJob, JobType, Steps
  <2>3. flags' \subseteq Names
    BY <2>1, <1>t DEF Flag
  <2> QED
    BY <2>1, <2>2, <2>3, <1>t DEF Flag, Types
<1>14. ASSUME NEW d \in Names, Make(d) \/ Destroy(d)
       PROVE  Types'
  BY <1>14, <1>t DEF Make, Destroy, Types
<1>15. CASE AddSection \/ EditSection
  <2>1. conf' \in ConfType
    <3>1. CASE AddSection
      BY <3>1, <1>t DEF AddSection, ConfType
    <3>2. CASE EditSection
      BY <3>2, <1>t DEF EditSection, ConfType
    <3> QED
      BY <1>15, <3>1, <3>2
  <2> QED
    BY <1>15, <2>1, <1>t DEF AddSection, EditSection, Types
<1> QED
  BY <1>1, <1>2, <1>3, <1>4, <1>5, <1>6, <1>7, <1>8, <1>9, <1>10, <1>11, <1>12, <1>13, <1>14,
     <1>15
  DEF Next, Step
-----------------------------------------------------------------------------
(* Path: a step that ends the command, or comes to one that says nothing.  *)
LEMMA PathEnds ==
  ASSUME Types, job' = NoJob
  PROVE  Path'
BY Moves DEF Path, Late

LEMMA PathStep == ASSUME Types, Path, [Next]_vars PROVE Path'
<1> USE DEF sys, host, vars
<1>t. /\ conf \in ConfType /\ job \in JobType
      /\ sanoid \in [there : BOOLEAN, timer : BOOLEAN]
      /\ alerts \in [files : BOOLEAN, timer : BOOLEAN]
  BY DEF Types
<1>k. job.kind \in {"none", "setup", "exclude"}
  BY <1>t DEF JobType
<1>1. CASE UNCHANGED <<job, sanoid, alerts, conf>>
  BY <1>1 DEF Path
<1>2. CASE Dependencies
  <2>1. CASE sanoid' = [sanoid EXCEPT !.there = TRUE] /\ Goto("boot")
    <3>1. job'.step = "boot" /\ job'.kind = job.kind /\ sanoid'.there
      BY <2>1, <1>t, Moves DEF Steps
    <3> QED
      BY <1>2, <3>1, <1>k DEF Dependencies, At, Path, Late
  <2> QED
    BY <1>2, <2>1, PathEnds DEF Dependencies
<1>3. CASE KeepBoot
  <2>1. CASE Goto("read")
    <3>1. job'.step = "read" /\ job'.kind = job.kind
      BY <2>1, Moves DEF Steps
    <3> QED
      BY <1>3, <3>1, <1>k DEF KeepBoot, At, Path, Late
  <2> QED
    BY <1>3, <2>1, PathEnds DEF KeepBoot
<1>4. CASE Configured(TRUE) /\ conf'.exists /\ UNCHANGED <<sanoid, alerts>>
           /\ job.step \in {"read", "ask", "text"}
  BY <1>4, <1>k, PathEnds, ConfiguredMoves DEF Path, Late
<1>5. CASE ReadOrigin
  <2>1. CASE job' = [job EXCEPT !.step = "ask", !.sets = sets, !.drained = NoSnapshot(flags),
                                !.manual = conf.manual]
    <3>1. job'.step = "ask" /\ job'.kind = job.kind
      BY <2>1, <1>t DEF JobType
    <3> QED
      BY <1>5, <3>1, <1>k DEF ReadOrigin, At, Path, Late
  <2>2. CASE ~Gap /\ Configured(TRUE)
    BY <1>4, <1>5, <2>2 DEF ReadOrigin, At, Gap
  <2> QED
    BY <1>5, <2>1, <2>2, PathEnds DEF ReadOrigin
<1>6. CASE Decline
  <2>1. CASE conf.exists
    BY <1>4, <1>6, <2>1 DEF Decline, At
  <2>2. CASE ~conf.exists
    BY <1>6, <2>2, PathEnds DEF Decline, Configured
  <2> QED
    BY <2>1, <2>2
<1>7. CASE Accept
  <2>1. job'.step = "write" /\ job'.kind = job.kind
    BY <1>7, Moves DEF Accept, Steps
  <2> QED
    BY <1>7, <2>1, <1>k DEF Accept, At, Path, Late
<1>8. CASE Truncate
  <2>1. job'.step = "text" /\ job'.kind = job.kind
    BY <1>8, Moves DEF Truncate, Steps
  <2>2. conf'.exists
    BY <1>8 DEF Truncate, NoConf
  <2> QED
    BY <1>8, <2>1, <2>2, <1>k DEF Truncate, At, Path, Late
<1>9. CASE Write
  <2>1. conf'.exists
    BY <1>9 DEF Write, Generate
  <2> QED
    BY <1>4, <1>9, <2>1 DEF Write, At
<1>10. CASE StartTimer
  <2>1. /\ job'.step = "snapshots" /\ job'.kind = job.kind
        /\ sanoid'.timer \/ "timer" \in job'.failed
        /\ sanoid'.there = sanoid.there
    <3>1. CASE sanoid' = [sanoid EXCEPT !.timer = TRUE] /\ Goto("snapshots")
      BY <3>1, <1>t, Moves DEF Steps
    <3>2. CASE job' = [job EXCEPT !.step = "snapshots", !.failed = {"timer"}]
               /\ UNCHANGED sanoid
      BY <3>2, <1>t DEF JobType
    <3> QED
      BY <1>10, <3>1, <3>2 DEF StartTimer
  <2> QED
    BY <1>10, <2>1, <1>k DEF StartTimer, At, Path, Late
<1>11. CASE InitialSnapshots
  <2>1. job'.step = "alerts" /\ job'.kind = job.kind /\ job'.failed = job.failed
    BY <1>11, Moves DEF InitialSnapshots, Steps
  <2> QED
    BY <1>11, <2>1, <1>k DEF InitialSnapshots, At, Path, Late
<1>12. CASE AlertFiles
  <2>1. /\ job'.step \in {"enable", "complete"} /\ job'.kind = job.kind
        /\ job'.failed = job.failed
        /\ job'.step = "complete" => alerts.timer
    BY <1>12, Moves DEF AlertFiles, Steps
  <2>2. alerts'.files /\ alerts'.timer = alerts.timer
    BY <1>12, <1>t DEF AlertFiles
  <2> QED
    BY <1>12, <2>1, <2>2, <1>k DEF AlertFiles, At, Path, Late
<1>13. CASE AlertTimer
  <2>1. CASE alerts' = [alerts EXCEPT !.timer = TRUE] /\ Goto("complete")
    <3>1. /\ job'.step = "complete" /\ job'.kind = job.kind /\ job'.failed = job.failed
          /\ alerts'.timer /\ alerts'.files = alerts.files
      BY <2>1, <1>t, Moves DEF Steps
    <3> QED
      BY <1>13, <3>1, <1>k DEF AlertTimer, At, Path, Late
  <2>2. CASE job' = [job EXCEPT !.step = "complete", !.failed = @ \cup {"alerts"}]
             /\ UNCHANGED alerts
    <3>1. /\ job'.step = "complete" /\ job'.kind = job.kind
          /\ job'.failed = job.failed \cup {"alerts"}
      BY <2>2, <1>t DEF JobType
    <3> QED
      BY <1>13, <2>2, <3>1, <1>k DEF AlertTimer, At, Path, Late
  <2> QED
    BY <1>13, <2>1, <2>2 DEF AlertTimer
<1>14. CASE StartRemove \/ RemoveFiles
  <2>1. CASE job' = NoJob
    BY <2>1, PathEnds
  <2>2. CASE job'.kind = job.kind /\ job'.step = job.step
             /\ job'.failed = job.failed \cup {"removed"}
    BY <1>14, <2>2 DEF StartRemove, RemoveFiles, Path, Late
  <2> QED
    BY <1>14, <2>1, <2>2, Moves DEF StartRemove, RemoveFiles
<1>15. CASE StartSetup
  <2>1. job'.kind = "setup" /\ job'.step = "deps"
    BY <1>15 DEF StartSetup, NoJob
  <2> QED
    BY <2>1 DEF Path, Late
<1>16. ASSUME NEW d \in Names, Exclude(d) \/ Include(d)
       PROVE  Path'
  <2>1. job'.kind = "exclude" /\ job'.step = "read"
    BY <1>16 DEF Exclude, Include, Flag, NoJob
  <2> QED
    BY <2>1 DEF Path, Late
<1>17. CASE AddSection \/ EditSection
  <2>1. conf'.exists = conf.exists
    BY <1>17, <1>t DEF AddSection, EditSection, ConfType
  <2> QED
    BY <1>17, <2>1 DEF AddSection, EditSection, Path
<1>18. CASE Complete \/ Stop
  BY <1>18, PathEnds DEF Complete, Stop
<1>19. CASE SanoidRuns \/ \E d \in Names : Make(d) \/ Destroy(d)
  BY <1>1, <1>19 DEF SanoidRuns, Make, Destroy
<1> QED
  BY <1>1, <1>2, <1>3, <1>5, <1>6, <1>7, <1>8, <1>9, <1>10, <1>11, <1>12, <1>13, <1>14, <1>15,
     <1>16, <1>17, <1>18, <1>19
  DEF Next, Step
-----------------------------------------------------------------------------
(* Manual: what neither writes the file nor asks keeps it.                 *)
Asking == {"ask", "write", "text"}

LEMMA ManualSame ==
  ASSUME Manual, conf'.manual = conf.manual, copies' = copies, owns' = owns,
         job'.step \notin Asking, job.step # "text"
  PROVE  Manual'
BY DEF Manual, Asking, At

LEMMA ManualStep == ASSUME Types, Path, Manual, [Next]_vars PROVE Manual'
<1> USE DEF sys, host, vars
<1>t. conf \in ConfType /\ job \in JobType /\ copies \in BOOLEAN
  BY DEF Types
<1>n. NoJob.step \notin Asking
  BY Moves DEF Asking
<1>1. CASE UNCHANGED <<job, conf, copies, owns>>
  BY <1>1 DEF Manual, At
<1>2. CASE Dependencies \/ KeepBoot \/ InitialSnapshots \/ Complete
  <2>1. job'.step \notin Asking /\ job.step # "text"
    BY <1>2, <1>n, Moves
    DEF Dependencies, KeepBoot, InitialSnapshots, Complete, At, Steps, Asking
  <2> QED
    BY <1>2, <2>1, ManualSame DEF Dependencies, KeepBoot, InitialSnapshots, Complete
<1>3. CASE StartTimer \/ AlertFiles \/ AlertTimer
  <2>1. job'.step \notin Asking /\ job.step # "text"
    <3>1. CASE job' = [job EXCEPT !.step = "snapshots", !.failed = {"timer"}]
               \/ job' = [job EXCEPT !.step = "complete", !.failed = @ \cup {"alerts"}]
      BY <1>3, <3>1, <1>t DEF JobType, StartTimer, AlertFiles, AlertTimer, At, Asking
    <3>2. CASE Goto("snapshots") \/ Goto("complete") \/ Goto("enable")
      BY <1>3, <3>2, Moves DEF Steps, StartTimer, AlertFiles, AlertTimer, At, Asking
    <3> QED
      BY <1>3, <3>1, <3>2 DEF StartTimer, AlertFiles, AlertTimer
  <2> QED
    BY <1>3, <2>1, ManualSame DEF StartTimer, AlertFiles, AlertTimer
<1>4. CASE ReadOrigin
  <2>1. job.step = "read" /\ UNCHANGED <<conf, copies, owns>>
    BY <1>4 DEF ReadOrigin, At
  <2>2. CASE job' = [job EXCEPT !.step = "ask", !.sets = sets, !.drained = NoSnapshot(flags),
                                !.manual = conf.manual]
    <3>1. job'.step = "ask" /\ job'.manual = conf.manual
      BY <2>2, <1>t DEF JobType
    <3> QED
      BY <2>1, <3>1 DEF Manual, At
  <2>3. CASE Configured(TRUE) \/ job' = NoJob
    <3>1. job'.step \notin Asking
      BY <2>3, <1>n, ConfiguredMoves DEF Asking
    <3> QED
      BY <2>1, <3>1, ManualSame
  <2> QED
    BY <1>4, <2>2, <2>3 DEF ReadOrigin
<1>5. CASE Decline
  <2>1. job'.step \notin Asking
    BY <1>5, <1>n, <1>t, ConfiguredMoves DEF Decline, Asking, ConfType
  <2> QED
    BY <1>5, <2>1, ManualSame DEF Decline, At
<1>6. CASE Accept
  <2>1. job'.step = "write" /\ job'.manual = job.manual /\ job.step = "ask" /\ conf' = conf
    BY <1>6, Moves DEF Accept, At, Steps
  <2>2. CASE copies' = (copies \/ conf.manual) /\ UNCHANGED owns
    BY <2>1, <2>2, <1>t DEF Manual, At
  <2>3. CASE UNCHANGED copies /\ owns' = IF conf.manual /\ ~copies THEN "uncopied" ELSE owns
    BY <2>1, <2>3, <1>t DEF Manual, At
  <2> QED
    BY <1>6, <2>2, <2>3 DEF Accept
<1>7. CASE Truncate
  <2>1. job'.step = "text" /\ job'.manual = job.manual /\ job.step = "write"
    BY <1>7, Moves DEF Truncate, At, Steps
  <2> QED
    BY <1>7, <2>1 DEF Truncate, Manual, At
<1>8. CASE Write
  <2>1. job'.step \notin Asking /\ job.step = "text"
    BY <1>8, <1>n, ConfiguredMoves DEF Write, Asking, At
  <2>2. conf'.manual = job.manual /\ UNCHANGED <<copies, owns>>
    BY <1>8 DEF Write, Generate
  <2> QED
    BY <2>1, <2>2 DEF Manual, At, Asking
<1>9. CASE StartRemove \/ RemoveFiles
  <2>1. UNCHANGED <<conf, copies, owns>>
    BY <1>9 DEF StartRemove, RemoveFiles
  <2>2. CASE job' = NoJob /\ job.kind = "none"
    BY <1>n, <2>1, <2>2, ManualSame DEF Path
  <2>3. CASE job'.step = job.step /\ job'.manual = job.manual
    BY <2>1, <2>3 DEF Manual, At
  <2> QED
    BY <1>9, <2>2, <2>3, Moves DEF StartRemove, RemoveFiles
<1>10. CASE StartSetup
  <2>1. job'.step = "deps" /\ job.step # "text"
    BY <1>10 DEF StartSetup, NoJob, Path, Idle
  <2> QED
    BY <1>10, <2>1, ManualSame DEF StartSetup, Asking
<1>11. ASSUME NEW d \in Names, Exclude(d) \/ Include(d)
       PROVE  Manual'
  <2>1. job'.step = "read" /\ job.step # "text" /\ UNCHANGED <<conf, copies, owns>>
    BY <1>11 DEF Exclude, Include, Flag, NoJob, Path, Idle
  <2> QED
    BY <2>1, ManualSame DEF Asking
<1>12. CASE AddSection
  <2>1. conf'.manual /\ UNCHANGED <<job, copies>> /\ ~conf.manual
    BY <1>12, <1>t DEF AddSection, ConfType
  <2>2. CASE Idle
    BY <1>12, <2>1, <2>2 DEF AddSection, Manual, At, Path, Idle
  <2>3. CASE ~Idle
    <3>1. owns' = "late" /\ job.step = "ask"
      BY <1>12, <2>3 DEF AddSection, Waiting, At
    <3> QED
      BY <2>1, <3>1 DEF Manual, At
  <2> QED
    BY <2>2, <2>3
<1>13. CASE EditSection
  <2>1. conf'.manual = conf.manual
    BY <1>13, <1>t DEF EditSection, ConfType
  <2> QED
    BY <1>13, <2>1 DEF EditSection, Manual, At
<1>14. CASE Stop
  <2>1. job'.step \notin Asking /\ UNCHANGED <<conf, copies>>
    BY <1>14, <1>n DEF Stop
  <2>2. CASE job.step = "text"
    <3>1. owns' = IF owns = "kept" THEN "late" ELSE owns
      BY <1>14, <2>2 DEF Stop, At
    <3>2. owns' # "kept" /\ (owns' = "late" => owns \in {"kept", "late"})
      BY <3>1
    <3>3. owns' = "late" => copies
      BY <2>2, <3>2 DEF Manual
    <3> QED
      BY <2>1, <3>2, <3>3 DEF Manual, Asking
  <2>3. CASE job.step # "text"
    BY <1>14, <2>1, <2>3, ManualSame DEF Stop, At
  <2> QED
    BY <2>2, <2>3
<1>15. CASE SanoidRuns \/ \E d \in Names : Make(d) \/ Destroy(d)
  BY <1>1, <1>15 DEF SanoidRuns, Make, Destroy
<1> QED
  BY <1>1, <1>2, <1>3, <1>4, <1>5, <1>6, <1>7, <1>8, <1>9, <1>10, <1>11, <1>12, <1>13, <1>14,
     <1>15
  DEF Next, Step
-----------------------------------------------------------------------------
LEMMA Beginning == ASSUME Init PROVE KeptInv
<1>1. Types
  <2>1. sets \subseteq Names /\ running \in {Be1, Be2}
    BY NamesHere DEF Init
  <2>2. conf \in ConfType
    BY DEF Init, NoConf, ConfType
  <2>3. job \in JobType
    BY DEF Init, NoJob, JobType, Steps
  <2> QED
    BY <2>1, <2>2, <2>3 DEF Init, Types
<1>2. Path
  BY DEF Init, NoJob, Path, Late
<1>3. Manual
  BY DEF Init, NoJob, Manual
<1> QED
  BY <1>1, <1>2, <1>3 DEF KeptInv

LEMMA KeptHolds == Spec => []KeptInv
<1>1. KeptInv /\ [Next]_vars => KeptInv'
  BY TypeStep, PathStep, ManualStep DEF KeptInv
<1> QED
  BY <1>1, Beginning, PTL DEF Spec

(* A section the user wrote in sanoid.conf survives every rewrite of it by *)
(* zark setup and zark exclude, in the file or in its copy, and SETUP      *)
(* COMPLETE says nothing that is not so, whatever failed, was killed, was  *)
(* edited or was removed before it or beside it (commands/setup.py,        *)
(* lib/alerts.py); for any number of changes and faults.                   *)
THEOREM SetupHolds == Spec => []SetupKeeps
<1>1. KeptInv => SetupKeeps
  <2> SUFFICES ASSUME KeptInv PROVE SetupKeeps
    OBVIOUS
  <2>1. ManualKept
    BY DEF KeptInv, Manual, ManualKept
  <2>2. SetupTrue
    <3> SUFFICES ASSUME job.step = "complete"
                 PROVE  /\ sanoid.there /\ conf.exists
                        /\ sanoid.timer \/ "timer" \in job.failed
                        /\ alerts.files \/ "removed" \in job.failed
                        /\ alerts.timer \/ {"alerts", "removed"} \cap job.failed # {}
      BY DEF SetupTrue, At
    <3>1. job.kind = "setup"
      BY DEF KeptInv, Types, JobType, Path
    <3> QED
      BY <3>1 DEF KeptInv, Path, Late
  <2> QED
    BY <2>1, <2>2 DEF SetupKeeps
<1> QED
  BY <1>1, KeptHolds, PTL
-----------------------------------------------------------------------------
(* The tree of datasets.                                                   *)
LEMMA Tree ==
  /\ \A d \in Names : Under(d, d)
  /\ \A d, t, u \in Names : Under(d, t) /\ Under(t, u) => Under(d, u)
  /\ \A d, t \in Names : Under(d, t) /\ Under(t, d) => d = t
  /\ \A d, t, u \in Names : Under(d, t) /\ Under(d, u) => Under(t, u) \/ Under(u, t)
  /\ \A d \in Names : Above[d] \subseteq Names
<1>1. /\ \A d \in Names : Above[d] \subseteq Names
      /\ \A d \in Names : d \in Above[d]
  BY DEF Above
<1>2. \A d, t, u \in Names : Under(d, t) /\ Under(t, u) => Under(d, u)
  BY TreeAssumption DEF Under
<1>3. \A d, t \in Names : Under(d, t) /\ Under(t, d) => d = t
  BY TreeAssumption DEF Under
<1>4. ASSUME NEW d \in Names, NEW t \in Names, NEW u \in Names, Under(d, t), Under(d, u)
      PROVE  Under(t, u) \/ Under(u, t)
  <2>1. {t, u} \in SUBSET Above[d] /\ {t, u} # {}
    BY <1>4 DEF Under
  <2>2. \A ts \in SUBSET Above[d] :
          ts = {} \/ \E top, end \in ts : \A x \in ts : top \in Above[x] /\ x \in Above[end]
    BY TreeAssumption
  <2>3. \E top, end \in {t, u} : \A x \in {t, u} : top \in Above[x] /\ x \in Above[end]
    BY <2>1, <2>2
  <2> QED
    BY <2>3 DEF Under
<1> QED
  BY <1>1, <1>2, <1>3, <1>4 DEF Under

(* Of datasets on one path one is the highest and one the lowest.          *)
LEMMA Ends ==
  ASSUME NEW d \in Names, NEW ts \in SUBSET Names, ts # {}, \A t \in ts : Under(d, t)
  PROVE  /\ \E top \in ts : \A t \in ts : Under(t, top)
         /\ \E end \in ts : \A t \in ts : Under(end, t)
<1>1. ts \in SUBSET Above[d]
  BY DEF Under
<1>2. \A us \in SUBSET Above[d] :
        us = {} \/ \E top, end \in us : \A t \in us : top \in Above[t] /\ t \in Above[end]
  BY TreeAssumption
<1>3. \E top, end \in ts : \A t \in ts : top \in Above[t] /\ t \in Above[end]
  BY <1>1, <1>2
<1> QED
  BY <1>3 DEF Under

(* Closed: with a dataset there are those its path goes through.           *)
Closed(ds) == ds \subseteq Names /\ \A d \in ds : Above[d] \subseteq ds

(* Where setup's rules begin: production on these, minimal on the highest  *)
(* datasets apart from them.                                               *)
Crowns(ds) == {UbuntuDs(ds), Userdata, BpoolBoot}
Plain == {Rpool, Bpool, Root}
Regions == {Root, Userdata, BpoolBoot}
Apart(d) == d \notin Plain \cup Zvols /\ \A p \in Regions : ~Under(d, p)

LEMMA Roles ==
  /\ Rpool \in Names /\ Bpool \in Names /\ Root \in Names
  /\ Be1 \in Names /\ Be2 \in Names /\ Userdata \in Names /\ BpoolBoot \in Names
  /\ Rpool \notin Zvols /\ Bpool \notin Zvols /\ Root \notin Zvols /\ Userdata \notin Zvols
  /\ Be1 \notin Zvols /\ Be2 \notin Zvols /\ BpoolBoot \notin Zvols
  /\ {Be1, Be2, Userdata, BpoolBoot} \cap Plain = {}
  /\ {Be1, Be2} \cap {Userdata, BpoolBoot} = {} /\ Userdata # BpoolBoot
  /\ Zvols \subseteq Names
<1>1. /\ Rpool \in Names /\ Bpool \in Names /\ Root \in Names
      /\ Be1 \in Names /\ Be2 \in Names /\ Userdata \in Names /\ BpoolBoot \in Names
  BY DEF Names, Fixed, Movable
<1>2. /\ Rpool \notin Zvols /\ Bpool \notin Zvols /\ Root \notin Zvols /\ Userdata \notin Zvols
      /\ Be1 \notin Zvols /\ Be2 \notin Zvols /\ BpoolBoot \notin Zvols
  BY OthersAssumption DEF Fixed
<1>3. Zvols \subseteq Names
  BY OthersAssumption DEF Names, Movable
<1>4. /\ {Be1, Be2, Userdata, BpoolBoot} \cap Plain = {}
      /\ {Be1, Be2} \cap {Userdata, BpoolBoot} = {} /\ Userdata # BpoolBoot
  BY DEF Plain, Rpool, Bpool, Root, Be1, Be2, Userdata, BpoolBoot
<1> QED
  BY <1>1, <1>2, <1>3, <1>4

LEMMA Places ==
  ASSUME NEW ds
  PROVE  /\ \A p \in Plain, u \in Names : Under(p, u) => u \in Plain
         /\ \A c \in Crowns(ds), u \in Names : Under(c, u) => u = c \/ u \in Plain
         /\ Under(UbuntuDs(ds), Root)
         /\ \A z \in Zvols, d \in Names : Under(d, z) => d = z
         /\ Crowns(ds) \subseteq Names /\ Plain \subseteq Names
         /\ Crowns(ds) \cap (Plain \cup Zvols) = {} /\ Plain \cap Zvols = {}
         /\ \A c \in Crowns(ds) : ~Apart(c)
<1>0. UbuntuDs(ds) \in {Be1, Be2}
  BY DEF UbuntuDs
<1>1. \A p \in Plain, u \in Names : Under(p, u) => u \in Plain
  BY PlacesAssumption DEF Under, Plain, Tops
<1>2. \A c \in Crowns(ds), u \in Names : Under(c, u) => u = c \/ u \in Plain
  BY <1>0, PlacesAssumption DEF Under, Plain, Crowns
<1>3. Under(UbuntuDs(ds), Root)
  BY <1>0, PlacesAssumption DEF Under
<1>4. \A z \in Zvols, d \in Names : Under(d, z) => d = z
  BY PlacesAssumption DEF Under
<1>5. /\ Crowns(ds) \subseteq Names /\ Plain \subseteq Names
      /\ Crowns(ds) \cap (Plain \cup Zvols) = {} /\ Plain \cap Zvols = {}
  BY <1>0, Roles DEF Crowns, Plain
<1>6. \A c \in Crowns(ds) : ~Apart(c)
  BY <1>0, <1>3, Tree, Roles DEF Apart, Crowns, Regions
<1> QED
  BY <1>1, <1>2, <1>3, <1>4, <1>5, <1>6

LEMMA Classes ==
  ASSUME NEW ds \in SUBSET Names, NEW d \in ds
  PROVE  /\ d \in Zvols => Classify(ds, d) = Section(d, "off", FALSE)
         /\ d \in Plain => Classify(ds, d) = Section(d, "minimal", FALSE)
         /\ d \in Crowns(ds) => Classify(ds, d) = Section(d, "production", TRUE)
         /\ Apart(d) => Classify(ds, d) = Section(d, "minimal", TRUE)
         /\ d \notin Zvols \cup Plain \cup Crowns(ds) /\ ~Apart(d) => Classify(ds, d) = NoRule
<1> USE DEF Classify
<1>1. d \in Zvols => Classify(ds, d) = Section(d, "off", FALSE)
  OBVIOUS
<1>2. d \in Plain => Classify(ds, d) = Section(d, "minimal", FALSE)
  BY Places DEF Plain, Tops
<1>3. d \in Crowns(ds) => Classify(ds, d) = Section(d, "production", TRUE)
  BY Places DEF Crowns, Plain, Tops
<1>4. Apart(d) => Classify(ds, d) = Section(d, "minimal", TRUE)
  <2> SUFFICES ASSUME Apart(d) PROVE Classify(ds, d) = Section(d, "minimal", TRUE)
    OBVIOUS
  <2>1. d \notin Zvols /\ d \notin Tops \cup {Root} /\ d \notin Crowns(ds)
    BY Places DEF Apart, Plain, Tops
  <2>2. ~Below(d, Root) /\ ~Below(d, Userdata) /\ ~Below(d, BpoolBoot)
    BY DEF Apart, Regions, Below
  <2> QED
    BY <2>1, <2>2 DEF Crowns
<1>5. d \notin Zvols \cup Plain \cup Crowns(ds) /\ ~Apart(d) => Classify(ds, d) = NoRule
  <2> SUFFICES ASSUME d \notin Zvols \cup Plain \cup Crowns(ds), ~Apart(d)
               PROVE  Classify(ds, d) = NoRule
    OBVIOUS
  <2>1. Below(d, Root) \/ Below(d, Userdata) \/ Below(d, BpoolBoot)
    BY DEF Apart, Regions, Below, Plain, Crowns
  <2> QED
    BY <2>1 DEF Plain, Tops, Crowns
<1> QED
  BY <1>1, <1>2, <1>3, <1>4, <1>5
-----------------------------------------------------------------------------
(* The rules as they are classified, and those that are kept.              *)
Kept(ds) == Pruned(Classified(ds))
Volume(s) == s.at \in Zvols /\ s.kind = "off" /\ s.rec = FALSE
Holder(s) == s.at \in Plain /\ s.kind = "minimal" /\ s.rec = FALSE
Crown(ds, s) == s.at \in Crowns(ds) /\ s.kind = "production" /\ s.rec = TRUE
Spare(s) == Apart(s.at) /\ s.kind = "minimal" /\ s.rec = TRUE

LEMMA ClassifiedIs ==
  ASSUME NEW ds \in SUBSET Names
  PROVE  /\ \A s \in Classified(ds) :
              /\ s.at \in ds /\ s.at \in Names /\ s = Classify(ds, s.at)
              /\ Volume(s) \/ Holder(s) \/ Crown(ds, s) \/ Spare(s)
         /\ \A d \in ds : d \in Zvols \cup Plain \cup Crowns(ds) \/ Apart(d) =>
              Classify(ds, d) \in Classified(ds) /\ Classify(ds, d).at = d
<1> USE DEF Section
<1>1. ASSUME NEW s \in Classified(ds)
      PROVE  /\ s.at \in ds /\ s.at \in Names /\ s = Classify(ds, s.at)
             /\ Volume(s) \/ Holder(s) \/ Crown(ds, s) \/ Spare(s)
  <2>1. PICK d \in ds : s = Classify(ds, d) /\ s # NoRule
    BY DEF Classified
  <2>2. CASE d \in Zvols
    BY <2>1, <2>2, Classes DEF Volume
  <2>3. CASE d \in Plain
    BY <2>1, <2>3, Classes DEF Holder
  <2>4. CASE d \in Crowns(ds)
    BY <2>1, <2>4, Classes DEF Crown
  <2>5. CASE Apart(d)
    <3>1. s = Section(d, "minimal", TRUE)
      BY <2>1, <2>5, Classes
    <3>2. s.at = d /\ s.kind = "minimal" /\ s.rec = TRUE
      BY <3>1
    <3>3. Spare(s)
      BY <2>5, <3>2 DEF Spare
    <3> QED
      BY <2>1, <3>2, <3>3
  <2> QED
    BY <2>1, <2>2, <2>3, <2>4, <2>5, Classes
<1>2. ASSUME NEW d \in ds, d \in Zvols \cup Plain \cup Crowns(ds) \/ Apart(d)
      PROVE  Classify(ds, d) \in Classified(ds) /\ Classify(ds, d).at = d
  <2>1. /\ Classify(ds, d).at = d
        /\ Classify(ds, d).kind \in {"off", "minimal", "production"}
    BY <1>2, Classes
  <2>2. NoRule.kind = "none"
    BY DEF NoRule
  <2> QED
    BY <2>1, <2>2 DEF Classified
<1> QED
  BY <1>1, <1>2

LEMMA Nearest ==
  ASSUME NEW rules, \A s \in rules : s.at \in Names, NEW d \in Names,
         NEW u \in rules, u.rec, Below(d, u.at)
  PROVE  RecursiveAbove(rules, d) # {}
<1> DEFINE above == {s \in rules : s.rec /\ Below(d, s.at)}
           ts == {s.at : s \in above}
<1>1. ts \in SUBSET Names /\ ts # {} /\ \A t \in ts : Under(d, t)
  BY DEF Below
<1>2. PICK end \in ts : \A t \in ts : Under(end, t)
  BY <1>1, Ends
<1>3. PICK n \in above : n.at = end
  BY <1>2
<1>4. n \in RecursiveAbove(rules, d)
  BY <1>2, <1>3 DEF RecursiveAbove
<1> QED
  BY <1>4

(* No kept rule is inside a recursive one but those of volumes.            *)
LEMMA KeptAlone ==
  ASSUME NEW ds \in SUBSET Names, NEW s \in Classified(ds)
  PROVE  /\ ~s.rec => s \in Kept(ds)
         /\ s.rec => (s \in Kept(ds) <=> \A u \in Classified(ds) : u.rec => ~Below(s.at, u.at))
<1>r. \A n \in RecursiveAbove(Classified(ds), s.at) :
        n \in Classified(ds) /\ n.rec /\ Below(s.at, n.at)
  BY DEF RecursiveAbove
<1>1. ~s.rec => s \in Kept(ds)
  BY <1>r DEF Kept, Pruned, SameRule
<1>2. ASSUME s.rec, \A u \in Classified(ds) : u.rec => ~Below(s.at, u.at)
      PROVE  s \in Kept(ds)
  BY <1>r, <1>2 DEF Kept, Pruned
<1>3. ASSUME s.rec, s \in Kept(ds), NEW u \in Classified(ds), u.rec, Below(s.at, u.at)
      PROVE  FALSE
  <2>1. RecursiveAbove(Classified(ds), s.at) # {}
    <3>1. s.at \in Names /\ \A x \in Classified(ds) : x.at \in Names
      BY ClassifiedIs
    <3> QED
      BY <1>3, <3>1, Nearest
  <2>2. PICK n \in RecursiveAbove(Classified(ds), s.at) : TRUE
    BY <2>1
  <2>3. n \in Classified(ds) /\ n.rec /\ Under(s.at, n.at) /\ s.at # n.at
    BY <1>r DEF Below
  <2>4. ~SameRule(s, n)
    BY <1>3, <2>2 DEF Kept, Pruned
  <2>5. /\ s.at \in Names /\ n.at \in Names
        /\ Crown(ds, s) \/ Spare(s)
        /\ Crown(ds, n) \/ Spare(n)
    BY <1>3, <2>3, ClassifiedIs DEF Volume, Holder
  <2>6. CASE Crown(ds, s)
    <3>1. n.at \in Plain
      BY <2>3, <2>5, <2>6, Places DEF Crown
    <3> QED
      BY <2>5, <3>1, Places DEF Crown, Spare, Apart
  <2>7. CASE Spare(s) /\ Crown(ds, n)
    <3>1. PICK p \in Regions : Under(n.at, p)
      BY <2>7, Places, Tree, Roles DEF Crown, Crowns, Regions
    <3>2. p \in Names
      BY Roles DEF Regions
    <3>3. Under(s.at, p)
      BY <2>3, <2>5, <3>1, <3>2, Tree
    <3> QED
      BY <2>7, <3>1, <3>3 DEF Spare, Apart
  <2>8. CASE Spare(s) /\ Spare(n)
    BY <2>4, <2>8 DEF SameRule, Spare
  <2> QED
    BY <2>5, <2>6, <2>7, <2>8
<1> QED
  BY <1>1, <1>2, <1>3

(* A dataset apart from the crowns has what is below it apart from them.   *)
LEMMA StaysApart ==
  ASSUME NEW ds, NEW t \in Names, Apart(t), NEW d \in Names, Under(d, t)
  PROVE  /\ d \notin Zvols => Apart(d)
         /\ \A c \in Crowns(ds) : ~Under(d, c)
<1>1. \A c \in Crowns(ds) : \E p \in Regions : Under(c, p)
  BY Places, Tree, Roles DEF Crowns, Regions
<1>2. d \notin Plain
  BY Places DEF Apart
<1>3. ASSUME NEW p \in Regions, Under(d, p) PROVE FALSE
  <2>1. p \in Names
    BY Roles DEF Regions
  <2>2. Under(p, t)
    BY <1>3, <2>1, Tree DEF Apart
  <2>3. p \in Plain \/ p \in Crowns(ds)
    BY DEF Regions, Plain, Crowns
  <2>4. t = p \/ t \in Plain
    BY <2>2, <2>3, Places
  <2> QED
    BY <2>1, <2>4, Tree DEF Apart
<1>4. ASSUME NEW c \in Crowns(ds), Under(d, c) PROVE FALSE
  <2>1. PICK p \in Regions : Under(c, p)
    BY <1>1
  <2>2. p \in Names /\ c \in Names
    BY Roles, Places DEF Regions
  <2> QED
    BY <1>3, <1>4, <2>1, <2>2, Tree
<1> QED
  BY <1>2, <1>3, <1>4 DEF Apart
(* Of the recursive rules that are kept, at most one covers a dataset.     *)
LEMMA OneCovers ==
  ASSUME NEW ds \in SUBSET Names, NEW d \in Names,
         NEW s \in Kept(ds), NEW u \in Kept(ds), s.rec, u.rec, Under(d, s.at), Under(d, u.at)
  PROVE  s = u
<1>1. s \in Classified(ds) /\ u \in Classified(ds)
  BY DEF Kept, Pruned
<1>2. s.at \in Names /\ u.at \in Names /\ s = Classify(ds, s.at) /\ u = Classify(ds, u.at)
  BY <1>1, ClassifiedIs
<1>3. Under(s.at, u.at) \/ Under(u.at, s.at)
  BY <1>2, Tree
<1>4. ~Below(s.at, u.at) /\ ~Below(u.at, s.at)
  BY <1>1, KeptAlone
<1> QED
  BY <1>2, <1>3, <1>4 DEF Below

(* What it says of the dataset.                                            *)
LEMMA Covering ==
  ASSUME NEW ds \in SUBSET Names, NEW s \in Kept(ds), s.rec,
         NEW d \in Names \ Zvols, Under(d, s.at)
  PROVE  /\ d \notin Plain
         /\ \/ s.kind = "production" /\ \E c \in Crowns(ds) : Under(d, c)
            \/ s.kind = "minimal" /\ Apart(d) /\ \A c \in Crowns(ds) : ~Under(d, c)
<1>1. s \in Classified(ds)
  BY DEF Kept, Pruned
<1>2. s.at \in Names /\ (Crown(ds, s) \/ Spare(s))
  BY <1>1, ClassifiedIs DEF Volume, Holder
<1>3. CASE Crown(ds, s)
  <2>1. s.kind = "production" /\ s.at \in Crowns(ds) /\ s.at \notin Plain
    BY <1>3, Places DEF Crown
  <2> QED
    BY <1>2, <2>1, Places
<1>4. CASE Spare(s)
  <2>1. s.kind = "minimal" /\ Apart(d) /\ \A c \in Crowns(ds) : ~Under(d, c)
    BY <1>2, <1>4, StaysApart DEF Spare
  <2> QED
    BY <2>1 DEF Apart
<1> QED
  BY <1>2, <1>3, <1>4

(* One covers whatever is below a crown or apart from the crowns.          *)
LEMMA Covers ==
  ASSUME NEW ds, Closed(ds), NEW d \in ds,
         Apart(d) \/ \E c \in Crowns(ds) : Under(d, c)
  PROVE  \E s \in Kept(ds) : s.rec = TRUE /\ Under(d, s.at)
<1>n. ds \in SUBSET Names /\ d \in Names /\ \A t \in Names : Under(d, t) => t \in ds
  BY DEF Closed, Under
<1>1. CASE \E c \in Crowns(ds) : Under(d, c)
  <2>1. PICK c \in Crowns(ds) : Under(d, c)
    BY <1>1
  <2>2. c \in Names /\ c \in ds
    BY <1>n, <2>1, Places
  <2> DEFINE s == Classify(ds, c)
  <2>3. s \in Classified(ds) /\ s.at = c
    BY <1>n, <2>2, ClassifiedIs
  <2>4. s.rec = TRUE
    BY <1>n, <2>1, <2>2, Classes DEF Section
  <2>5. ASSUME NEW u \in Classified(ds), u.rec, Below(c, u.at) PROVE FALSE
    <3>1. u.at \in Names /\ u.at # c /\ Under(c, u.at) /\ (Crown(ds, u) \/ Spare(u))
      BY <1>n, <2>5, ClassifiedIs DEF Below, Volume, Holder
    <3>2. u.at \in Plain
      BY <2>1, <3>1, Places
    <3> QED
      BY <3>1, <3>2, Places DEF Crown, Spare, Apart
  <2>6. s \in Kept(ds)
    BY <1>n, <2>3, <2>4, <2>5, KeptAlone
  <2> QED
    BY <2>1, <2>3, <2>4, <2>6
<1>2. CASE Apart(d) /\ \A c \in Crowns(ds) : ~Under(d, c)
  <2> DEFINE ts == {t \in Names : Under(d, t) /\ Apart(t)}
  <2>1. ts \in SUBSET Names /\ ts # {} /\ \A t \in ts : Under(d, t)
    BY <1>2, <1>n, Tree
  <2>2. PICK c \in ts : \A t \in ts : Under(t, c)
    BY <1>n, <2>1, Ends
  <2>3. c \in Names /\ c \in ds /\ Apart(c) /\ Under(d, c)
    BY <1>n, <2>2
  <2> DEFINE s == Classify(ds, c)
  <2>4. s \in Classified(ds) /\ s.at = c
    BY <1>n, <2>3, ClassifiedIs
  <2>5. s.rec = TRUE
    BY <1>n, <2>3, Classes DEF Section
  <2>6. ASSUME NEW u \in Classified(ds), u.rec, Below(c, u.at) PROVE FALSE
    <3>1. u.at \in Names /\ u.at # c /\ Under(c, u.at) /\ (Crown(ds, u) \/ Spare(u))
      BY <1>n, <2>6, ClassifiedIs DEF Below, Volume, Holder
    <3>2. Under(d, u.at)
      BY <1>n, <2>3, <3>1, Tree
    <3>3. CASE Crown(ds, u)
      BY <1>2, <3>2, <3>3 DEF Crown
    <3>4. CASE Spare(u)
      <4>1. u.at \in ts
        BY <3>1, <3>2, <3>4 DEF Spare
      <4>2. Under(u.at, c)
        BY <2>2, <4>1
      <4> QED
        BY <2>3, <3>1, <4>2, Tree
    <3> QED
      BY <3>1, <3>3, <3>4
  <2>7. s \in Kept(ds)
    BY <1>n, <2>4, <2>5, <2>6, KeptAlone
  <2> QED
    BY <2>3, <2>4, <2>5, <2>7
<1> QED
  BY <1>1, <1>2

(* The overrides are the volumes inside a recursive rule.                  *)
LEMMA OverridesAre ==
  ASSUME NEW ds \in SUBSET Names, NEW d \in Names
  PROVE  d \in Overrides(Classified(ds)) <=>
           d \in ds \cap Zvols /\ \E u \in Classified(ds) : u.rec /\ Below(d, u.at)
<1>1. ASSUME d \in Overrides(Classified(ds))
      PROVE  d \in ds \cap Zvols /\ \E u \in Classified(ds) : u.rec /\ Below(d, u.at)
  <2>1. PICK s \in Kept(ds) : s.at = d /\ RecursiveAbove(Classified(ds), d) # {}
    BY <1>1 DEF Overrides, Kept
  <2>2. PICK u \in Classified(ds) : u.rec /\ Below(d, u.at)
    BY <2>1 DEF RecursiveAbove
  <2>3. s \in Classified(ds) /\ d \in ds
    BY <2>1, ClassifiedIs DEF Kept, Pruned
  <2>4. ~s.rec
    BY <2>1, <2>2, <2>3, KeptAlone
  <2>5. s.at \notin Plain
    <3>1. u.at \in Names /\ u.at \notin Plain
      BY <2>2, ClassifiedIs, Places DEF Volume, Holder, Crown, Spare, Apart
    <3> QED
      BY <2>1, <2>2, <3>1, Places DEF Below
  <2>6. d \in Zvols
    BY <2>1, <2>3, <2>4, <2>5, ClassifiedIs DEF Volume, Holder, Crown, Spare
  <2> QED
    BY <2>2, <2>3, <2>6
<1>2. ASSUME d \in ds \cap Zvols, NEW u \in Classified(ds), u.rec, Below(d, u.at)
      PROVE  d \in Overrides(Classified(ds))
  <2> DEFINE s == Classify(ds, d)
  <2>1. s \in Classified(ds) /\ s.at = d
    BY <1>2, ClassifiedIs
  <2>2. s.rec = FALSE
    BY <1>2, Classes DEF Section
  <2>3. s \in Kept(ds)
    BY <2>1, <2>2, KeptAlone
  <2>4. RecursiveAbove(Classified(ds), d) # {}
    <3>1. \A x \in Classified(ds) : x.at \in Names
      BY ClassifiedIs
    <3> QED
      BY <1>2, <3>1, Nearest
  <2>5. s \in {x \in Pruned(Classified(ds)) : RecursiveAbove(Classified(ds), x.at) # {}}
    BY <2>1, <2>3, <2>4 DEF Kept
  <2> QED
    BY <2>1, <2>5 DEF Overrides
<1> QED
  BY <1>1, <1>2
-----------------------------------------------------------------------------
(* The rules split around what is excluded and around the volumes.         *)
Read(ds, drained) == Closed(ds) /\ drained \subseteq ds \cap Excludable
Special(ds, drained) == drained \cup Overrides(Classified(ds))
Opened(ds, drained, d) ==
  d \notin Special(ds, drained) /\ \E t \in Special(ds, drained) : Below(t, d)
Owned(ds, drained) == {u.at : u \in Kept(ds)} \ drained
Way(ds, drained, s) ==
  {d \in ds : /\ Under(d, s.at)
              /\ \A a \in ds : Under(a, s.at) /\ Below(d, a) => Opened(ds, drained, a)
              /\ \A a \in ds : Below(a, s.at) /\ Under(d, a) => a \notin Owned(ds, drained)}
Expanded(ds, drained, s) == Expand(ds, Kept(ds), drained, Overrides(Classified(ds)), s)

LEMMA ExpandedIs ==
  ASSUME NEW ds, NEW drained, NEW s, NEW u
  PROVE  u \in Expanded(ds, drained, s) <=>
           \E d \in Way(ds, drained, s) :
             u = IF d \in drained THEN Section(d, "drained", TRUE)
                 ELSE Section(d, s.kind, s.rec /\ ~Opened(ds, drained, d))
BY DEF Expanded, Expand, Way, Opened, Special, Owned

LEMMA ReadIs ==
  ASSUME NEW ds, NEW drained, Read(ds, drained)
  PROVE  /\ Closed(ds) /\ ds \in SUBSET Names /\ drained \subseteq ds
         /\ \A t \in drained : t \in Names /\ t \notin Zvols /\ t \notin Plain
         /\ \A d \in ds, t \in Names : Under(d, t) => t \in ds
BY DEF Read, Excludable, Plain, Closed, Under

(* A rule of one's own inside a recursive rule is a volume's.              *)
LEMMA OwnInside ==
  ASSUME NEW ds \in SUBSET Names, NEW drained, NEW s \in Kept(ds), s.rec,
         NEW a \in Owned(ds, drained), Below(a, s.at)
  PROVE  a \in Zvols
<1>1. PICK v \in Kept(ds) : v.at = a
  BY DEF Owned
<1>2. v \in Classified(ds) /\ s \in Classified(ds)
  BY DEF Kept, Pruned
<1>3. /\ a \in Names /\ s.at \in Names
      /\ Crown(ds, s) \/ Spare(s)
      /\ Volume(v) \/ Holder(v) \/ Crown(ds, v) \/ Spare(v)
  BY <1>1, <1>2, ClassifiedIs DEF Volume, Holder
<1>4. ~v.rec
  BY <1>1, <1>2, KeptAlone
<1>5. ~Holder(v)
  BY <1>1, <1>3, Places DEF Holder, Crown, Spare, Apart, Below
<1> QED
  BY <1>1, <1>3, <1>4, <1>5 DEF Volume, Crown, Spare

(* What a rule becomes: drained sections, and sections with its kind of    *)
(* datasets that nothing drained covers.                                   *)
Open(ds, drained, s, u) ==
  /\ s.rec = TRUE /\ Under(u.at, s.at) /\ u.kind = s.kind
  /\ ~Covered(u.at, drained) /\ u.at \notin Zvols
  /\ u.rec <=> \A t \in Special(ds, drained) : ~Below(t, u.at)
Drained(drained, u) == u.at \in drained /\ u.kind = "drained" /\ u.rec = TRUE

LEMMA CoveredIs ==
  ASSUME NEW d, NEW ts
  PROVE  Covered(d, ts) <=> \E t \in ts : Under(d, t)
BY DEF Covered, Under

LEMMA ExpandShape ==
  ASSUME NEW ds, NEW drained, Read(ds, drained), NEW s \in Kept(ds),
         s.at \in drained \/ (s.rec /\ ~Covered(s.at, drained)),
         NEW u \in Expanded(ds, drained, s)
  PROVE  u.at \in ds /\ (Drained(drained, u) \/ Open(ds, drained, s, u))
<1> USE DEF Section
<1>n. /\ ds \in SUBSET Names /\ drained \subseteq ds
      /\ \A t \in drained : t \in Names /\ t \notin Zvols /\ t \notin Plain
  BY ReadIs
<1>s. /\ s \in Classified(ds) /\ s.at \in ds /\ s.at \in Names
      /\ Volume(s) \/ Holder(s) \/ Crown(ds, s) \/ Spare(s)
  BY <1>n, ClassifiedIs DEF Kept, Pruned
<1>1. PICK x \in Way(ds, drained, s) :
        u = IF x \in drained THEN Section(x, "drained", TRUE)
            ELSE Section(x, s.kind, s.rec /\ ~Opened(ds, drained, x))
  BY ExpandedIs
<1>2. /\ x \in ds /\ x \in Names /\ Under(x, s.at)
      /\ \A a \in ds : Under(a, s.at) /\ Below(x, a) => Opened(ds, drained, a)
      /\ \A a \in ds : Below(a, s.at) /\ Under(x, a) => a \notin Owned(ds, drained)
  BY <1>1, <1>n DEF Way
<1>3. CASE x \in drained
  BY <1>1, <1>2, <1>3 DEF Drained
<1>4. CASE x \notin drained
  <2>1. u.at = x /\ u.kind = s.kind /\ u.rec = (s.rec /\ ~Opened(ds, drained, x))
    BY <1>1, <1>4
  <2>2. s.at \notin drained
    <3>1. SUFFICES ASSUME s.at \in drained PROVE FALSE
      OBVIOUS
    <3>2. Below(x, s.at) /\ Under(s.at, s.at)
      BY <1>2, <1>4, <1>s, <3>1, Tree DEF Below
    <3>3. Opened(ds, drained, s.at)
      BY <1>2, <1>s, <3>2
    <3> QED
      BY <3>1, <3>3 DEF Opened, Special
  <2>3. s.rec = TRUE /\ ~Covered(s.at, drained)
    BY <2>2, <1>s DEF Volume, Holder, Crown, Spare
  <2>4. ~Covered(x, drained)
    <3>1. SUFFICES ASSUME NEW t \in drained, Under(x, t) PROVE FALSE
      BY CoveredIs
    <3>2. t \in Names /\ t \in ds
      BY <1>n
    <3>3. Under(t, s.at) /\ Below(x, t)
      BY <1>2, <1>4, <1>s, <2>3, <3>1, <3>2, Tree, CoveredIs DEF Below
    <3>4. Opened(ds, drained, t)
      BY <1>2, <3>2, <3>3
    <3> QED
      BY <3>4 DEF Opened, Special
  <2>5. x \notin Zvols
    <3>1. SUFFICES ASSUME x \in Zvols PROVE FALSE
      OBVIOUS
    <3>2. s.at \notin Zvols
      BY <1>s, <2>3, Places DEF Volume, Holder, Crown, Spare, Apart
    <3>3. Below(x, s.at) /\ Under(x, x)
      BY <1>2, <3>1, <3>2, Tree DEF Below
    <3>4. x \in Owned(ds, drained)
      <4>1. Classify(ds, x) \in Classified(ds) /\ Classify(ds, x).at = x
        BY <1>n, <1>2, <3>1, ClassifiedIs
      <4>2. Classify(ds, x).rec = FALSE
        BY <1>n, <1>2, <3>1, Classes
      <4>3. Classify(ds, x) \in Kept(ds)
        BY <1>n, <4>1, <4>2, KeptAlone
      <4> QED
        BY <1>4, <4>1, <4>3 DEF Owned
    <3> QED
      BY <1>2, <3>3, <3>4
  <2>6. u.rec <=> \A t \in Special(ds, drained) : ~Below(t, x)
    <3>1. x \notin Special(ds, drained)
      BY <1>4, <1>n, <1>2, <2>5, OverridesAre DEF Special
    <3> QED
      BY <2>1, <2>3, <3>1 DEF Opened
  <2> QED
    BY <1>2, <2>1, <2>3, <2>4, <2>5, <2>6 DEF Open
<1> QED
  BY <1>3, <1>4
-----------------------------------------------------------------------------
(* What the rules are: drained sections, sections of one dataset that      *)
(* nothing drained covers, and what recursive rules become.                *)
LEMMA RulesShape ==
  ASSUME NEW ds, NEW drained, Read(ds, drained), NEW u \in Rules(ds, drained)
  PROVE  /\ u.at \in ds
         /\ \/ Drained(drained, u)
            \/ u \in Kept(ds) /\ ~u.rec /\ ~Covered(u.at, drained)
            \/ \E s \in Kept(ds) : Open(ds, drained, s, u)
<1>n. /\ ds \in SUBSET Names /\ drained \subseteq ds
      /\ \A t \in drained : t \in Names /\ t \notin Zvols /\ t \notin Plain
  BY ReadIs
<1>k. ASSUME NEW s \in Kept(ds)
      PROVE  /\ s.at \in ds /\ s.at \in Names
             /\ Volume(s) \/ Holder(s) \/ Crown(ds, s) \/ Spare(s)
  BY <1>n, ClassifiedIs DEF Kept, Pruned
<1>1. CASE drained = {} /\ Overrides(Classified(ds)) = {}
  <2>1. u \in Kept(ds)
    BY <1>1 DEF Rules, Kept
  <2>2. ~Covered(u.at, drained)
    BY <1>1 DEF Covered
  <2>3. ASSUME u.rec PROVE Open(ds, drained, u, u)
    <3>1. u.rec = TRUE /\ u.at \in Names /\ u.at \notin Zvols
      BY <2>1, <2>3, <1>k, Places DEF Volume, Holder, Crown, Spare, Apart
    <3>2. Special(ds, drained) = {}
      BY <1>1 DEF Special
    <3> QED
      BY <2>2, <3>1, <3>2, Tree DEF Open
  <2> QED
    BY <2>1, <2>2, <2>3, <1>k
<1>2. CASE ~(drained = {} /\ Overrides(Classified(ds)) = {})
  <2>1. u \in SplitAround(ds, Kept(ds), drained, Overrides(Classified(ds)))
    BY <1>2 DEF Rules, Kept
  <2>2. \/ \E t \in drained : u = Section(t, "drained", TRUE)
        \/ \E s \in Kept(ds) :
             /\ Covered(s.at, drained) => s.at \in drained
             /\ \/ (s.rec \/ s.at \in drained) /\ u \in Expanded(ds, drained, s)
                \/ ~(s.rec \/ s.at \in drained) /\ u = s
    BY <2>1 DEF SplitAround, Expanded
  <2>3. ASSUME NEW t \in drained, u = Section(t, "drained", TRUE)
        PROVE  u.at \in ds /\ Drained(drained, u)
    BY <1>n, <2>3 DEF Section, Drained
  <2>4. ASSUME NEW s \in Kept(ds), Covered(s.at, drained) => s.at \in drained,
               s.rec \/ s.at \in drained, u \in Expanded(ds, drained, s)
        PROVE  u.at \in ds /\ (Drained(drained, u) \/ Open(ds, drained, s, u))
    BY <2>4, ExpandShape
  <2>5. ASSUME NEW s \in Kept(ds), Covered(s.at, drained) => s.at \in drained,
               ~(s.rec \/ s.at \in drained), u = s
        PROVE  u.at \in ds /\ u \in Kept(ds) /\ ~u.rec /\ ~Covered(u.at, drained)
    BY <2>5, <1>k
  <2> QED
    BY <2>2, <2>3, <2>4, <2>5
<1> QED
  BY <1>1, <1>2

(* A drained section reaches nothing but what is drained with it, and      *)
(* nothing else reaches what is below it.                                  *)
DrainedAlone(sections) ==
  \A s, u \in sections : s.kind = "drained" =>
    /\ s.rec
    /\ Under(u.at, s.at) \/ (u.rec /\ Below(s.at, u.at)) => u.kind = "drained"

LEMMA RulesDrainedAlone ==
  ASSUME NEW ds, NEW drained, Read(ds, drained)
  PROVE  DrainedAlone(Rules(ds, drained))
<1> SUFFICES ASSUME NEW s \in Rules(ds, drained), NEW u \in Rules(ds, drained),
                    s.kind = "drained"
             PROVE  /\ s.rec
                    /\ Under(u.at, s.at) \/ (u.rec /\ Below(s.at, u.at)) => u.kind = "drained"
  BY DEF DrainedAlone
<1>n. /\ ds \in SUBSET Names /\ drained \subseteq ds
  BY ReadIs
<1>k. ASSUME NEW x \in Kept(ds) PROVE x.kind # "drained"
  BY <1>n, ClassifiedIs DEF Kept, Pruned, Volume, Holder, Crown, Spare
<1>1. Drained(drained, s)
  <2>1. \/ Drained(drained, s)
        \/ s \in Kept(ds)
        \/ \E x \in Kept(ds) : Open(ds, drained, x, s)
    BY RulesShape
  <2>2. ASSUME NEW x \in Kept(ds), Open(ds, drained, x, s) PROVE FALSE
    BY <1>k, <2>2 DEF Open
  <2> QED
    BY <1>k, <2>1, <2>2
<1>2. s.rec /\ s.at \in drained
  BY <1>1 DEF Drained
<1>3. ASSUME Under(u.at, s.at) PROVE u.kind = "drained"
  <2>1. Covered(u.at, drained)
    BY <1>2, <1>3, CoveredIs
  <2> QED
    BY <2>1, RulesShape DEF Open, Drained
<1>4. ASSUME u.rec, Below(s.at, u.at) PROVE u.kind = "drained"
  <2>1. s.at \in Special(ds, drained)
    BY <1>2 DEF Special
  <2> QED
    BY <1>4, <2>1, RulesShape DEF Open, Drained
<1> QED
  BY <1>2, <1>3, <1>4

(* What the rules reach.                                                   *)
LEMMA ReachDrained ==
  ASSUME NEW ds, NEW drained, Read(ds, drained), NEW t \in drained
  PROVE  Section(t, "drained", TRUE) \in Rules(ds, drained)
BY DEF Rules, SplitAround

LEMMA ReachOwn ==
  ASSUME NEW ds, NEW drained, Read(ds, drained), NEW d \in ds,
         ~Covered(d, drained), d \in Zvols \cup Plain
  PROVE  Classify(ds, d) \in Rules(ds, drained) /\ Classify(ds, d).at = d
<1> DEFINE s == Classify(ds, d)
<1>n. ds \in SUBSET Names
  BY ReadIs
<1>1. s \in Classified(ds) /\ s.at = d
  BY <1>n, ClassifiedIs
<1>2. s.rec = FALSE
  <2>1. s = Section(d, "off", FALSE) \/ s = Section(d, "minimal", FALSE)
    BY <1>n, Classes
  <2> QED
    BY <2>1 DEF Section
<1>3. s \in Kept(ds)
  BY <1>n, <1>1, <1>2, KeptAlone
<1>4. ~Covered(s.at, drained) /\ s.at \notin drained
  BY <1>1, <1>n, Tree, CoveredIs
<1>5. s \in SplitAround(ds, Kept(ds), drained, Overrides(Classified(ds)))
  <2>1. s \in {x \in Kept(ds) : Covered(x.at, drained) => x.at \in drained}
    BY <1>3, <1>4
  <2> QED
    BY <2>1, <1>2, <1>4 DEF SplitAround
<1> QED
  BY <1>1, <1>3, <1>5 DEF Rules, Kept

LEMMA ReachRecursive ==
  ASSUME NEW ds, NEW drained, Read(ds, drained), NEW d \in ds,
         ~Covered(d, drained), d \notin Zvols,
         NEW s \in Kept(ds), s.rec = TRUE, Under(d, s.at)
  PROVE  \E u \in Rules(ds, drained) :
           u.kind = s.kind /\ (u.at = d \/ (u.rec /\ Below(d, u.at)))
<1>n. /\ ds \in SUBSET Names /\ d \in Names /\ drained \subseteq Names
      /\ \A t \in Names : Under(d, t) => t \in ds
  BY ReadIs
<1>s. s \in Classified(ds) /\ s.at \in ds /\ s.at \in Names
  BY <1>n, ClassifiedIs DEF Kept, Pruned
<1>1. ASSUME drained = {} /\ Overrides(Classified(ds)) = {}
      PROVE  s \in Rules(ds, drained)
  BY <1>1 DEF Rules, Kept
<1>2. ASSUME ~(drained = {} /\ Overrides(Classified(ds)) = {})
      PROVE  Expanded(ds, drained, s) \subseteq Rules(ds, drained)
  <2>1. ~Covered(s.at, drained)
    BY <1>n, <1>s, Tree, CoveredIs
  <2>2. s \in {x \in Kept(ds) : Covered(x.at, drained) => x.at \in drained}
    BY <2>1
  <2>3. Expanded(ds, drained, s) \subseteq
          SplitAround(ds, Kept(ds), drained, Overrides(Classified(ds)))
    BY <2>2 DEF SplitAround, Expanded
  <2> QED
    BY <1>2, <2>3 DEF Rules, Kept
<1> DEFINE ts == {x \in ds : Under(d, x) /\ Under(x, s.at) /\ ~Opened(ds, drained, x)}
<1>3. ASSUME NEW x \in ds, Under(d, x), Under(x, s.at),
             \A a \in ds : Under(a, s.at) /\ Below(x, a) => Opened(ds, drained, a)
      PROVE  /\ x \in Way(ds, drained, s)
             /\ \E u \in Expanded(ds, drained, s) :
                  u.at = x /\ u.kind = s.kind /\ u.rec = ~Opened(ds, drained, x)
  <2>1. ASSUME NEW a \in ds, Below(a, s.at), Under(x, a), a \in Owned(ds, drained)
        PROVE  FALSE
    <3>1. a \in Zvols
      BY <1>n, <2>1, OwnInside
    <3>2. Under(d, a)
      BY <1>n, <1>3, <2>1, Tree
    <3> QED
      BY <1>n, <3>1, <3>2, Places
  <2>2. x \in Way(ds, drained, s)
    BY <1>3, <2>1 DEF Way
  <2>3. x \notin drained
    BY <1>3, CoveredIs
  <2> DEFINE u == Section(x, s.kind, s.rec /\ ~Opened(ds, drained, x))
  <2>4. u \in Expanded(ds, drained, s)
    BY <2>2, <2>3, ExpandedIs
  <2>5. u.at = x /\ u.kind = s.kind /\ u.rec = ~Opened(ds, drained, x)
    BY DEF Section
  <2> QED
    BY <2>2, <2>4, <2>5
<1>4. CASE drained = {} /\ Overrides(Classified(ds)) = {}
  BY <1>1, <1>4 DEF Below
<1>5. CASE ~(drained = {} /\ Overrides(Classified(ds)) = {}) /\ ts # {}
  <2>1. ts \in SUBSET Names /\ \A t \in ts : Under(d, t)
    BY <1>n
  <2>2. PICK top \in ts : \A t \in ts : Under(t, top)
    BY <1>n, <1>5, <2>1, Ends
  <2>3. top \in ds /\ top \in Names /\ Under(d, top) /\ Under(top, s.at)
        /\ ~Opened(ds, drained, top)
    BY <2>1, <2>2
  <2>4. ASSUME NEW a \in ds, Under(a, s.at), Below(top, a)
        PROVE  Opened(ds, drained, a)
    <3>1. SUFFICES ASSUME ~Opened(ds, drained, a) PROVE FALSE
      OBVIOUS
    <3>2. Under(d, a) /\ Under(top, a) /\ top # a /\ a \in Names
      BY <1>n, <2>3, <2>4, Tree DEF Below
    <3>3. a \in ts
      BY <2>4, <3>1, <3>2
    <3> QED
      BY <2>2, <2>3, <3>2, <3>3, Tree
  <2>5. PICK u \in Expanded(ds, drained, s) :
          u.at = top /\ u.kind = s.kind /\ u.rec = TRUE
    BY <1>3, <2>3, <2>4
  <2> QED
    BY <1>2, <1>5, <2>3, <2>5 DEF Below
<1>6. CASE ~(drained = {} /\ Overrides(Classified(ds)) = {}) /\ ts = {}
  <2>1. \A a \in ds : Under(a, s.at) /\ Below(d, a) => Opened(ds, drained, a)
    BY <1>6 DEF Below
  <2>2. Under(d, d)
    BY <1>n, Tree
  <2>3. PICK u \in Expanded(ds, drained, s) : u.at = d /\ u.kind = s.kind
    BY <1>3, <2>1, <2>2
  <2> QED
    BY <1>2, <1>6, <2>3
<1> QED
  BY <1>4, <1>5, <1>6
-----------------------------------------------------------------------------
(* Which rules sanoid may follow for a dataset.                            *)
Reason(ds, drained, d, u) ==
  \/ Covered(d, drained) /\ u.kind = "drained"
  \/ /\ ~Covered(d, drained)
     /\ \/ u.at = d /\ (Volume(u) \/ Holder(u))
        \/ /\ d \notin Zvols
           /\ \E s \in Kept(ds) : s.rec = TRUE /\ Under(d, s.at) /\ u.kind = s.kind

LEMMA ReachedBy ==
  ASSUME NEW ds, NEW drained, Read(ds, drained), NEW d \in ds,
         NEW u \in Rules(ds, drained), u.at = d \/ (u.rec /\ Below(d, u.at))
  PROVE  Reason(ds, drained, d, u)
<1> USE DEF Reason
<1>n. /\ ds \in SUBSET Names /\ d \in Names /\ drained \subseteq Names
  BY ReadIs
<1>u. u.at \in ds /\ u.at \in Names /\ Under(d, u.at)
  BY <1>n, RulesShape, Tree DEF Below
<1>1. CASE Drained(drained, u)
  <2>1. Covered(d, drained)
    BY <1>1, <1>u, CoveredIs DEF Drained
  <2> QED
    BY <1>1, <2>1 DEF Drained
<1>2. CASE u \in Kept(ds) /\ ~u.rec /\ ~Covered(u.at, drained)
  <2>1. Volume(u) \/ Holder(u)
    BY <1>2, <1>n, ClassifiedIs DEF Kept, Pruned, Crown, Spare
  <2>2. u.at = d
    BY <1>2
  <2> QED
    BY <1>2, <2>1, <2>2
<1>3. ASSUME NEW s \in Kept(ds), Open(ds, drained, s, u)
      PROVE  ~Covered(d, drained) /\ d \notin Zvols /\ s.rec = TRUE
               /\ Under(d, s.at) /\ u.kind = s.kind
  <2>s. s \in Classified(ds) /\ s.at \in Names
    BY <1>n, ClassifiedIs DEF Kept, Pruned
  <2>1. s.rec = TRUE /\ Under(u.at, s.at) /\ u.kind = s.kind
    BY <1>3 DEF Open
  <2>2. Under(d, s.at)
    BY <1>n, <1>u, <2>s, <2>1, Tree
  <2>3. ASSUME NEW t \in drained, Under(d, t) PROVE FALSE
    <3>1. t \in Names /\ t \in Special(ds, drained)
      BY <1>n DEF Special
    <3>2. ~Under(u.at, t)
      BY <1>3, CoveredIs DEF Open
    <3>3. u.rec /\ Under(t, u.at) /\ t # u.at
      BY <1>n, <1>u, <2>3, <3>1, <3>2, Tree
    <3> QED
      BY <1>3, <3>1, <3>3 DEF Open, Below
  <2>4. ASSUME d \in Zvols PROVE FALSE
    <3>1. u.rec /\ Below(d, u.at)
      BY <1>3, <2>4 DEF Open
    <3>2. Below(d, s.at)
      BY <1>n, <1>u, <2>s, <2>1, <2>2, <3>1, Tree DEF Below
    <3>3. d \in Special(ds, drained)
      BY <1>n, <2>s, <2>1, <2>4, <3>2, OverridesAre DEF Special
    <3> QED
      BY <1>3, <3>1, <3>3 DEF Open
  <2> QED
    BY <2>1, <2>2, <2>3, <2>4, CoveredIs
<1> QED
  BY <1>1, <1>2, <1>3, RulesShape

LEMMA PossibleIs ==
  ASSUME NEW sections, NEW d, NEW k
  PROVE  k \in Possible(sections, d) <=>
           \E u \in sections : u.kind = k /\ (u.at = d \/ (u.rec /\ Below(d, u.at)))
BY DEF Possible

(* The rules mean what setup documents, in any order of the sections.      *)
LEMMA Means ==
  ASSUME NEW ds, NEW drained, Read(ds, drained), NEW d \in ds
  PROVE  Possible(Rules(ds, drained), d) = Wanted(ds, drained, d)
<1> DEFINE reach == {u \in Rules(ds, drained) : u.at = d \/ (u.rec /\ Below(d, u.at))}
<1>p. \A k : k \in Possible(Rules(ds, drained), d) <=> \E u \in reach : u.kind = k
  BY PossibleIs
<1>n. ds \in SUBSET Names /\ d \in Names /\ drained \subseteq Names /\ Closed(ds)
  BY ReadIs
<1>r. ASSUME NEW u \in reach PROVE Reason(ds, drained, d, u)
  BY ReachedBy
<1>c. Crowns(ds) = {UbuntuDs(ds), Userdata, BpoolBoot}
  BY DEF Crowns
<1>0. ASSUME NEW k, \A u \in reach : u.kind = k, reach # {}, Wanted(ds, drained, d) = {k}
      PROVE  Possible(Rules(ds, drained), d) = Wanted(ds, drained, d)
  BY <1>0, <1>p
<1>1. CASE Covered(d, drained)
  <2>1. PICK t \in drained : Under(d, t)
    BY <1>1, CoveredIs
  <2> DEFINE u == Section(t, "drained", TRUE)
  <2>2. u \in Rules(ds, drained) /\ u.at = t /\ u.rec = TRUE
    BY ReachDrained DEF Section
  <2>3. u \in reach
    BY <2>1, <2>2 DEF Below
  <2>4. Wanted(ds, drained, d) = {"drained"}
    BY <1>1 DEF Wanted
  <2> QED
    BY <1>0, <1>1, <1>r, <2>3, <2>4 DEF Reason
<1>2. CASE ~Covered(d, drained) /\ d \in Zvols
  <2> DEFINE u == Classify(ds, d)
  <2>1. u \in reach
    BY <1>2, ReachOwn
  <2>2. Wanted(ds, drained, d) = {"off"}
    BY <1>2 DEF Wanted
  <2>3. \A x \in reach : x.kind = "off"
    BY <1>2, <1>r, Places DEF Reason, Volume, Holder
  <2> QED
    BY <1>0, <2>1, <2>2, <2>3
<1>3. CASE /\ ~Covered(d, drained) /\ d \notin Zvols
           /\ \E c \in Crowns(ds) : Under(d, c)
  <2>1. Wanted(ds, drained, d) = {"production"}
    BY <1>3, <1>c DEF Wanted
  <2>2. PICK s \in Kept(ds) : s.rec = TRUE /\ Under(d, s.at)
    BY <1>3, <1>n, Covers
  <2>3. d \notin Plain /\ \A x \in Kept(ds) :
          x.rec = TRUE /\ Under(d, x.at) => x.kind = "production"
    BY <1>3, <1>n, <2>2, Covering
  <2>4. reach # {}
    BY <1>3, <2>2, ReachRecursive
  <2>5. \A x \in reach : x.kind = "production"
    BY <1>3, <1>r, <2>3 DEF Reason, Volume, Holder
  <2> QED
    BY <1>0, <2>1, <2>4, <2>5
<1>4. CASE /\ ~Covered(d, drained) /\ d \notin Zvols
           /\ ~\E c \in Crowns(ds) : Under(d, c)
           /\ Below(d, Root)
  <2>1. Wanted(ds, drained, d) = {}
    BY <1>4, <1>c DEF Wanted
  <2>2. d \notin Plain
    <3>1. Above[Rpool] = {Rpool} /\ Above[Bpool] = {Bpool}
      BY PlacesAssumption DEF Tops
    <3>2. Root # Rpool /\ Root # Bpool
      BY DEF Root, Rpool, Bpool
    <3> QED
      BY <1>4, <3>1, <3>2 DEF Plain, Below, Under
  <2>3. ~Apart(d)
    BY <1>4 DEF Apart, Regions, Below
  <2>4. \A x \in Kept(ds) : ~(x.rec = TRUE /\ Under(d, x.at))
    BY <1>4, <1>n, <2>3, Covering
  <2>5. reach = {}
    BY <1>4, <1>r, <2>2, <2>4 DEF Reason, Volume, Holder
  <2> QED
    BY <1>p, <2>1, <2>5
<1>5. CASE /\ ~Covered(d, drained) /\ d \notin Zvols
           /\ ~\E c \in Crowns(ds) : Under(d, c)
           /\ ~Below(d, Root)
  <2>1. Wanted(ds, drained, d) = {"minimal"}
    BY <1>5, <1>c DEF Wanted
  <2>2. \A x \in Kept(ds) : x.rec = TRUE /\ Under(d, x.at) => x.kind = "minimal"
    BY <1>5, <1>n, Covering
  <2>3. \A x \in reach : x.kind = "minimal"
    BY <1>5, <1>r, <2>2 DEF Reason, Volume, Holder
  <2>4. CASE d \in Plain
    <3>1. Classify(ds, d) \in reach
      BY <1>5, <2>4, ReachOwn
    <3> QED
      BY <1>0, <2>1, <2>3, <3>1
  <2>5. CASE d \notin Plain
    <3>1. Apart(d)
      BY <1>5, <1>c, <2>5 DEF Apart, Regions, Below, Plain
    <3>2. PICK s \in Kept(ds) : s.rec = TRUE /\ Under(d, s.at)
      BY <1>n, <3>1, Covers
    <3>3. reach # {}
      BY <1>5, <3>2, ReachRecursive
    <3> QED
      BY <1>0, <2>1, <2>3, <3>3
  <2> QED
    BY <2>4, <2>5
<1> QED
  BY <1>1, <1>2, <1>3, <1>4, <1>5
-----------------------------------------------------------------------------
(* The datasets are a tree with the boot environment that runs, a command  *)
(* asks and writes for datasets it read, and what is in the file keeps the *)
(* drained apart.                                                          *)
Grown == running \in sets /\ Closed(sets) /\ flags \subseteq sets \cap Excludable
Asked == job.step \in Asking => Read(job.sets, job.drained)
PolicyInv == KeptInv /\ Grown /\ Asked /\ DrainedAlone(conf.sections)

LEMMA GrownFirst == ASSUME Init PROVE Grown
<1> DEFINE fixed == {Rpool, Root, Userdata} \cup (IF ext4 THEN {} ELSE {Bpool, BpoolBoot})
<1>1. running \in {Be1, Be2} /\ sets = fixed \cup {Be1, running} \cup First /\ flags = {}
  BY DEF Init, Fixed
<1>2. sets \subseteq Names
  BY <1>1, Roles, NamesHere
<1>3. ASSUME NEW d \in sets PROVE Above[d] \subseteq sets
  <2>1. CASE d \in First
    BY <1>1, <2>1, PlacesAssumption
  <2>2. CASE d \in {Be1, running}
    BY <1>1, <2>2, PlacesAssumption
  <2>3. CASE d \in {Rpool, Root, Userdata}
    BY <1>1, <2>3, PlacesAssumption DEF Tops
  <2>4. CASE d \in {Bpool, BpoolBoot} /\ ~ext4
    BY <1>1, <2>4, PlacesAssumption DEF Tops
  <2> QED
    BY <1>1, <2>1, <2>2, <2>3, <2>4
<1> QED
  BY <1>1, <1>2, <1>3 DEF Grown, Closed

LEMMA GrownStep == ASSUME Types, Grown, [Next]_vars PROVE Grown'
<1> USE DEF sys, host, vars
<1>t. /\ running \in {Be1, Be2} /\ running \in sets /\ sets \subseteq Names
      /\ \A d \in sets : Above[d] \subseteq sets
      /\ flags \subseteq sets \cap Excludable
  BY DEF Types, Grown, Closed
<1>1. CASE UNCHANGED <<sets, flags, running>>
  BY <1>1 DEF Grown, Closed
<1>2. CASE KeepBoot
  <2>1. CASE sets' = sets \cup {BootCopy(running)}
    <3>1. BootCopy(running) \in Names
      BY <1>t, NamesHere
    <3>2. Above[BootCopy(running)] = {BootCopy(running), running, Root, Rpool}
          /\ Above[running] = {running, Root, Rpool}
      BY <1>t, PlacesAssumption
    <3>3. \A d \in sets' : Above[d] \subseteq sets'
      BY <1>t, <2>1, <3>2
    <3> QED
      BY <1>2, <1>t, <2>1, <3>1, <3>3 DEF KeepBoot, Grown, Closed
  <2>2. CASE UNCHANGED sets
    BY <1>2, <2>2, <1>1 DEF KeepBoot
  <2> QED
    BY <1>2, <2>1, <2>2 DEF KeepBoot
<1>3. ASSUME NEW d \in Names, Exclude(d) \/ Include(d)
      PROVE  Grown'
  BY <1>3, <1>t DEF Exclude, Include, Flag, Grown, Closed
<1>4. ASSUME NEW d \in Names, Make(d)
      PROVE  Grown'
  <2>1. sets' = sets \cup {d} /\ Above[d] \subseteq sets' /\ UNCHANGED <<flags, running>>
    BY <1>4 DEF Make
  <2> QED
    BY <1>t, <2>1 DEF Grown, Closed
<1>5. ASSUME NEW d \in Names, Destroy(d)
      PROVE  Grown'
  <2>1. /\ sets' = sets \ {d} /\ flags' = flags \ {d} /\ running' = running /\ d # running
        /\ \A x \in sets : ~Below(x, d)
    BY <1>5 DEF Destroy
  <2>2. \A x \in sets' : Above[x] \subseteq sets'
    BY <1>t, <2>1 DEF Below, Under
  <2> QED
    BY <1>t, <2>1, <2>2 DEF Grown, Closed
<1>6. CASE Dependencies \/ ReadOrigin \/ Decline \/ Accept \/ Truncate \/ Write \/ StartTimer
           \/ InitialSnapshots \/ AlertFiles \/ AlertTimer \/ Complete \/ StartSetup
           \/ StartRemove \/ RemoveFiles \/ Stop \/ SanoidRuns \/ AddSection \/ EditSection
  BY <1>1, <1>6
  DEF Dependencies, ReadOrigin, Decline, Accept, Truncate, Write, StartTimer, InitialSnapshots,
      AlertFiles, AlertTimer, Complete, StartSetup, StartRemove, RemoveFiles, Stop, SanoidRuns,
      AddSection, EditSection
<1> QED
  BY <1>1, <1>2, <1>3, <1>4, <1>5, <1>6 DEF Next, Step

LEMMA AskedStep == ASSUME Types, Grown, Asked, [Next]_vars PROVE Asked'
<1> USE DEF sys, host, vars
<1>t. job \in JobType
  BY DEF Types
<1>n. NoJob.step \notin Asking
  BY Moves DEF Asking
<1>0. ASSUME job'.step \notin Asking PROVE Asked'
  BY <1>0 DEF Asked
<1>1. CASE UNCHANGED job
  BY <1>1 DEF Asked
<1>2. CASE ReadOrigin
  <2>1. CASE job' = [job EXCEPT !.step = "ask", !.sets = sets, !.drained = NoSnapshot(flags),
                                !.manual = conf.manual]
    <3>1. job'.sets = sets /\ job'.drained = NoSnapshot(flags)
      BY <2>1, <1>t DEF JobType
    <3>2. Read(sets, NoSnapshot(flags))
      BY DEF Grown, Read, NoSnapshot
    <3> QED
      BY <3>1, <3>2 DEF Asked
  <2>2. CASE Configured(TRUE) \/ job' = NoJob
    BY <1>0, <1>n, <2>2, ConfiguredMoves DEF Asking
  <2> QED
    BY <1>2, <2>1, <2>2 DEF ReadOrigin
<1>3. CASE Accept \/ Truncate
  <2>1. job.step \in Asking /\ job'.sets = job.sets /\ job'.drained = job.drained
    BY <1>3, <1>t DEF Accept, Truncate, At, Goto, Asking, JobType
  <2> QED
    BY <2>1 DEF Asked
<1>4. CASE Decline \/ Write
  <2>1. conf.exists \in BOOLEAN
    BY DEF Types, ConfType
  <2>2. job'.step \notin Asking
    BY <1>4, <2>1, <1>n, ConfiguredMoves DEF Decline, Write, Asking
  <2> QED
    BY <1>0, <2>2
<1>5. CASE Dependencies \/ KeepBoot \/ InitialSnapshots \/ Complete \/ Stop
  <2>1. job'.step \notin Asking
    BY <1>5, <1>n, Moves
    DEF Dependencies, KeepBoot, InitialSnapshots, Complete, Stop, Steps, Asking
  <2> QED
    BY <1>0, <2>1
<1>6. CASE StartTimer \/ AlertFiles \/ AlertTimer
  <2>1. job'.step \notin Asking
    <3>1. CASE job' = [job EXCEPT !.step = "snapshots", !.failed = {"timer"}]
               \/ job' = [job EXCEPT !.step = "complete", !.failed = @ \cup {"alerts"}]
      BY <3>1, <1>t DEF JobType, Asking
    <3>2. CASE Goto("snapshots") \/ Goto("complete") \/ Goto("enable")
      BY <3>2, Moves DEF Steps, Asking
    <3> QED
      BY <1>6, <3>1, <3>2 DEF StartTimer, AlertFiles, AlertTimer
  <2> QED
    BY <1>0, <2>1
<1>7. CASE StartRemove \/ RemoveFiles
  <2>1. CASE job' = NoJob
    BY <1>0, <1>n, <2>1
  <2>2. CASE job' = [job EXCEPT !.failed = @ \cup {"removed"}]
    <3>1. job'.step = job.step /\ job'.sets = job.sets /\ job'.drained = job.drained
      BY <2>2, <1>t DEF JobType
    <3> QED
      BY <3>1 DEF Asked
  <2> QED
    BY <1>7, <2>1, <2>2 DEF StartRemove, RemoveFiles, Crossed
<1>8. CASE StartSetup \/ \E d \in Names : Exclude(d) \/ Include(d)
  <2>1. job'.step \in {"deps", "read"}
    BY <1>8 DEF StartSetup, Exclude, Include, Flag, NoJob
  <2> QED
    BY <1>0, <2>1 DEF Asking
<1>9. CASE SanoidRuns \/ AddSection \/ EditSection \/ \E d \in Names : Make(d) \/ Destroy(d)
  BY <1>1, <1>9 DEF SanoidRuns, AddSection, EditSection, Make, Destroy
<1> QED
  BY <1>1, <1>2, <1>3, <1>4, <1>5, <1>6, <1>7, <1>8, <1>9 DEF Next, Step

LEMMA AloneStep ==
  ASSUME Types, Asked, DrainedAlone(conf.sections), [Next]_vars
  PROVE  DrainedAlone(conf.sections)'
<1> USE DEF sys, host, vars
<1>t. conf \in ConfType
  BY DEF Types
<1>1. ASSUME conf'.sections \subseteq conf.sections PROVE DrainedAlone(conf.sections)'
  BY <1>1 DEF DrainedAlone
<1>2. CASE Truncate
  <2>1. conf'.sections = {}
    BY <1>2 DEF Truncate, NoConf
  <2> QED
    BY <1>1, <2>1
<1>3. CASE Write
  <2>1. conf'.sections = Rules(job.sets, job.drained)
    BY <1>3 DEF Write, Generate
  <2>2. Read(job.sets, job.drained)
    BY <1>3 DEF Write, At, Asked, Asking
  <2>3. DrainedAlone(Rules(job.sets, job.drained))
    BY <2>2, RulesDrainedAlone
  <2> QED
    BY <2>1, <2>3
<1>4. CASE AddSection \/ EditSection
  <2>1. conf'.sections \subseteq conf.sections
    BY <1>4, <1>t DEF AddSection, EditSection, ConfType
  <2> QED
    BY <1>1, <2>1
<1>5. CASE UNCHANGED conf
  BY <1>1, <1>5
<1>6. CASE Dependencies \/ KeepBoot \/ ReadOrigin \/ Decline \/ Accept \/ StartTimer
           \/ InitialSnapshots \/ AlertFiles \/ AlertTimer \/ Complete \/ StartSetup
           \/ StartRemove \/ RemoveFiles \/ Stop \/ SanoidRuns
           \/ \E d \in Names : Exclude(d) \/ Include(d) \/ Make(d) \/ Destroy(d)
  BY <1>5, <1>6
  DEF Dependencies, KeepBoot, ReadOrigin, Decline, Accept, StartTimer, InitialSnapshots,
      AlertFiles, AlertTimer, Complete, StartSetup, StartRemove, RemoveFiles, Stop, SanoidRuns,
      Exclude, Include, Flag, Make, Destroy
<1> QED
  BY <1>2, <1>3, <1>4, <1>5, <1>6 DEF Next, Step

LEMMA PolicyInvHolds == Spec => []PolicyInv
<1>1. Init => PolicyInv
  <2> SUFFICES ASSUME Init PROVE PolicyInv
    OBVIOUS
  <2>1. Asked
    BY DEF Init, NoJob, Asked, Asking
  <2>2. DrainedAlone(conf.sections)
    BY DEF Init, NoConf, DrainedAlone
  <2> QED
    BY <2>1, <2>2, Beginning, GrownFirst DEF PolicyInv
<1>2. PolicyInv /\ [Next]_vars => PolicyInv'
  BY TypeStep, PathStep, ManualStep, GrownStep, AskedStep, AloneStep DEF PolicyInv, KeptInv
<1> QED
  BY <1>1, <1>2, PTL DEF Spec

(* One section for each dataset.                                           *)
OneEach(sections) == \A s, u \in sections : s.at = u.at => s = u

LEMMA RulesOneEach ==
  ASSUME NEW ds, NEW drained, Read(ds, drained)
  PROVE  OneEach(Rules(ds, drained))
<1> SUFFICES ASSUME NEW s \in Rules(ds, drained), NEW u \in Rules(ds, drained), s.at = u.at
             PROVE  s = u
  BY DEF OneEach
<1>n. ds \in SUBSET Names /\ drained \in SUBSET Names
  BY ReadIs
<1>t. s \in Sections /\ u \in Sections
  BY <1>n, RulesTypes
<1>a. ASSUME NEW x, Drained(drained, x) PROVE Covered(x.at, drained)
  BY <1>n, <1>a, Tree, CoveredIs DEF Drained
<1>k. ASSUME NEW x \in Kept(ds), ~x.rec
      PROVE  x = Classify(ds, x.at) /\ x.at \in Zvols \cup Plain
  BY <1>k, <1>n, ClassifiedIs DEF Kept, Pruned, Volume, Holder, Crown, Spare
<1>o. ASSUME NEW x \in Kept(ds), NEW y, y.at \in Names, Open(ds, drained, x, y)
      PROVE  ~Covered(y.at, drained) /\ y.at \notin Zvols \cup Plain
  <2>1. x.rec /\ Under(y.at, x.at) /\ ~Covered(y.at, drained) /\ y.at \notin Zvols
    BY <1>o DEF Open
  <2> QED
    BY <1>n, <1>o, <2>1, Covering
<1>h. s.at \in Names /\ u.at \in Names
  BY <1>t DEF Sections
<1>1. CASE Drained(drained, s)
  <2>1. Drained(drained, u)
    BY <1>1, <1>a, <1>h, <1>o, RulesShape
  <2> QED
    BY <1>1, <2>1, <1>t DEF Drained, Sections
<1>2. CASE s \in Kept(ds) /\ ~s.rec /\ ~Covered(s.at, drained)
  <2>1. u \in Kept(ds) /\ ~u.rec
    BY <1>2, <1>a, <1>h, <1>k, <1>o, RulesShape
  <2> QED
    BY <1>2, <1>k, <2>1
<1>3. ASSUME NEW x \in Kept(ds), Open(ds, drained, x, s)
      PROVE  s = u
  <2>1. PICK y \in Kept(ds) : Open(ds, drained, y, u)
    BY <1>3, <1>a, <1>h, <1>k, <1>o, RulesShape
  <2>2. x = y
    BY <1>3, <1>h, <1>n, <2>1, OneCovers DEF Open
  <2>3. s.kind = u.kind /\ (s.rec <=> u.rec)
    BY <1>3, <2>1, <2>2 DEF Open
  <2> QED
    BY <1>t, <2>3 DEF Sections
<1> QED
  BY <1>1, <1>2, <1>3, RulesShape

FileKept ==
  /\ autos \subseteq sets
  /\ OneEach(conf.sections)
  /\ conf.exists \/ conf = NoConf

LEMMA FileStep == ASSUME Types, Asked, FileKept, [Next]_vars PROVE FileKept'
<1> USE DEF sys, host, vars
<1>t. conf \in ConfType
  BY DEF Types
<1>1. CASE UNCHANGED <<conf, autos, sets>>
  BY <1>1 DEF FileKept, OneEach
<1>2. CASE Truncate
  <2>1. conf'.sections = {} /\ conf'.exists
    BY <1>2 DEF Truncate, NoConf
  <2> QED
    BY <1>2, <2>1 DEF Truncate, FileKept, OneEach
<1>3. CASE Write
  <2>1. conf'.sections = Rules(job.sets, job.drained) /\ conf'.exists
    BY <1>3 DEF Write, Generate
  <2>2. Read(job.sets, job.drained)
    BY <1>3 DEF Write, At, Asked, Asking
  <2>3. OneEach(conf'.sections)
    BY <2>1, <2>2, RulesOneEach
  <2> QED
    BY <1>3, <2>1, <2>3 DEF Write, FileKept, OneEach
<1>4. CASE AddSection \/ EditSection
  <2>1. conf'.sections \subseteq conf.sections /\ conf'.exists
    BY <1>4, <1>t DEF AddSection, EditSection, ConfType
  <2> QED
    BY <1>4, <2>1 DEF AddSection, EditSection, FileKept, OneEach
<1>5. CASE SanoidRuns \/ InitialSnapshots
  <2>1. \A eff \in Readings : Taken(eff) \subseteq sets
    BY DEF Readings, Taken
  <2>2. UNCHANGED <<conf, sets>> /\ autos' \subseteq sets
    BY <1>5, <2>1 DEF SanoidRuns, InitialSnapshots, FileKept
  <2> QED
    BY <2>2 DEF FileKept, OneEach
<1>6. CASE KeepBoot \/ \E d \in Names : Make(d) \/ Destroy(d)
  <2>1. UNCHANGED conf /\ autos' \subseteq sets'
    BY <1>6 DEF KeepBoot, Make, Destroy, FileKept
  <2> QED
    BY <2>1 DEF FileKept, OneEach
<1>7. CASE Dependencies \/ ReadOrigin \/ Decline \/ Accept \/ StartTimer \/ AlertFiles
           \/ AlertTimer \/ Complete \/ StartSetup \/ StartRemove \/ RemoveFiles \/ Stop
           \/ \E d \in Names : Exclude(d) \/ Include(d)
  BY <1>1, <1>7
  DEF Dependencies, ReadOrigin, Decline, Accept, StartTimer, AlertFiles, AlertTimer, Complete,
      StartSetup, StartRemove, RemoveFiles, Stop, Exclude, Include, Flag
<1> QED
  BY <1>1, <1>2, <1>3, <1>4, <1>5, <1>6, <1>7 DEF Next, Step

(* What is in sanoid.conf is one section for a dataset, exclusions are of  *)
(* datasets that are there, and with a dataset there are those its path    *)
(* goes through (commands/setup.py, lib/exclusions.py).                    *)
THEOREM PolicyTypes == Spec => []TypeOK
<1>1. Init => FileKept
  BY DEF Init, FileKept, OneEach, NoConf
<1>2. PolicyInv /\ FileKept /\ [Next]_vars => FileKept'
  BY FileStep DEF PolicyInv, KeptInv
<1>3. PolicyInv /\ FileKept => TypeOK
  BY DEF PolicyInv, KeptInv, Types, Grown, Closed, FileKept, OneEach, TypeOK
<1> QED
  BY <1>1, <1>2, <1>3, PolicyInvHolds, PTL DEF Spec

(* sanoid.conf, when zark finds no gap in it, gives every dataset of       *)
(* origin the one policy setup documents, and what a drained section       *)
(* covers gets no snapshot of sanoid even from a file half written or      *)
(* edited, in whatever order sanoid reads the sections (lib/sanoid.py,     *)
(* commands/setup.py); for any tree of datasets.                           *)
THEOREM PolicyHolds == Spec => []PolicyTrue
<1>1. PolicyInv => GapTrue
  <2> SUFFICES ASSUME PolicyInv, ~Gap, NEW d \in sets
               PROVE  Possible(conf.sections, d) = Wanted(sets, NoSnapshot(flags), d)
    BY DEF GapTrue
  <2>1. conf.sections = Rules(sets, NoSnapshot(flags))
    BY DEF Gap, Differs
  <2>2. Read(sets, NoSnapshot(flags))
    BY DEF PolicyInv, Grown, Read, NoSnapshot
  <2> QED
    BY <2>1, <2>2, Means
<1>2. PolicyInv => DrainedStays
  <2> SUFFICES ASSUME PolicyInv, NEW s \in conf.sections, s.kind = "drained",
                      NEW d \in sets, Under(d, s.at)
               PROVE  Possible(conf.sections, d) = {"drained"}
    BY DEF DrainedStays
  <2>1. d \in Names /\ \A u \in conf.sections : u.at \in Names
    BY DEF PolicyInv, KeptInv, Types, ConfType, Sections
  <2>2. \A u \in conf.sections : /\ s.rec
                                 /\ Under(u.at, s.at) \/ (u.rec /\ Below(s.at, u.at)) =>
                                      u.kind = "drained"
    BY DEF PolicyInv, DrainedAlone
  <2>3. ASSUME NEW u \in conf.sections, u.at = d \/ (u.rec /\ Below(d, u.at))
        PROVE  u.kind = "drained"
    <3>1. CASE Under(u.at, s.at)
      BY <2>2, <3>1
    <3>2. CASE ~Under(u.at, s.at)
      <4>1. u.rec /\ Under(d, u.at)
        BY <2>3, <3>2 DEF Below
      <4>2. Under(s.at, u.at) /\ s.at # u.at
        BY <2>1, <3>2, <4>1, Tree
      <4> QED
        BY <2>2, <4>1, <4>2 DEF Below
    <3> QED
      BY <3>1, <3>2
  <2>4. s.at = d \/ (s.rec /\ Below(d, s.at))
    BY <2>2 DEF Below
  <2>5. \A k : k \in Possible(conf.sections, d) <=> k = "drained"
    BY <2>3, <2>4, PossibleIs
  <2> QED
    BY <2>5
<1> QED
  BY <1>1, <1>2, PolicyInvHolds, PTL DEF PolicyTrue
=============================================================================
