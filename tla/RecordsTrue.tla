---------------------------- MODULE RecordsTrue ----------------------------
(***************************************************************************)
(* Proof that Records keeps its types, that what status.json and the       *)
(* registry say of a run is true, that a recorded result stays there, and  *)
(* that a reader of the files never looks past a failed run, for any       *)
(* drives and bounds.                                                      *)
(*                                                                         *)
(* A result is copied: from the run's memory into a writer's update, from  *)
(* there into the file, from the file into the next writer's memory.  So   *)
(* the invariant says that every copy is true (Files, Buffers), that no    *)
(* copy names a run whose facts can still change (Past), what is known of  *)
(* the run at each step (Known), and that a progress.json a new command    *)
(* finds is of a run that died (Orphans), which is what makes the          *)
(* interrupted of an orphan true.                                          *)
(*                                                                         *)
(* Two writers merge status.json without knowing of each other; what keeps *)
(* a result is that a writer under status.lock works on the file as it is  *)
(* (Turn), that each writer carries at most the update of its own errand   *)
(* (Errand), and that no update is older than what the file has: a run's   *)
(* own result is given once (Given), and an orphan is never older than a   *)
(* run the file names, because a command writes progress.json before it    *)
(* can record anything (Latest).                                           *)
(***************************************************************************)
EXTENDS Monitor, TLAPS

(* The steps at which the facts of the current run may still grow.         *)
Open == Starting \cup {"command", "named", "work", "export", "readback"}

(* Run n's facts are final (0 names no run).                               *)
Past(n) == n \in 0 .. now /\ (n = now /\ n # 0 => pc \notin Open)

Died(r) == "killed" \in mishaps[r] \/ "cut" \in mishaps[r]

GoodDate(n)  == n \in Runs => Past(n) /\ Finished(n)
GoodLast(r, x) == r # 0 => Past(r) /\ Says(r, x)
GoodEntry(e) == GoodLast(e.run, e.result) /\ GoodDate(e.at) /\ GoodDate(e.point)
GoodUp(u)    == u.result # "none" => u.run # 0 /\ GoodLast(u.run, u.result)

Files == \A d \in Drives : GoodEntry(status[d]) /\ GoodDate(registry[d])

Buffers ==
  \A w \in Writers :
    /\ GoodUp(up[w])
    /\ \A d \in Drives : GoodEntry(prev[w][d]) /\ GoodDate(cfg[w][d])

(* What the current run has done, at each step.                            *)
Known ==
  /\ \A r \in Runs : r > now => facts[r] = {}
  /\ pc \in Starting \cup {"command", "named", "work", "export", "unexported",
                           "readback", "unread"}
       => "verified" \notin facts[now]
  /\ pc = "readback" => "exported" \in facts[now]
  /\ pc \in {"partial", "save", "banner"}
       => {"exported", "verified"} \subseteq facts[now]
  /\ pc = "partial" => "whole" \notin facts[now]
  /\ pc \in {"save", "banner"} => "whole" \in facts[now]
  /\ pc = "recording" => verdict # "none" /\ Says(now, verdict)
  /\ update # "none" => pc \notin Open /\ pc # "idle" /\ Says(now, update)

Orphans ==
  /\ progress.run = 0 => progress = NoFile
  /\ heart # "off" => pc \in Working \cup {"stopping"}
  /\ pc \in {"idle"} \cup (Starting \ {"begun"})
       => progress.run = 0
          \/ (progress.run <= now /\ Died(progress.run)
              /\ (pc # "idle" => progress.run < now))
  /\ pc \in {"begun"} \cup Working \cup (Ending \ {"exit"}) => progress.run = now
  /\ pc = "exit" => progress.run = 0

(* Main is in a write of status.json only where it calls it.               *)
Placed == writer["main"] # "off" => pc \in {"orphan", "refresh", "endwrite"}

IInv == TypeOK /\ Placed /\ Files /\ Buffers /\ Known /\ Orphans
-----------------------------------------------------------------------------
(* Types.                                                                  *)

(* A merge of entries is an entry.                                         *)
LEMMA MergeType ==
  ASSUME NEW before \in Entry, NEW u \in DriveUpdate, NEW r \in 0 .. MaxRuns
  PROVE  Merge(before, u, r) \in Entry
BY DEF Merge, KeepsLast, Entry, DriveUpdate, Result, RESULTS

(* What build writes is one entry per drive, of the right type.            *)
LEMMA BuildType ==
  ASSUME TypeOK, NEW w \in Writers
  PROVE  Build(w) \in [Drives -> Entry]
<1>1. ASSUME NEW d \in Drives, cfg[w][d] # Unknown
      PROVE  Merge(prev[w][d], For(w, d), cfg[w][d]) \in Entry
  <2>1. prev[w][d] \in Entry /\ cfg[w][d] \in 0 .. MaxRuns
    BY <1>1, BoundsAssumption DEF TypeOK, Registry, Unknown
  <2>2. For(w, d) \in DriveUpdate
    BY BoundsAssumption DEF TypeOK, For, NoUpdate, DriveUpdate, Result
  <2>. QED BY <2>1, <2>2, MergeType
<1>2. Unlisted \in Entry
  BY BoundsAssumption DEF Unlisted, Entry, Result
<1>. QED BY <1>1, <1>2 DEF Build

(* Loading and closing a writer keep the writers' types.                   *)
LEMMA LoadType ==
  ASSUME TypeOK, NEW w \in Writers, NEW r \in Registry, NEW u \in DriveUpdate,
         Load(w, r, u)
  PROVE  /\ lock' \in Writers \cup {"free"}
         /\ writer' \in [Writers -> {"off", "loaded", "locked"}]
         /\ cfg' \in [Writers -> Registry]
         /\ prev' \in [Writers -> [Drives -> Entry]]
         /\ up' \in [Writers -> DriveUpdate]
BY DEF TypeOK, Load

(* Closing a writer leaves an empty one.                                   *)
LEMMA CloseType ==
  ASSUME TypeOK, NEW w \in Writers, Close(w)
  PROVE  /\ lock' \in Writers \cup {"free"}
         /\ writer' \in [Writers -> {"off", "loaded", "locked"}]
         /\ cfg' \in [Writers -> Registry]
         /\ prev' \in [Writers -> [Drives -> Entry]]
         /\ up' \in [Writers -> DriveUpdate]
<1>1. [d \in Drives |-> Unknown] \in Registry
  BY BoundsAssumption DEF Registry, Unknown
<1>2. [d \in Drives |-> Unlisted] \in [Drives -> Entry]
  BY BoundsAssumption DEF Unlisted, Entry, Result
<1>3. NoUpdate \in DriveUpdate
  BY BoundsAssumption DEF NoUpdate, DriveUpdate, Result
<1>. QED BY <1>1, <1>2, <1>3 DEF TypeOK, Close, Writers
(* What changes a run's date or its mishaps keeps their types.             *)
LEMMA DateType ==
  ASSUME TypeOK
  PROVE  [registry EXCEPT ![drive] = now] \in Registry
<1>1. now \in Unknown .. MaxRuns
  BY BoundsAssumption DEF TypeOK, Unknown
<1>. QED BY <1>1 DEF TypeOK, Registry

(* A mishap of the current run is one.                                     *)
LEMMA MishapType ==
  ASSUME TypeOK, NEW m \in {"killed", "cut", "unwritten"}, Mishap(m)
  PROVE  mishaps' \in [Runs -> SUBSET {"killed", "cut", "unwritten"}]
BY DEF TypeOK, Mishap

(* Counted faults stay within the bound.                                   *)
LEMMA FaultType ==
  ASSUME TypeOK, Fault
  PROVE  faults' \in 0 .. MaxFaults
BY BoundsAssumption DEF TypeOK, Fault

(* A process that is over has nothing in memory.                           *)
LEMMA OverType ==
  ASSUME Over
  PROVE  /\ pc' = "idle"
         /\ command' \in {"backup", "other"}
         /\ drive' \in Drives \cup {NoDrive}
         /\ heart' \in {"off", "wait", "write"}
         /\ {signalled', onEnd', done'} \subseteq BOOLEAN
         /\ {verdict', update'} \subseteq Result
BY DEF Over, Result

(* After a write main is at a step of its own.                             *)
LEMMA ResumeType ==
  ASSUME TypeOK, Placed, NEW w \in Writers, writer[w] # "off", Resume(w)
  PROVE  /\ pc' \in {"idle"} \cup Starting \cup Working \cup Ending
         /\ pc' # "idle" => now \in Runs
         /\ pc' \in Working \ {"command", "ending"} => drive \in Drives
BY DEF TypeOK, Placed, Writers, Resume, Starting, Working, Ending

(* Every step keeps the types.                                             *)
LEMMA TypeStep ==
  ASSUME TypeOK, Placed, [Next]_vars
  PROVE  TypeOK'
<1>1. CASE UNCHANGED vars
  BY <1>1 DEF TypeOK, mainVars, memory, writerVars, vars
<1>2. CASE \E c \in {"backup", "other"} : Start(c)
  BY <1>2, BoundsAssumption
  DEF TypeOK, mainVars, memory, writerVars, Start, Runs, Result, RESULTS,
      Starting, Working, Ending, Fact
<1>3. CASE \E d \in Drives : SetDrive(d)
  BY <1>3
  DEF TypeOK, mainVars, memory, writerVars, SetDrive, Runs, Result, RESULTS,
      Starting, Working, Ending, Fact
<1>4. CASE FindOrphan
  <2>1. CASE OrphanCounts /\ Load("main", registry, OrphanUpdate) /\ pc' = "orphan"
    <3>1. OrphanUpdate \in DriveUpdate
      BY <2>1 DEF TypeOK, OrphanCounts, OrphanUpdate, Document, DriveUpdate,
                  Result, RESULTS
    <3>. QED BY <1>4, <2>1, <3>1, LoadType
         DEF TypeOK, FindOrphan, mainVars, memory, Writers, Runs, Result,
             RESULTS, Starting, Working, Ending, Fact
  <2>2. CASE pc' = "first" /\ UNCHANGED writerVars
    BY <1>4, <2>2
    DEF TypeOK, mainVars, memory, writerVars, FindOrphan, Runs, Result,
        RESULTS, Starting, Working, Ending, Fact
  <2>. QED BY <1>4, <2>1, <2>2 DEF FindOrphan
<1>5. CASE FirstWrite
  BY <1>5, BoundsAssumption
  DEF TypeOK, mainVars, memory, writerVars, FirstWrite, Written, Document,
      Runs, Result, RESULTS, Starting, Working, Ending, Fact
<1>6. CASE Begin
  BY <1>6, BoundsAssumption
  DEF TypeOK, mainVars, memory, writerVars, Begin, Runs, Result, RESULTS,
      Starting, Working, Ending, Fact
<1>7. CASE BeatLock
  BY <1>7, BoundsAssumption
  DEF TypeOK, mainVars, memory, writerVars, BeatLock, Runs, Result, RESULTS,
      Starting, Working, Ending, Fact
<1>8. CASE BeatWrite
  BY <1>8, BoundsAssumption
  DEF TypeOK, mainVars, memory, writerVars, BeatWrite, Written, Document,
      Runs, Result, RESULTS, Starting, Working, Ending, Fact
<1>9. CASE OtherCommand
  BY <1>9, BoundsAssumption
  DEF TypeOK, mainVars, memory, writerVars, OtherCommand, Registry, Unknown,
      Runs, Result, RESULTS, Starting, Working, Ending, Fact
<1>10. CASE RegisterFinish
  BY <1>10, BoundsAssumption
  DEF TypeOK, mainVars, memory, writerVars, RegisterFinish, Runs, Result,
      RESULTS, Starting, Working, Ending, Fact
<1>11. CASE Fatal
  BY <1>11, BoundsAssumption
  DEF TypeOK, mainVars, memory, writerVars, Fatal, Runs, Result, RESULTS,
      Starting, Working, Ending, Fact
<1>12. CASE BeginReceive
  BY <1>12, BoundsAssumption
  DEF TypeOK, mainVars, memory, writerVars, BeginReceive, Learn, Runs,
      Result, RESULTS, Starting, Working, Ending, Fact
<1>13. CASE Replicated
  BY <1>13, BoundsAssumption
  DEF TypeOK, mainVars, memory, writerVars, Replicated, Learn, Runs, Result,
      RESULTS, Starting, Working, Ending, Fact
<1>14. CASE Export
  BY <1>14, BoundsAssumption
  DEF TypeOK, mainVars, memory, writerVars, Export, Learn, Runs, Result,
      RESULTS, Starting, Working, Ending, Fact
<1>15. CASE ReadBack
  BY <1>15, BoundsAssumption
  DEF TypeOK, mainVars, memory, writerVars, ReadBack, Learn, Runs, Result,
      RESULTS, Starting, Working, Ending, Fact
<1>16. CASE SaveDrives
  BY <1>16, DateType
  DEF TypeOK, mainVars, memory, writerVars, SaveDrives, Runs, Result,
      RESULTS, Starting, Working, Ending, Fact
<1>17. CASE SetDone
  BY <1>17, BoundsAssumption
  DEF TypeOK, mainVars, memory, writerVars, SetDone, Runs, Result, RESULTS,
      Starting, Working, Ending, Fact
<1>18. CASE Record
  <2>1. CASE /\ pc' = "refresh"
             /\ Load("main", [registry EXCEPT ![drive] = now], OwnUpdate(verdict))
    <3>1. OwnUpdate(verdict) \in DriveUpdate
      BY DEF TypeOK, OwnUpdate, DriveUpdate
    <3>. QED BY <1>18, <2>1, <3>1, DateType, LoadType
         DEF TypeOK, Record, Writers, Runs, Result, RESULTS, Starting,
             Working, Ending, Fact
  <2>2. CASE pc' = "ending" /\ UNCHANGED writerVars
    BY <1>18, <2>2
    DEF TypeOK, mainVars, memory, writerVars, Record, Runs, Result, RESULTS,
        Starting, Working, Ending, Fact
  <2>. QED BY <1>18, <2>1, <2>2 DEF Record
<1>19. CASE Answer
  BY <1>19, BoundsAssumption
  DEF TypeOK, mainVars, memory, writerVars, Answer, Runs, Result, RESULTS,
      Starting, Working, Ending, Fact
<1>20. CASE Teardown
  BY <1>20, BoundsAssumption
  DEF TypeOK, mainVars, memory, writerVars, Teardown, Runs, Result, RESULTS,
      Starting, Working, Ending, Fact
<1>21. CASE Finish
  <2>1. FinishResult \in Result
    BY DEF TypeOK, FinishResult, Result, RESULTS
  <2>2. OwnUpdate(FinishResult) \in DriveUpdate
    BY <2>1 DEF TypeOK, OwnUpdate, DriveUpdate
  <2>3. registry \in Registry /\ Load("main", registry, OwnUpdate(FinishResult))
    BY <1>21 DEF TypeOK, Finish
  <2>. QED BY <1>21, <2>1, <2>2, <2>3, LoadType
       DEF TypeOK, Finish, Writers, Starting, Working, Ending, Runs
<1>22. CASE Unlink
  BY <1>22, BoundsAssumption
  DEF TypeOK, mainVars, memory, writerVars, Unlink, NoFile, Document, Runs,
      Result, RESULTS, Starting, Working, Ending, Fact
<1>23. CASE Exit
  BY <1>23, BoundsAssumption
  DEF TypeOK, mainVars, memory, writerVars, Exit, Over, Runs, Result,
      RESULTS, Starting, Working, Ending, Fact
<1>24. CASE Signal
  <2>1. Close("main")
    BY <1>24 DEF Signal, Dies
  <2>2. mishaps' \in [Runs -> SUBSET {"killed", "cut", "unwritten"}]
    BY <1>24, MishapType DEF TypeOK, Signal
  <2>3. Fault /\ UNCHANGED <<now, facts, progress, registry, status, dropped>>
    BY <1>24 DEF Signal
  <2>4. CASE signalled' = TRUE /\ pc' = "ending" /\ UNCHANGED <<memory, heart>>
    BY <1>24, <2>1, <2>2, <2>3, <2>4, CloseType, FaultType
    DEF TypeOK, Signal, memory, Starting, Working, Writers
  <2>5. CASE Over
    BY <2>1, <2>2, <2>3, <2>5, CloseType, OverType, FaultType
    DEF TypeOK, Working, Writers
  <2>. QED BY <1>24, <2>4, <2>5 DEF Signal, Dies
<1>25. CASE Kill
  <2>1. Close("main")
    BY <1>25 DEF Kill, Dies
  <2>2. mishaps' \in [Runs -> SUBSET {"killed", "cut", "unwritten"}]
    BY <1>25, MishapType DEF TypeOK, Kill
  <2>3. Over /\ Fault
    BY <1>25 DEF Kill, Dies
  <2>. QED BY <1>25, <2>1, <2>2, <2>3, CloseType, OverType, FaultType
       DEF TypeOK, Kill, Working, Writers
<1>26. CASE Reboot
  <2>1. mishaps' \in [Runs -> SUBSET {"killed", "cut", "unwritten"}]
    BY <1>26, MishapType DEF TypeOK, Reboot
  <2>2. /\ cfg' \in [Writers -> Registry]
        /\ prev' \in [Writers -> [Drives -> Entry]]
        /\ up' \in [Writers -> DriveUpdate]
    BY <1>26, BoundsAssumption
    DEF Reboot, Registry, Unknown, Unlisted, Entry, NoUpdate, DriveUpdate,
        Result
  <2>3. Over /\ Fault
    BY <1>26 DEF Reboot
  <2>4. progress' \in Document
    BY <1>26, BoundsAssumption DEF Reboot, NoFile, Document
  <2>. QED BY <1>26, <2>1, <2>2, <2>3, <2>4, OverType, FaultType
       DEF TypeOK, Reboot, Working
<1>27. CASE Timer
  <2>1. NoUpdate \in DriveUpdate /\ registry \in Registry
    BY BoundsAssumption DEF TypeOK, NoUpdate, DriveUpdate, Result
  <2>. QED BY <1>27, <2>1, LoadType
       DEF TypeOK, Timer, mainVars, memory, Writers
<1>28. CASE \E w \in Writers : Write(w) \/ WriteFails(w)
  <2>. PICK w \in Writers : Write(w) \/ WriteFails(w)
    BY <1>28
  <2>1. CASE LockStatus(w)
    BY <2>1 DEF TypeOK, mainVars, memory, writerVars, LockStatus
  <2>2. CASE WriteStatus(w)
    <3>1. status' \in [Drives -> Entry]
      BY <2>2, BuildType DEF WriteStatus
    <3>2. mishaps' \in [Runs -> SUBSET {"killed", "cut", "unwritten"}]
      BY <2>2 DEF TypeOK, WriteStatus
    <3>3. Close(w) /\ Resume(w) /\ writer[w] # "off"
      BY <2>2 DEF WriteStatus
    <3>. QED BY <2>2, <3>1, <3>2, <3>3, CloseType, ResumeType
         DEF TypeOK, WriteStatus, mainVars, memory
  <2>3. CASE GiveUp(w) \/ WriteFails(w)
    <3>1. mishaps' \in [Runs -> SUBSET {"killed", "cut", "unwritten"}]
      BY <2>3, MishapType DEF TypeOK, GiveUp, WriteFails, Unwritten
    <3>2. Close(w) /\ Resume(w) /\ writer[w] # "off" /\ faults' \in 0 .. MaxFaults
      BY <2>3, BoundsAssumption
      DEF TypeOK, GiveUp, WriteFails, Unwritten, Fault
    <3>. QED BY <2>3, <3>1, <3>2, CloseType, ResumeType
         DEF TypeOK, GiveUp, WriteFails, Unwritten, mainVars, memory
  <2>. QED BY <2>1, <2>2, <2>3 DEF Write
<1>. QED BY <1>1, <1>2, <1>3, <1>4, <1>5, <1>6, <1>7, <1>8, <1>9, <1>10,
    <1>11, <1>12, <1>13, <1>14, <1>15, <1>16, <1>17, <1>18, <1>19, <1>20,
    <1>21, <1>22, <1>23, <1>24, <1>25, <1>26, <1>27, <1>28
     DEF Next, Main, End

(* Main stays at the call while it is in a write.                          *)
LEMMA PlacedStep ==
  ASSUME TypeOK, Placed, [Next]_vars
  PROVE  Placed'
<1>. USE DEF Placed
<1>1. CASE UNCHANGED vars
  BY <1>1 DEF vars, writerVars
<1>2. CASE \/ \E c \in {"backup", "other"} : Start(c)
           \/ \E d \in Drives : SetDrive(d)
  BY <1>2 DEF Start, SetDrive, writerVars
<1>3. CASE FirstWrite \/ Begin \/ BeatLock \/ BeatWrite \/ OtherCommand
           \/ RegisterFinish \/ Fatal
  BY <1>3 DEF FirstWrite, Begin, BeatLock, BeatWrite, OtherCommand,
              RegisterFinish, Fatal, writerVars
<1>4. CASE BeginReceive \/ Replicated \/ Export \/ ReadBack \/ SaveDrives
           \/ SetDone \/ Answer
  BY <1>4 DEF BeginReceive, Replicated, Export, ReadBack, SaveDrives, SetDone,
              Answer, writerVars
<1>5. CASE Teardown \/ Unlink \/ Exit
  BY <1>5 DEF Teardown, Unlink, Exit, Over, writerVars
<1>6. CASE FindOrphan \/ Record
  BY <1>6 DEF FindOrphan, Record, Load, writerVars
<1>7. CASE Finish \/ Timer
  BY <1>7 DEF TypeOK, Finish, Timer, Load, Writers
<1>8. CASE Signal \/ Kill \/ Reboot
  BY <1>8 DEF TypeOK, Signal, Kill, Reboot, Dies, Close, Writers
<1>9. CASE \E w \in Writers : Write(w) \/ WriteFails(w)
  BY <1>9 DEF TypeOK, Write, WriteFails, LockStatus, WriteStatus, GiveUp,
              Unwritten, Close, Resume, Writers
<1>. QED BY <1>1, <1>2, <1>3, <1>4, <1>5, <1>6, <1>7, <1>8, <1>9
     DEF Next, Main, End

(* Initially the types hold.                                               *)
LEMMA InitTypes ==
  ASSUME Init
  PROVE  TypeOK /\ Placed
<1>0. registry \in Registry
  <2>1. registry \in [Drives -> {Unknown, 0}]
    BY DEF Init
  <2>2. {Unknown, 0} \subseteq Unknown .. MaxRuns
    BY BoundsAssumption DEF Unknown
  <2>. QED BY <2>1, <2>2 DEF Registry
<1>1. status \in [Drives -> Entry] /\ progress \in Document
  BY BoundsAssumption
  DEF Init, Unlisted, Entry, Result, NoFile, Document
<1>2. /\ cfg \in [Writers -> Registry]
      /\ prev \in [Writers -> [Drives -> Entry]]
      /\ up \in [Writers -> DriveUpdate]
  BY BoundsAssumption
  DEF Init, Registry, Unknown, Unlisted, Entry, Result, NoUpdate, DriveUpdate
<1>3. facts \in [Runs -> SUBSET Fact]
      /\ mishaps \in [Runs -> SUBSET {"killed", "cut", "unwritten"}]
  BY DEF Init
<1>4. /\ lock \in Writers \cup {"free"}
      /\ writer \in [Writers -> {"off", "loaded", "locked"}]
      /\ writer["main"] = "off"
  BY DEF Init, Writers
<1>5. /\ now \in 0 .. MaxRuns /\ faults \in 0 .. MaxFaults
      /\ pc = "idle" /\ "idle" \notin Working
  BY BoundsAssumption DEF Init, Working
<1>6. /\ command \in {"backup", "other"}
      /\ drive \in Drives \cup {NoDrive}
      /\ heart \in {"off", "wait", "write"}
      /\ {signalled, onEnd, done} \subseteq BOOLEAN
      /\ {verdict, update} \subseteq Result
      /\ dropped \subseteq Drives
  BY DEF Init, Result
<1>. QED BY <1>0, <1>1, <1>2, <1>3, <1>4, <1>5, <1>6 DEF TypeOK, Placed

(* The types of Records hold in every state.                               *)
THEOREM RecordTypes == Spec => []TypeOK
<1>1. Init => TypeOK /\ Placed
  BY InitTypes
<1>2. TypeOK /\ Placed /\ [Next]_vars => TypeOK' /\ Placed'
  BY TypeStep, PlacedStep
<1>. QED BY <1>1, <1>2, PTL DEF Spec
-----------------------------------------------------------------------------
(* What is said of a run whose facts are final stays true.                 *)

(* Every step moves on: a run's facts are final once the run is past.      *)
LEMMA Kept ==
  ASSUME TypeOK, Placed, [Next]_vars, NEW r \in Runs, Past(r)
  PROVE  Past(r)' /\ facts'[r] = facts[r] /\ (Died(r) => Died(r)')
<1>. USE DEF Past, Died, Open, Starting
<1>1. CASE UNCHANGED vars
  BY <1>1 DEF vars, mainVars
<1>2. CASE \/ \E c \in {"backup", "other"} : Start(c)
           \/ \E d \in Drives : SetDrive(d)
  <2>1. CASE \E c \in {"backup", "other"} : Start(c)
    <3>1. now' = now + 1 /\ facts' = facts /\ mishaps' = mishaps
      BY <2>1 DEF Start
    <3>. QED BY <3>1, BoundsAssumption DEF TypeOK, Runs
  <2>2. CASE \E d \in Drives : SetDrive(d)
    BY <2>2 DEF SetDrive
  <2>. QED BY <1>2, <2>1, <2>2
<1>3. CASE FirstWrite \/ Begin \/ BeatLock \/ BeatWrite \/ OtherCommand
           \/ RegisterFinish \/ Fatal \/ FindOrphan
  BY <1>3 DEF FirstWrite, Begin, BeatLock, BeatWrite, OtherCommand,
              RegisterFinish, Fatal, FindOrphan, mainVars
<1>4. CASE BeginReceive \/ Replicated \/ Export \/ ReadBack
  <2>1. pc \in Open /\ now' = now /\ mishaps' = mishaps
    BY <1>4 DEF BeginReceive, Replicated, Export, ReadBack
  <2>2. r # now /\ r \in 0 .. now
    BY <2>1 DEF Runs
  <2>3. facts'[r] = facts[r]
    BY <1>4, <2>2
    DEF TypeOK, BeginReceive, Replicated, Export, ReadBack, Learn
  <2>. QED BY <2>1, <2>2, <2>3
<1>5. CASE SaveDrives \/ SetDone \/ Answer \/ Record
  BY <1>5 DEF SaveDrives, SetDone, Answer, Record, mainVars
<1>6. CASE Teardown \/ Unlink \/ Exit \/ Finish \/ Timer
  BY <1>6 DEF Teardown, Unlink, Exit, Over, Finish, Timer, mainVars
<1>7. CASE Signal \/ Kill \/ Reboot
  BY <1>7 DEF TypeOK, Signal, Kill, Reboot, Dies, Over, Mishap, Working
<1>8. CASE \E w \in Writers : Write(w) \/ WriteFails(w)
  <2>. PICK w \in Writers : Write(w) \/ WriteFails(w)
    BY <1>8
  <2>1. CASE LockStatus(w)
    BY <2>1 DEF LockStatus, mainVars
  <2>2. CASE WriteStatus(w)
    BY <2>2 DEF TypeOK, WriteStatus, Resume, Placed, Writers, mainVars
  <2>3. CASE GiveUp(w) \/ WriteFails(w)
    BY <2>3 DEF TypeOK, GiveUp, WriteFails, Unwritten, Mishap, Resume, Placed,
                Writers, mainVars
  <2>. QED BY <2>1, <2>2, <2>3 DEF Write
<1>. QED BY <1>1, <1>2, <1>3, <1>4, <1>5, <1>6, <1>7, <1>8 DEF Next, Main, End

(* So is every copy of a date, an entry or an update.                      *)
LEMMA LastKept ==
  ASSUME TypeOK, Placed, [Next]_vars, NEW r \in 0 .. MaxRuns, NEW x,
         GoodLast(r, x)
  PROVE  GoodLast(r, x)'
<1>. SUFFICES ASSUME r # 0
              PROVE  Past(r)' /\ Says(r, x)'
  BY DEF GoodLast
<1>1. r \in Runs /\ Past(r) /\ Says(r, x)
  BY DEF GoodLast, Runs
<1>2. Past(r)' /\ facts'[r] = facts[r] /\ (Died(r) => Died(r)')
  BY <1>1, Kept
<1>. QED BY <1>1, <1>2 DEF Says, Finished, Died

(* A true date stays true.                                                 *)
LEMMA DateKept ==
  ASSUME TypeOK, Placed, [Next]_vars, NEW n, GoodDate(n)
  PROVE  GoodDate(n)'
<1>. SUFFICES ASSUME n \in Runs
              PROVE  Past(n)' /\ Finished(n)'
  BY DEF GoodDate, Runs
<1>1. Past(n) /\ Finished(n)
  BY DEF GoodDate
<1>. QED BY <1>1, Kept DEF Finished

(* A true entry of status.json stays true.                                 *)
LEMMA EntryKept ==
  ASSUME TypeOK, Placed, [Next]_vars, NEW e \in Entry, GoodEntry(e)
  PROVE  GoodEntry(e)'
<1>1. e.run \in 0 .. MaxRuns
  BY DEF Entry
<1>. QED BY <1>1, LastKept, DateKept DEF GoodEntry

(* A true update stays true.                                               *)
LEMMA UpKept ==
  ASSUME TypeOK, Placed, [Next]_vars, NEW u \in DriveUpdate, GoodUp(u)
  PROVE  GoodUp(u)'
<1>1. u.run \in 0 .. MaxRuns
  BY DEF DriveUpdate
<1>. QED BY <1>1, LastKept DEF GoodUp
-----------------------------------------------------------------------------
(* What is written is true.                                                *)

(* A merge of true entries, dates and updates is true.                     *)
LEMMA MergeGood ==
  ASSUME TypeOK, NEW before \in Entry, NEW u \in DriveUpdate,
         NEW n \in 0 .. MaxRuns, GoodEntry(before), GoodUp(u), GoodDate(n)
  PROVE  GoodEntry(Merge(before, u, n))
<1>1. u.result = "completed" => GoodDate(u.run)
  BY DEF GoodUp, GoodLast, GoodDate, Says
<1>2. GoodDate(Merge(before, u, n).at) /\ GoodDate(Merge(before, u, n).point)
  BY <1>1 DEF Merge, GoodEntry
<1>3. GoodLast(Merge(before, u, n).run, Merge(before, u, n).result)
  BY DEF Merge, GoodEntry, GoodUp
<1>. QED BY <1>2, <1>3 DEF GoodEntry

(* An empty entry and an empty update say nothing.                         *)
LEMMA NothingGood == GoodEntry(Unlisted) /\ GoodUp(NoUpdate) /\ GoodDate(Unknown)
BY DEF GoodEntry, GoodLast, GoodDate, GoodUp, Unlisted, NoUpdate, Unknown, Runs

(* What build writes from true buffers is true.                            *)
LEMMA BuildGood ==
  ASSUME TypeOK, Buffers, NEW w \in Writers, NEW d \in Drives
  PROVE  GoodEntry(Build(w)[d])
<1>1. CASE cfg[w][d] = Unknown
  BY <1>1, NothingGood DEF Build
<1>2. CASE cfg[w][d] # Unknown
  <2>1. prev[w][d] \in Entry /\ cfg[w][d] \in 0 .. MaxRuns
    BY <1>2, BoundsAssumption DEF TypeOK, Registry, Unknown
  <2>2. For(w, d) \in DriveUpdate
    BY BoundsAssumption DEF TypeOK, For, NoUpdate, DriveUpdate, Result
  <2>3. GoodUp(For(w, d))
    BY NothingGood DEF Buffers, For
  <2>4. GoodEntry(prev[w][d]) /\ GoodDate(cfg[w][d])
    BY DEF Buffers
  <2>5. GoodEntry(Merge(prev[w][d], For(w, d), cfg[w][d]))
    BY <2>1, <2>2, <2>3, <2>4, MergeGood
  <2>. QED BY <1>2, <2>5 DEF Build
<1>. QED BY <1>1, <1>2

(* A true entry, date or update that a step leaves or copies is true after *)
(* it.                                                                     *)
LEMMA StatusGood ==
  ASSUME IInv, [Next]_vars, NEW d \in Drives,
         status'[d] = status[d] \/ \E w \in Writers : status'[d] = Build(w)[d]
  PROVE  GoodEntry(status[d])'
<1>1. PICK e \in Entry : e = status'[d]
  BY TypeStep DEF IInv, TypeOK
<1>2. GoodEntry(e)
  BY <1>1, BuildGood DEF IInv, Files
<1>3. GoodEntry(e)'
  BY <1>2, EntryKept DEF IInv
<1>. QED BY <1>1, <1>3

(* A date of the new registry stays true through the step.                 *)
LEMMA RegistryGood ==
  ASSUME IInv, [Next]_vars, NEW d \in Drives,
         GoodDate(registry'[d])
  PROVE  GoodDate(registry[d])'
<1>1. PICK n : n = registry'[d]
  OBVIOUS
<1>2. GoodDate(n)
  BY <1>1
<1>3. GoodDate(n)'
  BY <1>2, DateKept DEF IInv
<1>. QED BY <1>1, <1>3

(* The buffers hold true copies, judged before the step that fills them.   *)
Filled ==
  \A w \in Writers :
    /\ GoodUp(up'[w])
    /\ \A d \in Drives : GoodEntry(prev'[w][d]) /\ GoodDate(cfg'[w][d])

(* Writers filled with true copies are true after the step.                *)
LEMMA BuffersGood ==
  ASSUME IInv, [Next]_vars, Filled
  PROVE  Buffers'
<1>. SUFFICES ASSUME NEW w \in Writers
              PROVE  /\ GoodUp(up[w])'
                     /\ \A d \in Drives : GoodEntry(prev[w][d])' /\ GoodDate(cfg[w][d])'
  BY DEF Buffers
<1>0. TypeOK'
  BY TypeStep DEF IInv
<1>1. GoodUp(up[w])'
  <2>1. PICK u \in DriveUpdate : u = up'[w]
    BY <1>0 DEF TypeOK
  <2>2. GoodUp(u)'
    BY <2>1, UpKept DEF IInv, Filled
  <2>. QED BY <2>1, <2>2
<1>2. ASSUME NEW d \in Drives
      PROVE  GoodEntry(prev[w][d])' /\ GoodDate(cfg[w][d])'
  <2>1. PICK e \in Entry : e = prev'[w][d]
    BY <1>0 DEF TypeOK
  <2>2. PICK n : n = cfg'[w][d]
    OBVIOUS
  <2>3. GoodEntry(e)'
    BY <2>1, EntryKept DEF IInv, Filled
  <2>4. GoodDate(n)'
    BY <2>2, DateKept DEF IInv, Filled
  <2>. QED BY <2>1, <2>2, <2>3, <2>4
<1>. QED BY <1>1, <1>2

(* Loading a true registry and a true update, and closing.                 *)
LEMMA LoadGood ==
  ASSUME TypeOK, Buffers, NEW w \in Writers, NEW r, NEW u, Load(w, r, u),
         GoodUp(u), \A d \in Drives : GoodDate(r[d])
  PROVE  Filled
<1>. SUFFICES ASSUME NEW x \in Writers
              PROVE  /\ GoodUp(up'[x])
                     /\ \A d \in Drives : GoodEntry(prev'[x][d]) /\ GoodDate(cfg'[x][d])
  BY DEF Filled
<1>1. up'[x] = (IF x = w THEN u ELSE up[x]) /\ cfg'[x] = (IF x = w THEN r ELSE cfg[x])
  BY DEF TypeOK, Load
<1>2. prev' = prev
  BY DEF Load
<1>. QED BY <1>1, <1>2 DEF Buffers

(* A closed writer says nothing; the other keeps what it had.              *)
LEMMA CloseGood ==
  ASSUME TypeOK, Buffers, NEW w \in Writers, Close(w)
  PROVE  Filled
<1>. SUFFICES ASSUME NEW x \in Writers, NEW d \in Drives
              PROVE  GoodUp(up'[x]) /\ GoodEntry(prev'[x][d]) /\ GoodDate(cfg'[x][d])
  <2>1. ASSUME NEW x \in Writers
        PROVE  GoodUp(up'[x])
    BY NothingGood DEF TypeOK, Buffers, Close
  <2>. QED BY <2>1 DEF Filled
<1>1. up'[x] = (IF x = w THEN NoUpdate ELSE up[x])
  BY DEF TypeOK, Close
<1>2. cfg'[x][d] = (IF x = w THEN Unknown ELSE cfg[x][d])
      /\ prev'[x][d] = (IF x = w THEN Unlisted ELSE prev[x][d])
  BY DEF TypeOK, Close
<1>. QED BY <1>1, <1>2, NothingGood DEF Buffers

(* Writers nobody moved hold true copies.                                  *)
LEMMA SameGood ==
  ASSUME Buffers, UNCHANGED <<cfg, prev, up>>
  PROVE  Filled
BY DEF Buffers, Filled

(* The three updates main writes are true.                                 *)
LEMMA OrphanGood ==
  ASSUME IInv, pc = "started", OrphanCounts
  PROVE  GoodUp(OrphanUpdate)
<1>1. progress.run # 0
  BY DEF IInv, Orphans, OrphanCounts, NoFile
<1>2. progress.run < now /\ Died(progress.run) /\ progress.run \in 0 .. MaxRuns
  BY <1>1 DEF IInv, TypeOK, Document, Orphans, Starting
<1>3. Past(progress.run)
  BY <1>2 DEF IInv, TypeOK, Past
<1>4. Says(progress.run, "interrupted")
  BY <1>2 DEF Says, Died
<1>. QED BY <1>1, <1>3, <1>4 DEF GoodUp, GoodLast, OrphanUpdate

(* A run's own update is true when its result is.                          *)
LEMMA OwnGood ==
  ASSUME IInv, pc \in {"recording", "stopping"}, NEW x, Says(now, x)
  PROVE  GoodUp(OwnUpdate(x))
<1>1. now # 0 /\ Past(now)
  BY DEF IInv, TypeOK, Runs, Past, Open, Starting
<1>. QED BY <1>1 DEF GoodUp, GoodLast, OwnUpdate

(* What finish records is true: aborted when nothing was sent.             *)
LEMMA FinishTrue ==
  ASSUME IInv
  PROVE  Says(now, FinishResult)
<1>1. Says(now, "none")
  BY DEF Says
<1>2. update # "none" => Says(now, update)
  BY DEF IInv, Known
<1>3. "began" \in facts[now] => Says(now, "interrupted")
  BY DEF Says
<1>4. "began" \notin facts[now] => Says(now, "aborted")
  BY DEF Says
<1>. QED BY <1>1, <1>2, <1>3, <1>4 DEF FinishResult

(* The registry a completed run holds in memory is true.                   *)
LEMMA NowGood ==
  ASSUME IInv, pc \in {"save", "banner", "recording"}, Finished(now), NEW d \in Drives
  PROVE  GoodDate([registry EXCEPT ![drive] = now][d])
<1>1. Past(now)
  BY DEF IInv, TypeOK, Past, Open, Starting
<1>2. [registry EXCEPT ![drive] = now][d] \in {now, registry[d]}
  BY DEF IInv, TypeOK, Registry
<1>. QED BY <1>1, <1>2 DEF IInv, Files, GoodDate
-----------------------------------------------------------------------------
(* Every step keeps each part of the invariant.                            *)

(* Every step keeps what the files say true.                               *)
LEMMA FilesStep ==
  ASSUME IInv, [Next]_vars
  PROVE  Files'
<1>. SUFFICES ASSUME NEW d \in Drives
              PROVE  GoodEntry(status[d])' /\ GoodDate(registry[d])'
  BY DEF Files
<1>1. status'[d] = status[d] \/ \E w \in Writers : status'[d] = Build(w)[d]
  <2>1. CASE \E w \in Writers : WriteStatus(w)
    BY <2>1 DEF WriteStatus
  <2>2. CASE ~ \E w \in Writers : WriteStatus(w)
    <3>1. CASE UNCHANGED vars \/ Main
      BY <3>1
      DEF vars, Main, Start, FindOrphan, FirstWrite, Begin, OtherCommand,
          Fatal,
          RegisterFinish, SetDrive, BeginReceive, Replicated, Export, ReadBack,
          SaveDrives, SetDone, Record, Answer
    <3>2. CASE End \/ BeatLock \/ BeatWrite \/ Timer \/ Signal \/ Kill \/ Reboot
      BY <3>2
      DEF End, Teardown, Finish, Unlink, Exit, BeatLock, BeatWrite, Timer,
                  Signal, Kill, Reboot
    <3>3. CASE \E w \in Writers : Write(w) \/ WriteFails(w)
      BY <2>2, <3>3 DEF Write, WriteFails, LockStatus, GiveUp, Unwritten
    <3>. QED BY <3>1, <3>2, <3>3 DEF Next
  <2>. QED BY <2>1, <2>2
<1>2. GoodDate(registry'[d])
  <2>0. GoodDate(registry[d])
    BY DEF IInv, Files
  <2>1. CASE OtherCommand
    <3>1. registry'[d] \in {registry[d], 0, Unknown}
      BY <2>1 DEF IInv, TypeOK, Registry, OtherCommand
    <3>. QED BY <2>0, <3>1 DEF GoodDate, Unknown, Runs
  <2>2. CASE SaveDrives
    <3>1. pc = "save" /\ Finished(now)
      BY <2>2 DEF SaveDrives, IInv, Known, Finished
    <3>2. registry' \in {registry, [registry EXCEPT ![drive] = now]}
      BY <2>2 DEF SaveDrives
    <3>. QED BY <2>0, <3>1, <3>2, NowGood
  <2>3. CASE registry' = registry
    BY <2>0, <2>3
  <2>4. CASE ~OtherCommand /\ ~SaveDrives
    <3>1. CASE UNCHANGED vars \/ Main
      BY <2>3, <2>4, <3>1
      DEF vars, Main, Start, FindOrphan, FirstWrite, Begin, Fatal,
          RegisterFinish, SetDrive, BeginReceive, Replicated, Export, ReadBack,
          SetDone, Record, Answer
    <3>2. CASE End \/ BeatLock \/ BeatWrite \/ Timer \/ Signal \/ Kill \/ Reboot
      BY <2>3, <3>2
      DEF End, Teardown, Finish, Unlink, Exit, BeatLock, BeatWrite,
                        Timer, Signal, Kill, Reboot
    <3>3. CASE \E w \in Writers : Write(w) \/ WriteFails(w)
      BY <2>3, <3>3
      DEF Write, WriteFails, LockStatus, WriteStatus, GiveUp, Unwritten
    <3>. QED BY <3>1, <3>2, <3>3 DEF Next
  <2>. QED BY <2>1, <2>2, <2>4
<1>. QED BY <1>1, <1>2, StatusGood, RegistryGood

(* Every step keeps what the writers hold true.                            *)
LEMMA BuffersStep ==
  ASSUME IInv, [Next]_vars
  PROVE  Buffers'
<1>. SUFFICES Filled
  BY BuffersGood
<1>0. TypeOK /\ Buffers /\ \A d \in Drives : GoodDate(registry[d])
  BY DEF IInv, Files
<1>1. CASE UNCHANGED writerVars
  BY <1>0, <1>1, SameGood DEF writerVars
<1>2. CASE FindOrphan
  <2>1. CASE OrphanCounts /\ Load("main", registry, OrphanUpdate)
    <3>1. GoodUp(OrphanUpdate)
      BY <1>2, <2>1, OrphanGood DEF FindOrphan
    <3>. QED BY <1>0, <2>1, <3>1, LoadGood DEF Writers
  <2>. QED BY <1>1, <1>2, <2>1 DEF FindOrphan
<1>3. CASE Record
  <2>1. pc = "recording" /\ Says(now, verdict)
    BY <1>3 DEF Record, IInv, Known
  <2>2. CASE verdict = "completed"
             /\ Load("main", [registry EXCEPT ![drive] = now], OwnUpdate(verdict))
    <3>1. Finished(now)
      BY <2>1, <2>2 DEF Says
    <3>2. \A d \in Drives : GoodDate([registry EXCEPT ![drive] = now][d])
      BY <2>1, <3>1, NowGood
    <3>3. GoodUp(OwnUpdate(verdict))
      BY <2>1, OwnGood
    <3>. QED BY <1>0, <2>2, <3>2, <3>3, LoadGood DEF Writers
  <2>. QED BY <1>1, <1>3, <2>2 DEF Record
<1>4. CASE Finish
  <2>1. GoodUp(OwnUpdate(FinishResult))
    BY <1>4, FinishTrue, OwnGood DEF Finish
  <2>. QED BY <1>0, <1>4, <2>1, LoadGood DEF Finish, Writers
<1>5. CASE Timer
  BY <1>0, <1>5, NothingGood, LoadGood DEF Timer, Writers
<1>6. CASE Signal \/ Kill
  <2>1. Close("main")
    BY <1>6 DEF Signal, Kill, Dies
  <2>. QED BY <1>0, <2>1, CloseGood DEF Writers
<1>7. CASE Reboot
  BY <1>7, NothingGood DEF Reboot, Filled
<1>8. CASE \E w \in Writers : Write(w) \/ WriteFails(w)
  <2>. PICK w \in Writers : Write(w) \/ WriteFails(w)
    BY <1>8
  <2>1. CASE LockStatus(w)
    <3>1. cfg' = cfg /\ up' = up
      BY <2>1 DEF LockStatus
    <3>2. \A x \in Writers : prev'[x] \in {prev[x], status}
      BY <2>1 DEF LockStatus, IInv, TypeOK
    <3>. QED BY <1>0, <3>1, <3>2 DEF IInv, Files, Buffers, Filled
  <2>2. CASE Close(w)
    BY <1>0, <2>2, CloseGood
  <2>. QED BY <2>1, <2>2 DEF Write, WriteFails, WriteStatus, GiveUp, Unwritten
<1>9. CASE UNCHANGED vars \/ Main \/ End \/ BeatLock \/ BeatWrite
  BY <1>1, <1>2, <1>3, <1>4, <1>9
  DEF vars, Main, Start, FirstWrite, Begin, OtherCommand, Fatal,
      RegisterFinish,
      SetDrive, BeginReceive, Replicated, Export, ReadBack, SaveDrives, SetDone,
      Answer, End, Teardown, Unlink, Exit, BeatLock, BeatWrite
<1>. QED BY <1>5, <1>6, <1>7, <1>8, <1>9 DEF Next

(* A progress.json without its process is of a run that died.              *)
LEMMA OrphansStep ==
  ASSUME IInv, [Next]_vars
  PROVE  Orphans'
<1>. USE DEF Orphans, Starting, Working, Ending, Died
<1>0. TypeOK /\ Placed /\ Orphans
  BY DEF IInv
<1>1. CASE UNCHANGED vars
  BY <1>0, <1>1 DEF vars, mainVars
<1>2. CASE \/ \E c \in {"backup", "other"} : Start(c)
           \/ \E d \in Drives : SetDrive(d)
  BY <1>0, <1>2 DEF TypeOK, Document, Start, SetDrive
<1>3. CASE FindOrphan \/ OtherCommand \/ RegisterFinish \/ Fatal
  BY <1>0, <1>3 DEF FindOrphan, OtherCommand, RegisterFinish, Fatal, mainVars
<1>4. CASE FirstWrite \/ BeatWrite
  <2>1. now # 0 /\ pc # "idle"
    BY <1>0, <1>4 DEF TypeOK, Runs, FirstWrite, BeatWrite
  <2>. QED BY <1>0, <1>4, <2>1 DEF FirstWrite, BeatWrite, Written, mainVars
<1>5. CASE Begin \/ BeatLock
  BY <1>0, <1>5 DEF Begin, BeatLock, mainVars
<1>6. CASE BeginReceive \/ Replicated \/ Export \/ ReadBack \/ SaveDrives
           \/ SetDone \/ Answer \/ Record
  BY <1>0, <1>6
  DEF BeginReceive, Replicated, Export, ReadBack, SaveDrives, SetDone,
              Answer, Record, mainVars
<1>7. CASE Teardown \/ Finish \/ Timer
  BY <1>0, <1>7 DEF Teardown, Finish, Timer, mainVars
<1>8. CASE Unlink \/ Exit
  BY <1>0, <1>8 DEF Unlink, Exit, Over, NoFile, mainVars
<1>9. CASE Signal \/ Kill
  <2>1. now \in Runs
    BY <1>0, <1>9 DEF TypeOK, Signal, Kill
  <2>2. now' = now /\ progress' = progress
    BY <1>9 DEF Signal, Kill
  <2>3. CASE Over /\ (Mishap("cut") \/ Mishap("killed"))
    <3>1. mishaps'[now] \cap {"cut", "killed"} # {}
          /\ \A r \in Runs : mishaps[r] \subseteq mishaps'[r]
      BY <2>1, <2>3 DEF Mishap, IInv, TypeOK
    <3>2. pc' = "idle" /\ heart' = "off"
      BY <2>3 DEF Over
    <3>3. progress.run # 0 => progress.run <= now /\ progress.run \in Runs
                              /\ (progress.run = now \/ Died(progress.run))
      BY <1>0, <2>1, <1>9 DEF TypeOK, Document, Runs, Signal, Kill
    <3>. QED BY <1>0, <2>2, <3>1, <3>2, <3>3
  <2>4. CASE pc \in Working /\ pc' = "ending" /\ heart' = heart
    BY <1>0, <2>2, <2>4
  <2>. QED BY <1>9, <2>3, <2>4 DEF Signal, Kill, Dies
<1>10. CASE Reboot
  BY <1>10 DEF Reboot, Over, NoFile
<1>11. CASE \E w \in Writers : Write(w) \/ WriteFails(w)
  <2>. PICK w \in Writers : Write(w) \/ WriteFails(w)
    BY <1>11
  <2>1. CASE LockStatus(w)
    BY <1>0, <2>1 DEF LockStatus, mainVars
  <2>2. CASE WriteStatus(w) \/ GiveUp(w) \/ WriteFails(w)
    <3>1. UNCHANGED <<now, heart, progress>> /\ Resume(w) /\ writer[w] # "off"
      BY <2>2 DEF WriteStatus, GiveUp, WriteFails, Unwritten, mainVars
    <3>2. \A r \in Runs : Died(r) => Died(r)'
      BY <1>0, <2>2
      DEF TypeOK, WriteStatus, GiveUp, WriteFails, Unwritten, Mishap
    <3>3. progress.run # 0 => progress.run \in Runs
      BY <1>0 DEF TypeOK, Document, Runs
    <3>. QED BY <1>0, <3>1, <3>2, <3>3 DEF Resume, Placed, Writers
  <2>. QED BY <2>1, <2>2 DEF Write
<1>. QED BY <1>1, <1>2, <1>3, <1>4, <1>5, <1>6, <1>7, <1>8, <1>9, <1>10, <1>11
     DEF Next, Main, End

(* What holds of the current run once its facts are final stays so.        *)
LEMMA SaysNow ==
  ASSUME IInv, [Next]_vars, pc \notin Open, now \in Runs, now' = now, NEW x,
         Says(now, x)
  PROVE  Says(now, x)' /\ facts'[now] = facts[now]
<1>1. Past(now)
  BY DEF Past, Runs
<1>2. facts'[now] = facts[now] /\ (Died(now) => Died(now)')
  BY <1>1, Kept DEF IInv
<1>. QED BY <1>2 DEF Says, Finished, Died

(* What the current run knows of itself is true at every step.             *)
LEMMA KnownStep ==
  ASSUME IInv, [Next]_vars
  PROVE  Known'
<1>0. TypeOK /\ Placed /\ Known
  BY DEF IInv
<1>1. CASE \E c \in {"backup", "other"} : Start(c)
  <2>1. pc = "idle" /\ pc' = "started" /\ now' = now + 1 /\ now' \in Runs
        /\ facts' = facts /\ update' = update
    BY <1>0, <1>1, BoundsAssumption DEF Start, TypeOK, Runs
  <2>2. facts'[now'] = {}
    BY <1>0, <2>1 DEF Known, TypeOK
  <2>3. update' = "none"
    BY <1>0, <2>1 DEF Known
  <2>. QED BY <1>0, <2>1, <2>2, <2>3 DEF Known, TypeOK
<1>2. CASE BeginReceive \/ Replicated \/ Export \/ ReadBack
  <2>1. now \in Runs /\ now' = now /\ update' = update /\ update = "none"
    BY <1>0, <1>2
    DEF Known, TypeOK, Open, Starting, BeginReceive, Replicated, Export,
        ReadBack
  <2>2. \A r \in Runs : r > now => facts'[r] = {}
    <3>1. facts' = facts \/ \E f \in Fact : Learn(f)
      BY <1>2 DEF BeginReceive, Replicated, Export, ReadBack, Fact
    <3>2. \A r \in Runs : r # now => facts'[r] = facts[r]
      BY <1>0, <3>1 DEF TypeOK, Learn
    <3>3. \A r \in Runs : r > now => r # now
      BY <2>1 DEF Runs
    <3>. QED BY <1>0, <3>2, <3>3 DEF Known
  <2>3. CASE BeginReceive
    BY <1>0, <2>1, <2>2, <2>3 DEF Known, TypeOK, BeginReceive, Learn, Starting
  <2>4. CASE Replicated
    BY <1>0, <2>1, <2>2, <2>4 DEF Known, TypeOK, Replicated, Learn, Starting
  <2>5. CASE Export
    BY <1>0, <2>1, <2>2, <2>5 DEF Known, TypeOK, Export, Learn, Starting
  <2>6. CASE ReadBack
    BY <1>0, <2>1, <2>2, <2>6 DEF Known, TypeOK, ReadBack, Learn, Starting
  <2>. QED BY <1>2, <2>3, <2>4, <2>5, <2>6
<1>3. CASE /\ now' = now /\ facts' = facts /\ update' = update
           /\ verdict' = verdict /\ pc' = pc
  <2>1. pc = "recording" => Says(now, verdict)'
    BY <1>0, <1>3, SaysNow DEF Known, TypeOK, Open, Starting
  <2>2. update # "none" => Says(now, update)'
    BY <1>0, <1>3, SaysNow DEF Known, TypeOK
  <2>3. verdict' = verdict /\ update' = update /\ now' = now
    BY <1>3
  <2>. QED BY <1>0, <1>3, <2>1, <2>2, <2>3 DEF Known, Says, Finished
<1>4. CASE /\ now' = now /\ facts' = facts /\ update' = update
           /\ pc \in Starting \cup {"command", "named"}
           /\ pc' \in Starting \cup {"command", "named", "work", "ending", "idle"}
  <2>1. update = "none"
    BY <1>0, <1>4 DEF Known, Open
  <2>. QED BY <1>0, <1>4, <2>1 DEF Known, Starting
<1>5. CASE /\ now' = now /\ facts' = facts /\ update' = update
           /\ pc' \in {"ending", "stopping", "prompt", "unlink", "exit"}
  <2>1. CASE update = "none"
    BY <1>0, <1>5, <2>1 DEF Known, Starting
  <2>2. CASE update # "none"
    <3>1. Says(now, update)'
      BY <1>0, <1>5, <2>2, SaysNow DEF Known, TypeOK
    <3>. QED BY <1>0, <1>5, <2>2, <3>1
         DEF Known, Starting, Open, Says, Finished
  <2>. QED BY <2>1, <2>2
<1>6. CASE SaveDrives
  <2>1. now' = now /\ facts' = facts /\ mishaps' = mishaps /\ update' = update
        /\ pc = "save" /\ pc' = "banner"
    BY <1>6 DEF SaveDrives, mainVars, memory
  <2>2. update # "none" => Says(now, update)'
    BY <1>0, <2>1 DEF Known, Says, Finished
  <2>. QED BY <1>0, <2>1, <2>2 DEF Known, Starting, Open, Says, Finished
<1>7. CASE SetDone
  <2>1. now \in Runs /\ now' = now /\ facts' = facts /\ mishaps' = mishaps
        /\ update' = update /\ pc' = "recording"
    BY <1>0, <1>7 DEF TypeOK, SetDone
  <2>2. Says(now, verdict)' /\ verdict' # "none"
    BY <1>0, <1>7, <2>1 DEF Known, SetDone, Says, Finished
  <2>3. update # "none" => Says(now, update)'
    BY <1>0, <1>7, <2>1 DEF Known, Says, Finished
  <2>. QED BY <1>0, <1>7, <2>1, <2>2, <2>3
       DEF Known, Starting, Open, Says, Finished
<1>8. CASE Record
  <2>1. Says(now, verdict) /\ now' = now /\ facts' = facts /\ mishaps' = mishaps
        /\ update' = verdict /\ pc' \in {"refresh", "ending"}
    BY <1>0, <1>8 DEF Known, Record
  <2>. QED BY <1>0, <2>1 DEF Known, Starting, Open, Says, Finished
<1>9. CASE Finish
  <2>1. Says(now, FinishResult) /\ now' = now /\ facts' = facts
        /\ mishaps' = mishaps /\ update' = FinishResult /\ pc' = "endwrite"
    BY <1>9, FinishTrue DEF Finish
  <2>. QED BY <1>0, <2>1 DEF Known, Starting, Open, Says, Finished
<1>10. CASE now' = now /\ facts' = facts /\ Over
  BY <1>0, <1>10 DEF Known, Over, Starting
<1>11. CASE \E w \in Writers : Write(w) \/ WriteFails(w)
  <2>. PICK w \in Writers : Write(w) \/ WriteFails(w)
    BY <1>11
  <2>1. now' = now /\ facts' = facts /\ update' = update /\ verdict' = verdict
    BY DEF Write, WriteFails, LockStatus, WriteStatus, GiveUp, Unwritten,
           mainVars, memory
  <2>2. pc' = pc \/ (pc = "orphan" /\ pc' = "first") \/ pc' \in {"prompt", "unlink"}
    BY <1>0
    DEF Write, WriteFails, LockStatus, WriteStatus, GiveUp, Unwritten, Resume
  <2>. QED BY <1>3, <1>4, <1>5, <2>1, <2>2 DEF Starting
<1>12. CASE UNCHANGED vars \/ BeatLock \/ BeatWrite \/ Timer
  BY <1>3, <1>12 DEF vars, BeatLock, BeatWrite, Timer, mainVars, memory
<1>13. CASE FindOrphan \/ FirstWrite \/ Begin \/ RegisterFinish
            \/ \E d \in Drives : SetDrive(d)
  BY <1>4, <1>13 DEF FindOrphan, FirstWrite, Begin, RegisterFinish, SetDrive,
                     mainVars, memory, Starting
<1>14. CASE OtherCommand \/ Fatal \/ Answer \/ Teardown \/ Unlink
  BY <1>5, <1>14
  DEF OtherCommand, Fatal, Answer, Teardown, Unlink, mainVars, memory
<1>15. CASE Exit \/ Signal \/ Kill \/ Reboot
  BY <1>5, <1>10, <1>15 DEF Exit, Signal, Kill, Reboot, Dies, memory
<1>. QED BY <1>1, <1>2, <1>6, <1>7, <1>8, <1>9, <1>11, <1>12, <1>13, <1>14,
    <1>15
     DEF Next, Main, End

(* Initially nothing is said of any run.                                   *)
LEMMA InitGood ==
  ASSUME Init, TypeOK, Placed
  PROVE  IInv
<1>1. Files
  <2>1. \A d \in Drives : status[d] = Unlisted /\ registry[d] \in {Unknown, 0}
    BY DEF Init
  <2>2. 0 \notin Runs
    BY BoundsAssumption DEF Runs
  <2>3. GoodDate(0)
    BY <2>2 DEF GoodDate
  <2>. QED BY <2>1, <2>3, NothingGood DEF Files
<1>2. Buffers
  BY NothingGood DEF Init, Buffers
<1>3. Known /\ Orphans
  BY DEF Init, Known, Orphans, NoFile, Starting, Working, Ending
<1>. QED BY <1>1, <1>2, <1>3 DEF IInv

(* The invariant holds in every state.                                     *)
THEOREM RecordsInvariant == Spec => []IInv
<1>1. Init => TypeOK /\ Placed
  BY InitTypes
<1>2. Init => IInv
  BY <1>1, InitGood
<1>3. IInv /\ [Next]_vars => IInv'
  <2>. SUFFICES ASSUME IInv, [Next]_vars
                PROVE  IInv'
    OBVIOUS
  <2>1. TypeOK' /\ Placed'
    BY TypeStep, PlacedStep DEF IInv
  <2>. QED BY <2>1, FilesStep, BuffersStep, KnownStep, OrphansStep DEF IInv
<1>. QED BY <1>2, <1>3, PTL DEF Spec

(* What status.json and the registry say of a run is true of it, for any   *)
(* number of drives, runs and faults.                                      *)
THEOREM RecordsTruth == Spec => []TrueResults
<1>1. IInv => TrueResults
  <2>. SUFFICES ASSUME IInv, NEW d \in Drives
                PROVE  /\ status[d].run # 0 => Says(status[d].run, status[d].result)
                       /\ status[d].at # 0 => Finished(status[d].at)
                       /\ status[d].point # 0 => Finished(status[d].point)
                       /\ registry[d] \in Runs => Finished(registry[d])
    BY DEF TrueResults
  <2>1. GoodEntry(status[d]) /\ GoodDate(registry[d])
    BY DEF IInv, Files
  <2>2. /\ status[d].at # 0 => status[d].at \in Runs
        /\ status[d].point # 0 => status[d].point \in Runs
    BY BoundsAssumption DEF IInv, TypeOK, Entry, Runs
  <2>. QED BY <2>1, <2>2 DEF GoodEntry, GoodLast, GoodDate
<1>. QED BY <1>1, RecordsInvariant, PTL

(* A progress.json found with no command running is of a run that died:    *)
(* the heartbeat never brings a removed one back.                          *)
THEOREM RecordsNoGhost == Spec => []NoGhost
<1>1. IInv => NoGhost
  BY DEF IInv, Orphans, Died, NoGhost
<1>. QED BY <1>1, RecordsInvariant, PTL
-----------------------------------------------------------------------------
Turn ==
  \A w \in Writers :
    /\ writer[w] = "locked" <=> lock = w
    /\ lock = w => prev[w] = status

Errand ==
  /\ up["timer"] = NoUpdate
  /\ writer["main"] # "off" =>
       \/ /\ pc = "orphan" /\ up["main"] = OrphanUpdate
          /\ progress.drive \in Drives /\ cfg["main"][progress.drive] # Unknown
       \/ /\ pc \in {"refresh", "endwrite"}
          /\ up["main"] = OwnUpdate(update)
          /\ update # "none" => cfg["main"][drive] # Unknown

(* Where a run has recorded its result.                                    *)
Closing == {"refresh", "prompt", "ending", "stopping", "endwrite", "unlink", "exit"}

Given ==
  /\ update # "none" => done = TRUE /\ drive \in Drives /\ pc \in Closing
  /\ pc = "recording" => done = TRUE
  /\ onEnd = TRUE => drive \in Drives
  /\ drive \in Drives => /\ registry[drive] # Unknown
                         /\ command = "backup"
                         /\ pc \in Working \cup Ending

Latest ==
  \A d \in Drives :
    /\ status[d].listed = FALSE => status[d].run = 0
    /\ status[d].run # 0 => status[d].result # "none"
    /\ progress.run # 0 => status[d].run <= progress.run
    /\ status[d].run = now /\ pc # "idle" =>
         d = drive /\ status[d].result = update /\ update # "none"

StayInv == Turn /\ Errand /\ Given /\ Latest

(* What a step may do to a drive's entry.                                  *)
EntryStays(d) ==
  status[d].listed = TRUE /\ status'[d].listed = TRUE =>
    \/ status'[d].run > status[d].run
    \/ status'[d].run = status[d].run /\ status'[d].result = status[d].result
-----------------------------------------------------------------------------
(* Whoever holds status.lock has read the file as it still is.             *)
LEMMA TurnStep ==
  ASSUME IInv, Turn, [Next]_vars
  PROVE  Turn'
<1>0. TypeOK /\ Placed
  BY DEF IInv
<1>1. CASE UNCHANGED <<status, lock, writer, prev>>
  BY <1>1 DEF Turn
<1>2. ASSUME NEW w \in Writers, NEW r, NEW u, writer[w] # "locked",
             Load(w, r, u), status' = status
      PROVE  Turn'
  BY <1>0, <1>2 DEF Turn, Load, TypeOK, Writers
<1>3. ASSUME NEW w \in Writers, Close(w), status' = status \/ lock = w
      PROVE  Turn'
  BY <1>0, <1>3 DEF Turn, Close, TypeOK, Writers
<1>4. CASE FindOrphan
  <2>1. writer["main"] # "locked" /\ status' = status
    BY <1>0, <1>4 DEF FindOrphan, Placed
  <2>. QED BY <1>1, <1>2, <1>4, <2>1 DEF FindOrphan, writerVars, Writers
<1>5. CASE Record
  <2>1. writer["main"] # "locked" /\ status' = status
    BY <1>0, <1>5 DEF Record, Placed
  <2>. QED BY <1>1, <1>2, <1>5, <2>1 DEF Record, writerVars, Writers
<1>6. CASE Finish
  <2>1. writer["main"] # "locked" /\ status' = status
    BY <1>0, <1>6 DEF Finish, Placed
  <2>. QED BY <1>2, <1>6, <2>1 DEF Finish, Writers
<1>7. CASE Timer
  BY <1>2, <1>7 DEF Timer, Writers
<1>8. CASE Signal \/ Kill
  <2>1. Close("main") /\ status' = status
    BY <1>8 DEF Signal, Kill, Dies
  <2>. QED BY <1>3, <2>1 DEF Writers
<1>9. CASE Reboot
  BY <1>9 DEF Reboot, Turn, Writers
<1>10. CASE \E w \in Writers : Write(w) \/ WriteFails(w)
  <2>. PICK w \in Writers : Write(w) \/ WriteFails(w)
    BY <1>10
  <2>1. CASE LockStatus(w)
    BY <1>0, <2>1 DEF LockStatus, Turn, TypeOK, Writers
  <2>2. CASE WriteStatus(w)
    BY <1>3, <2>2 DEF WriteStatus, Turn
  <2>3. CASE GiveUp(w) \/ WriteFails(w)
    BY <1>3, <2>3 DEF GiveUp, WriteFails, Unwritten
  <2>. QED BY <2>1, <2>2, <2>3 DEF Write
<1>11. CASE UNCHANGED vars \/ Main \/ End \/ BeatLock \/ BeatWrite
  BY <1>1, <1>4, <1>5, <1>6, <1>11
  DEF vars, Main, Start, FirstWrite, Begin, OtherCommand, Fatal,
      RegisterFinish, SetDrive, BeginReceive, Replicated, Export, ReadBack,
      SaveDrives, SetDone, Answer, End, Teardown, Unlink, Exit, BeatLock,
      BeatWrite, writerVars
<1>. QED BY <1>7, <1>8, <1>9, <1>10, <1>11 DEF Next

(* A run names its drive once, and has it in its registry to the end.      *)
LEMMA GivenStep ==
  ASSUME IInv, Given, [Next]_vars
  PROVE  Given'
<1>0. TypeOK /\ Placed
  BY DEF IInv
<1>. USE DEF Given, Closing, Starting, Working, Ending
<1>1. CASE UNCHANGED vars
  BY <1>0, <1>1 DEF vars, mainVars, memory
<1>2. CASE \E c \in {"backup", "other"} : Start(c)
  BY <1>0, <1>2 DEF Start, TypeOK
<1>3. CASE \E d \in Drives : SetDrive(d)
  BY <1>0, <1>3 DEF SetDrive
<1>4. CASE FindOrphan \/ FirstWrite \/ Begin \/ BeatLock \/ BeatWrite \/ Timer
  BY <1>0, <1>4 DEF FindOrphan, FirstWrite, Begin, BeatLock, BeatWrite, Timer,
                    mainVars, memory
<1>5. CASE OtherCommand
  BY <1>0, <1>5 DEF OtherCommand, mainVars, memory
<1>6. CASE RegisterFinish
  BY <1>0, <1>6 DEF RegisterFinish, TypeOK
<1>7. CASE Fatal \/ Answer \/ Teardown \/ Unlink
  BY <1>0, <1>7 DEF Fatal, Answer, Teardown, Unlink, mainVars, memory
<1>8. CASE BeginReceive \/ Replicated \/ Export \/ ReadBack
  BY <1>0, <1>8 DEF BeginReceive, Replicated, Export, ReadBack
<1>9. CASE SaveDrives
  <2>1. now # Unknown /\ drive \in Drives
    BY <1>0, <1>9 DEF TypeOK, SaveDrives, Unknown, Runs
  <2>2. registry'[drive] # Unknown
    BY <1>0, <1>9, <2>1 DEF SaveDrives, TypeOK, Registry
  <2>. QED BY <1>0, <1>9, <2>1, <2>2 DEF SaveDrives, mainVars, memory
<1>10. CASE SetDone
  BY <1>0, <1>10 DEF SetDone
<1>11. CASE Record
  BY <1>0, <1>11 DEF Record, TypeOK
<1>12. CASE Finish
  <2>1. UNCHANGED <<drive, onEnd, registry, command>> /\ pc' = "endwrite"
    BY <1>12 DEF Finish
  <2>2. update' # "none" => done' = TRUE /\ drive \in Drives
    <3>1. done \in BOOLEAN /\ onEnd \in BOOLEAN
      BY <1>0 DEF TypeOK
    <3>. QED BY <1>12, <3>1 DEF Finish, FinishResult
  <2>. QED BY <2>1, <2>2
<1>13. CASE Exit \/ Kill \/ Reboot
  <2>1. Over
    BY <1>13 DEF Exit, Kill, Reboot, Dies
  <2>. QED BY <2>1, NoDriveAssumption DEF Over
<1>14. CASE Signal
  <2>1. CASE Over
    BY <2>1, NoDriveAssumption DEF Over
  <2>2. CASE pc \in Working /\ pc' = "ending" /\ UNCHANGED <<memory, registry>>
    BY <2>2 DEF memory
  <2>. QED BY <1>14, <2>1, <2>2 DEF Signal, Dies
<1>15. CASE \E w \in Writers : Write(w) \/ WriteFails(w)
  <2>. PICK w \in Writers : Write(w) \/ WriteFails(w)
    BY <1>15
  <2>1. UNCHANGED <<update, done, drive, onEnd, registry, command>>
    BY DEF Write, WriteFails, LockStatus, WriteStatus, GiveUp, Unwritten,
           mainVars, memory
  <2>2. \/ pc' = pc
        \/ pc = "orphan" /\ pc' = "first"
        \/ pc = "refresh" /\ pc' = "prompt"
        \/ pc = "endwrite" /\ pc' = "unlink"
    BY <1>0 DEF Placed, Write, WriteFails, LockStatus, WriteStatus, GiveUp,
                Unwritten, Resume, Writers
  <2>. QED BY <2>1, <2>2
<1>. QED BY <1>1, <1>2, <1>3, <1>4, <1>5, <1>6, <1>7, <1>8, <1>9, <1>10, <1>11,
            <1>12, <1>13, <1>14, <1>15 DEF Next, Main, End

(* A writer carries the orphan it found, the run's own result or nothing.  *)
LEMMA ErrandStep ==
  ASSUME IInv, Given, Given', Errand, [Next]_vars
  PROVE  Errand'
<1>0. TypeOK /\ Placed /\ Orphans
  BY DEF IInv
<1>1. CASE UNCHANGED <<up, writer, cfg>> /\ writer["main"] = "off"
  BY <1>1 DEF Errand
<1>2. CASE UNCHANGED <<up, writer, cfg, pc, progress, update, drive, now>>
  BY <1>2 DEF Errand, OrphanUpdate, OwnUpdate
<1>3. CASE FindOrphan
  <2>1. CASE OrphanCounts /\ Load("main", registry, OrphanUpdate) /\ pc' = "orphan"
    <3>1. OrphanUpdate' = OrphanUpdate /\ progress' = progress
      BY <1>3 DEF FindOrphan, OrphanUpdate
    <3>2. progress.drive \in Drives /\ registry[progress.drive] # Unknown
      BY <1>0, <2>1 DEF OrphanCounts, TypeOK, Document
    <3>. QED BY <1>0, <2>1, <3>1, <3>2 DEF Errand, Load, TypeOK, Writers
  <2>2. writer["main"] = "off"
    BY <1>0, <1>3 DEF FindOrphan, Placed, TypeOK, Writers
  <2>. QED BY <1>1, <1>3, <2>1, <2>2 DEF FindOrphan, writerVars
<1>4. CASE Record
  <2>1. writer["main"] = "off" /\ drive \in Drives /\ now # Unknown
    BY <1>0, <1>4 DEF Record, Placed, TypeOK, Writers, Working, Unknown, Runs
  <2>2. CASE /\ pc' = "refresh"
             /\ Load("main", [registry EXCEPT ![drive] = now], OwnUpdate(verdict))
    <3>1. OwnUpdate(update)' = OwnUpdate(verdict)
      BY <1>4 DEF Record, OwnUpdate
    <3>2. [registry EXCEPT ![drive] = now][drive'] # Unknown
      BY <1>0, <1>4, <2>1 DEF Record, TypeOK, Registry
    <3>3. up' = [up EXCEPT !["main"] = OwnUpdate(verdict)]
          /\ cfg' = [cfg EXCEPT !["main"] = [registry EXCEPT ![drive] = now]]
      BY <2>2 DEF Load
    <3>4. up'["main"] = OwnUpdate(verdict) /\ up'["timer"] = up["timer"]
          /\ cfg'["main"] = [registry EXCEPT ![drive] = now]
      BY <1>0, <3>3 DEF TypeOK, Writers
    <3>. QED BY <2>2, <3>1, <3>2, <3>4 DEF Errand
  <2>. QED BY <1>1, <1>4, <2>1, <2>2 DEF Record, writerVars
<1>5. CASE Finish
  <2>1. OwnUpdate(update)' = OwnUpdate(FinishResult) /\ pc' = "endwrite"
    BY <1>5 DEF Finish, OwnUpdate
  <2>2. update' # "none" => registry[drive'] # Unknown
    BY <1>5 DEF Finish, Given
  <2>3. up'["main"] = OwnUpdate(FinishResult) /\ up'["timer"] = up["timer"]
        /\ cfg'["main"] = registry
    BY <1>0, <1>5 DEF Finish, Load, TypeOK, Writers
  <2>. QED BY <2>1, <2>2, <2>3 DEF Errand
<1>6. CASE Timer
  <2>1. up'["timer"] = NoUpdate /\ up'["main"] = up["main"]
        /\ cfg'["main"] = cfg["main"] /\ writer'["main"] = writer["main"]
    BY <1>0, <1>6 DEF Timer, Load, TypeOK, Writers
  <2>2. UNCHANGED <<pc, progress, update, drive, now>>
    BY <1>6 DEF Timer, mainVars, memory
  <2>. QED BY <2>1, <2>2 DEF Errand, OrphanUpdate, OwnUpdate
<1>7. CASE Signal \/ Kill \/ Reboot
  <2>1. writer'["main"] = "off" /\ up'["timer"] \in {up["timer"], NoUpdate}
    BY <1>0, <1>7 DEF Signal, Kill, Dies, Reboot, Close, TypeOK, Writers
  <2>. QED BY <2>1 DEF Errand
<1>8. CASE \E w \in Writers : Write(w) \/ WriteFails(w)
  <2>. PICK w \in Writers : Write(w) \/ WriteFails(w)
    BY <1>8
  <2>0. UNCHANGED <<progress, update, drive, now>>
    BY DEF Write, WriteFails, LockStatus, WriteStatus, GiveUp, Unwritten,
           mainVars, memory
  <2>1. CASE LockStatus(w)
    <3>1. UNCHANGED <<up, cfg, pc>> /\ (writer'["main"] # "off" => writer["main"] # "off")
      BY <1>0, <2>1 DEF LockStatus, TypeOK, Writers
    <3>. QED BY <2>0, <3>1 DEF Errand, OrphanUpdate, OwnUpdate
  <2>2. CASE Close(w) /\ Resume(w)
    <3>1. CASE w = "main"
      <4>1. writer'["main"] = "off" /\ up'["timer"] = up["timer"]
        BY <1>0, <2>2, <3>1 DEF Close, TypeOK, Writers
      <4>. QED BY <4>1 DEF Errand
    <3>2. CASE w = "timer"
      <4>1. writer'["main"] = writer["main"] /\ up'["main"] = up["main"]
            /\ cfg'["main"] = cfg["main"] /\ up'["timer"] = NoUpdate /\ pc' = pc
        BY <1>0, <2>2, <3>2 DEF Close, Resume, TypeOK, Writers
      <4>. QED BY <2>0, <4>1 DEF Errand, OrphanUpdate, OwnUpdate
    <3>. QED BY <3>1, <3>2 DEF Writers
  <2>. QED BY <2>1, <2>2 DEF Write, WriteFails, WriteStatus, GiveUp, Unwritten
<1>9. CASE UNCHANGED vars \/ BeatLock
  BY <1>2, <1>9 DEF vars, BeatLock, mainVars, memory, writerVars
<1>10. CASE BeatWrite
  <2>1. pc # "orphan" /\ UNCHANGED <<up, writer, cfg, pc, update, drive, now>>
    BY <1>0, <1>10
    DEF BeatWrite, Orphans, Working, mainVars, memory, writerVars
  <2>. QED BY <2>1 DEF Errand, OwnUpdate
<1>11. CASE Main \/ End
  <2>1. CASE pc \notin {"orphan", "refresh", "endwrite"} /\ UNCHANGED writerVars
    BY <1>0, <1>1, <2>1 DEF Placed, writerVars
  <2>. QED BY <1>3, <1>4, <1>5, <1>11, <2>1
       DEF Main, Start, FirstWrite, Begin, OtherCommand, Fatal,
           RegisterFinish, SetDrive, BeginReceive, Replicated, Export,
           ReadBack, SaveDrives, SetDone, Answer, End, Teardown, Unlink, Exit
<1>. QED BY <1>6, <1>7, <1>8, <1>9, <1>10, <1>11 DEF Next

(* What a writer of status.json leaves in a drive's entry: no run but the  *)
(* one its update names, and never an older one.                           *)
LEMMA WriteKeeps ==
  ASSUME IInv, StayInv, NEW w \in Writers, WriteStatus(w), NEW d \in Drives
  PROVE  /\ status'[d].listed \in BOOLEAN
         /\ status'[d].listed = FALSE => status'[d] = Unlisted
         /\ status'[d].listed = TRUE =>
              \/ /\ status'[d].run = status[d].run
                 /\ status'[d].result = status[d].result
              \/ /\ w = "main" /\ pc = "orphan" /\ d = progress.drive
                 /\ status'[d].run = progress.run /\ status[d].run < progress.run
                 /\ status'[d].result = "interrupted"
              \/ /\ w = "main" /\ pc \in {"refresh", "endwrite"} /\ d = drive
                 /\ update # "none" /\ status[d].run < now
                 /\ status'[d].run = now /\ status'[d].result = update
<1>0. TypeOK /\ Placed /\ Orphans /\ Files
  BY DEF IInv
<1>1. prev[w] = status /\ writer[w] = "locked"
  BY DEF StayInv, Turn, WriteStatus
<1>2. status'[d] = IF cfg[w][d] = Unknown THEN Unlisted
                   ELSE Merge(status[d], For(w, d), cfg[w][d])
  BY <1>1 DEF WriteStatus, Build
<1>3. CASE cfg[w][d] = Unknown
  BY <1>2, <1>3 DEF Unlisted
<1>4. CASE cfg[w][d] # Unknown
  <2>1. /\ status'[d].listed = TRUE
        /\ \/ For(w, d).result = "none" \/ KeepsLast(status[d], For(w, d))
           \/ /\ status'[d].run = For(w, d).run
              /\ status'[d].result = For(w, d).result
        /\ For(w, d).result = "none" \/ KeepsLast(status[d], For(w, d)) =>
             /\ status'[d].run = status[d].run
             /\ status'[d].result = status[d].result
    BY <1>2, <1>4 DEF Merge
  <2>2. CASE For(w, d).result = "none" \/ KeepsLast(status[d], For(w, d))
    BY <2>1, <2>2
  <2>3. CASE For(w, d).result # "none" /\ ~KeepsLast(status[d], For(w, d))
    <3>1. w = "main" /\ For(w, d) = up["main"] /\ up["main"].drive = d
      BY <2>3 DEF StayInv, Errand, For, NoUpdate, Writers
    <3>2. status[d].run \in 0 .. MaxRuns /\ status[d].run \in 0 .. now
          /\ now \in 0 .. MaxRuns /\ progress.run \in 0 .. MaxRuns
      BY <1>0, BoundsAssumption
      DEF TypeOK, Entry, Document, Files, GoodEntry, GoodLast, Past
    <3>3. CASE pc = "orphan" /\ up["main"] = OrphanUpdate
      <4>1. For(w, d).run = progress.run /\ For(w, d).result = "interrupted"
            /\ For(w, d).unless = TRUE /\ d = progress.drive
        BY <3>1, <3>3 DEF OrphanUpdate
      <4>2. status[d].run # progress.run
        BY <2>3, <4>1 DEF KeepsLast
      <4>3. progress.run # 0
        BY <1>0, <4>1, NoDriveAssumption DEF Orphans, NoFile
      <4>4. status[d].run <= progress.run
        BY <4>3 DEF StayInv, Latest
      <4>5. status[d].run < progress.run
        BY <3>2, <4>2, <4>4
      <4>6. status'[d].run = progress.run /\ status'[d].result = "interrupted"
        BY <2>1, <2>3, <4>1
      <4>. QED BY <2>1, <3>1, <3>3, <4>1, <4>5, <4>6
    <3>4. CASE pc \in {"refresh", "endwrite"} /\ up["main"] = OwnUpdate(update)
      <4>1. For(w, d).run = now /\ For(w, d).result = update /\ d = drive
        BY <3>1, <3>4 DEF OwnUpdate
      <4>2. status[d].run = now => status[d].result = update
        BY <3>4 DEF StayInv, Latest
      <4>3. status'[d].run = now /\ status'[d].result = update /\ update # "none"
        BY <2>1, <2>3, <4>1
      <4>4. status[d].run = now \/ status[d].run < now
        BY <3>2
      <4>. QED BY <2>1, <3>1, <3>4, <4>1, <4>2, <4>3, <4>4
    <3>. QED BY <1>1, <3>1, <3>3, <3>4 DEF StayInv, Errand
  <2>. QED BY <2>1, <2>2, <2>3
<1>. QED BY <1>3, <1>4

(* Only a writer of status.json changes it.                                *)
LEMMA StatusSame ==
  ASSUME [Next]_vars, NEW d, status'[d] # status[d]
  PROVE  \E w \in Writers : WriteStatus(w)
<1>1. CASE UNCHANGED vars \/ Main
  BY <1>1
  DEF vars, Main, Start, FindOrphan, FirstWrite, Begin, OtherCommand, Fatal,
      RegisterFinish, SetDrive, BeginReceive, Replicated, Export, ReadBack,
      SaveDrives, SetDone, Record, Answer
<1>2. CASE End \/ BeatLock \/ BeatWrite \/ Timer \/ Signal \/ Kill \/ Reboot
  BY <1>2 DEF End, Teardown, Finish, Unlink, Exit, BeatLock, BeatWrite, Timer,
              Signal, Kill, Reboot
<1>3. CASE \E w \in Writers : Write(w) \/ WriteFails(w)
  BY <1>3 DEF Write, WriteFails, LockStatus, GiveUp, Unwritten
<1>. QED BY <1>1, <1>2, <1>3 DEF Next

(* The file never names a run the next orphan or the current run could be  *)
(* older than.                                                             *)
LEMMA LatestStep ==
  ASSUME IInv, StayInv, Given', [Next]_vars
  PROVE  Latest'
<1>0. TypeOK /\ Placed /\ Orphans /\ Latest /\ Given
  BY DEF IInv, StayInv
<1>. SUFFICES ASSUME NEW d \in Drives
              PROVE  /\ status'[d].listed = FALSE => status'[d].run = 0
                     /\ status'[d].run # 0 => status'[d].result # "none"
                     /\ progress'.run # 0 => status'[d].run <= progress'.run
                     /\ status'[d].run = now' /\ pc' # "idle" =>
                          d = drive' /\ status'[d].result = update'
                          /\ update' # "none"
  BY DEF Latest
<1>1. status[d].run \in 0 .. now /\ now \in 0 .. MaxRuns
      /\ progress.run \in 0 .. MaxRuns /\ status[d].run \in 0 .. MaxRuns
  BY BoundsAssumption
  DEF IInv, TypeOK, Entry, Document, Files, GoodEntry, GoodLast, Past
<1>2. /\ status[d].listed = FALSE => status[d].run = 0
      /\ status[d].run # 0 => status[d].result # "none"
      /\ progress.run # 0 => status[d].run <= progress.run
      /\ status[d].run = now /\ pc # "idle" =>
           d = drive /\ status[d].result = update /\ update # "none" /\ pc \in Closing
  BY <1>0 DEF Latest, Given
<1>3. CASE \E w \in Writers : WriteStatus(w)
  <2>. PICK w \in Writers : WriteStatus(w)
    BY <1>3
  <2>1. UNCHANGED <<now, drive, update, progress>>
    BY DEF WriteStatus, mainVars, memory
  <2>2. /\ status'[d].listed \in BOOLEAN
        /\ status'[d].listed = FALSE => status'[d] = Unlisted
        /\ status'[d].listed = TRUE =>
             \/ /\ status'[d].run = status[d].run
                /\ status'[d].result = status[d].result
             \/ /\ w = "main" /\ pc = "orphan" /\ d = progress.drive
                /\ status'[d].run = progress.run /\ status[d].run < progress.run
                /\ status'[d].result = "interrupted"
             \/ /\ w = "main" /\ pc \in {"refresh", "endwrite"} /\ d = drive
                /\ update # "none" /\ status[d].run < now
                /\ status'[d].run = now /\ status'[d].result = update
    BY WriteKeeps
  <2>3. pc = "idle" => pc' = "idle"
    BY <1>0 DEF WriteStatus, Resume, Placed, Writers
  <2>4. CASE status'[d].listed = FALSE
    <3>1. status'[d].run = 0
      BY <2>2, <2>4 DEF Unlisted
    <3>2. pc # "idle" => now # 0
      BY <1>0 DEF TypeOK, Runs
    <3>. QED BY <1>1, <2>1, <2>3, <3>1, <3>2
  <2>5. CASE /\ status'[d].listed = TRUE
             /\ status'[d].run = status[d].run
             /\ status'[d].result = status[d].result
    BY <1>2, <2>1, <2>3, <2>5
  <2>6. CASE /\ status'[d].listed = TRUE
             /\ pc = "orphan" /\ status'[d].run = progress.run
             /\ status'[d].result = "interrupted"
    <3>1. progress.run # now
      BY <1>0, <1>1, <2>6 DEF Orphans, Starting, TypeOK, Runs
    <3>. QED BY <1>1, <2>1, <2>6, <3>1
  <2>7. CASE /\ status'[d].listed = TRUE
             /\ pc \in {"refresh", "endwrite"} /\ d = drive
             /\ update # "none"
             /\ status'[d].run = now /\ status'[d].result = update
    <3>1. progress.run = now
      BY <1>0, <2>7 DEF Orphans, Working, Ending
    <3>. QED BY <1>1, <2>1, <2>7, <3>1
  <2>. QED BY <2>2, <2>4, <2>5, <2>6, <2>7
<1>4. CASE status'[d] = status[d]
  <2>1. CASE UNCHANGED <<now, drive, update, progress>>
             /\ (pc = "idle" => pc' = "idle")
    BY <1>2, <1>4, <2>1
  <2>2. CASE pc' = "idle" /\ progress' \in {progress, NoFile}
    BY <1>2, <1>4, <2>2 DEF NoFile
  <2>3. CASE \E c \in {"backup", "other"} : Start(c)
    <3>1. now' = now + 1 /\ progress' = progress
      BY <2>3 DEF Start
    <3>. QED BY <1>1, <1>2, <1>4, <3>1
  <2>4. CASE FirstWrite \/ BeatWrite
    <3>1. \/ UNCHANGED <<now, drive, update, pc>>
          \/ pc' = "begun" /\ UNCHANGED <<now, drive, update>>
      BY <2>4 DEF FirstWrite, BeatWrite, mainVars, memory
    <3>2. pc # "idle" /\ progress'.run = now
      BY <1>0, <2>4
      DEF FirstWrite, BeatWrite, Written, Orphans, Working
    <3>. QED BY <1>1, <1>2, <1>4, <3>1, <3>2
  <2>5. CASE \E x \in Drives : SetDrive(x)
    <3>1. UNCHANGED <<now, progress>> /\ pc = "command"
      BY <2>5 DEF SetDrive
    <3>. QED BY <1>2, <1>4, <3>1 DEF Closing
  <2>6. CASE Record
    <3>1. UNCHANGED <<now, progress>> /\ pc = "recording"
      BY <2>6 DEF Record
    <3>. QED BY <1>2, <1>4, <3>1 DEF Closing
  <2>7. CASE Finish
    <3>1. UNCHANGED <<now, progress, drive>> /\ pc = "stopping"
      BY <2>7 DEF Finish
    <3>2. update # "none" => update' = update
      BY <1>0, <2>7 DEF Finish, FinishResult, Given
    <3>. QED BY <1>2, <1>4, <3>1, <3>2
  <2>8. CASE Unlink
    <3>1. UNCHANGED <<now, update, drive>> /\ pc = "unlink" /\ progress'.run = 0
      BY <2>8 DEF Unlink, NoFile, mainVars, memory
    <3>. QED BY <1>2, <1>4, <3>1
  <2>9. CASE UNCHANGED vars \/ Main
    BY <2>1, <2>3, <2>4, <2>5, <2>6, <2>9
    DEF vars, Main, FindOrphan, Begin, OtherCommand, Fatal, RegisterFinish,
        BeginReceive, Replicated, Export, ReadBack, SaveDrives, SetDone,
        Answer, mainVars, memory
  <2>10. CASE End \/ BeatLock \/ BeatWrite \/ Timer
    BY <2>1, <2>2, <2>4, <2>7, <2>8, <2>10
    DEF End, Teardown, Exit, Over, BeatLock, Timer, mainVars, memory
  <2>11. CASE Kill \/ Reboot \/ Signal
    BY <2>1, <2>2, <2>11
    DEF Kill, Reboot, Signal, Dies, Over, memory, Starting, Working
  <2>12. CASE \E w \in Writers : Write(w) \/ WriteFails(w)
    <3>. PICK w \in Writers : Write(w) \/ WriteFails(w)
      BY <2>12
    <3>1. UNCHANGED <<now, drive, update, progress>>
      BY DEF Write, WriteFails, LockStatus, WriteStatus, GiveUp, Unwritten,
             mainVars, memory
    <3>2. pc = "idle" => pc' = "idle"
      BY <1>0 DEF Write, WriteFails, LockStatus, WriteStatus, GiveUp,
                  Unwritten, Resume, Placed, Writers
    <3>. QED BY <2>1, <3>1, <3>2
  <2>. QED BY <2>9, <2>10, <2>11, <2>12 DEF Next
<1>. QED BY <1>3, <1>4, StatusSame

(* The invariant holds in every state.                                     *)
LEMMA StayStep ==
  ASSUME IInv, StayInv, [Next]_vars
  PROVE  StayInv'
<1>1. Given'
  BY GivenStep DEF StayInv
<1>. QED BY <1>1, TurnStep, ErrandStep, LatestStep DEF StayInv

(* No step takes a result away while its drive stays listed.               *)
LEMMA StaysStep ==
  ASSUME IInv, StayInv, [Next]_vars, NEW d \in Drives
  PROVE  EntryStays(d)
<1>1. status[d].run \in 0 .. MaxRuns /\ now \in 0 .. MaxRuns
      /\ progress.run \in 0 .. MaxRuns
  BY DEF IInv, TypeOK, Entry, Document
<1>2. CASE status'[d] = status[d]
  BY <1>2 DEF EntryStays
<1>3. CASE \E w \in Writers : WriteStatus(w)
  BY <1>1, <1>3, WriteKeeps DEF EntryStays
<1>. QED BY <1>2, <1>3, StatusSame

(* Initially no writer has anything to write.                              *)
LEMMA InitStays ==
  ASSUME Init
  PROVE  StayInv
<1>1. Turn
  BY DEF Init, Turn, Writers
<1>2. Errand /\ Given
  BY NoDriveAssumption DEF Init, Errand, Given, Writers
<1>3. Latest
  BY DEF Init, Latest, Unlisted, NoFile
<1>. QED BY <1>1, <1>2, <1>3 DEF StayInv

(* A run's own write puts its result there.                                *)
LEMMA OwnWritten ==
  ASSUME IInv, StayInv, WriteStatus("main"), pc \in {"refresh", "endwrite"},
         update # "none"
  PROVE  status'[drive].run = now /\ status'[drive].result = update
<1>1. drive \in Drives
  BY DEF StayInv, Given
<1>2. up["main"] = OwnUpdate(update) /\ cfg["main"][drive] # Unknown
  BY DEF StayInv, Errand, WriteStatus
<1>3. status'[drive] = Merge(prev["main"][drive], For("main", drive), cfg["main"][drive])
  BY <1>1, <1>2 DEF WriteStatus, Build
<1>4. For("main", drive) = OwnUpdate(update)
  BY <1>2 DEF For, OwnUpdate
<1>. QED BY <1>3, <1>4 DEF Merge, KeepsLast, OwnUpdate

(* A drive that leaves the file is in dropped.                             *)
LEMMA Dropped ==
  ASSUME IInv, StayInv, [Next]_vars
  PROVE  /\ dropped \subseteq dropped'
         /\ \A d \in Drives : status[d].listed = TRUE /\ d \notin dropped'
                              => status'[d].listed = TRUE
<1>1. CASE \E w \in Writers : WriteStatus(w)
  <2>. PICK w \in Writers : WriteStatus(w)
    BY <1>1
  <2>1. dropped' = dropped \cup {d \in Drives : status[d].listed /\ ~status'[d].listed}
    BY DEF WriteStatus
  <2>2. \A d \in Drives : status'[d].listed \in BOOLEAN
    BY WriteKeeps
  <2>. QED BY <2>1, <2>2
<1>2. CASE ~\E w \in Writers : WriteStatus(w)
  <2>1. \A d \in Drives : status'[d] = status[d]
    BY <1>2, StatusSame
  <2>2. dropped' = dropped
    <3>1. CASE UNCHANGED vars \/ Main
      BY <3>1
      DEF vars, Main, Start, FindOrphan, FirstWrite, Begin, OtherCommand,
          Fatal, RegisterFinish, SetDrive, BeginReceive, Replicated, Export,
          ReadBack, SaveDrives, SetDone, Record, Answer
    <3>2. CASE End \/ BeatLock \/ BeatWrite \/ Timer \/ Signal \/ Kill \/ Reboot
      BY <3>2 DEF End, Teardown, Finish, Unlink, Exit, BeatLock, BeatWrite,
                  Timer, Signal, Kill, Reboot
    <3>3. CASE \E w \in Writers : Write(w) \/ WriteFails(w)
      BY <1>2, <3>3 DEF Write, WriteFails, LockStatus, GiveUp, Unwritten
    <3>. QED BY <3>1, <3>2, <3>3 DEF Next
  <2>. QED BY <2>1, <2>2
<1>. QED BY <1>1, <1>2

(* A command comes to the removal of its file from its last write, and is  *)
(* then left alone by all but the timer.                                   *)
LEMMA AtUnlink ==
  ASSUME IInv, [Next]_vars, pc' = "unlink"
  PROVE  /\ UNCHANGED <<now, drive, update>>
         /\ \/ pc = "unlink" /\ mishaps' = mishaps
            \/ pc = "endwrite" /\ WriteStatus("main")
            \/ pc = "endwrite" /\ "unwritten" \in mishaps'[now]
<1>0. TypeOK /\ Placed /\ Orphans
  BY DEF IInv
<1>1. CASE UNCHANGED vars
  BY <1>1 DEF vars, mainVars, memory
<1>2. CASE Main
  BY <1>2
  DEF Main, Start, FindOrphan, FirstWrite, Begin, OtherCommand, Fatal,
      RegisterFinish, SetDrive, Replicated, BeginReceive, Export, ReadBack,
      SaveDrives, SetDone, Record, Answer
<1>3. CASE End \/ Signal \/ Kill \/ Reboot
  BY <1>3 DEF End, Teardown, Finish, Unlink, Exit, Over, Signal, Kill, Reboot,
              Dies
<1>4. CASE BeatLock \/ BeatWrite \/ Timer
  BY <1>4 DEF BeatLock, BeatWrite, Timer, mainVars, memory
<1>5. CASE \E w \in Writers : Write(w) \/ WriteFails(w)
  <2>. PICK w \in Writers : Write(w) \/ WriteFails(w)
    BY <1>5
  <2>0. UNCHANGED <<now, drive, update>>
    BY DEF Write, WriteFails, LockStatus, WriteStatus, GiveUp, Unwritten,
           mainVars, memory
  <2>1. CASE LockStatus(w)
    BY <2>0, <2>1 DEF LockStatus
  <2>2. CASE w = "timer" /\ ~LockStatus(w)
    BY <2>0, <2>2 DEF Write, WriteFails, WriteStatus, GiveUp, Unwritten, Resume
  <2>3. CASE w = "main" /\ WriteStatus(w)
    BY <1>0, <2>0, <2>3 DEF WriteStatus, Resume, Placed
  <2>4. CASE w = "main" /\ (GiveUp(w) \/ WriteFails(w))
    <3>1. pc = "endwrite" /\ now \in Runs
      BY <1>0, <2>4
      DEF GiveUp, WriteFails, Unwritten, Resume, Placed, TypeOK
    <3>2. Mishap("unwritten")
      BY <2>4 DEF GiveUp, WriteFails, Unwritten
    <3>. QED BY <1>0, <2>0, <3>1, <3>2 DEF Mishap, TypeOK
  <2>. QED BY <2>1, <2>2, <2>3, <2>4 DEF Write, Writers
<1>. QED BY <1>1, <1>2, <1>3, <1>4, <1>5 DEF Next

(* The result is in the file before progress.json goes.                    *)
LEMMA FirstStep ==
  ASSUME IInv, StayInv, ResultFirst, [Next]_vars
  PROVE  ResultFirst'
<1>. SUFFICES ASSUME pc' = "unlink", update' # "none", drive' \notin dropped',
                     "unwritten" \notin mishaps'[now']
              PROVE  status'[drive'].run = now' /\ status'[drive'].result = update'
  BY DEF ResultFirst
<1>1. UNCHANGED <<now, drive, update>>
  BY AtUnlink
<1>2. CASE pc = "endwrite" /\ WriteStatus("main")
  BY <1>1, <1>2, OwnWritten
<1>3. CASE pc = "unlink" /\ mishaps' = mishaps
  <2>1. drive \in Drives /\ drive \notin dropped /\ drive \notin dropped'
    BY <1>1, Dropped DEF StayInv, Given
  <2>2. status[drive].run = now /\ status[drive].result = update /\ now \in Runs
    BY <1>1, <1>3, <2>1 DEF ResultFirst, IInv, TypeOK
  <2>3. status[drive].listed = TRUE
    BY <2>1, <2>2 DEF StayInv, Latest, IInv, TypeOK, Entry, Runs
  <2>4. status'[drive].listed = TRUE
    BY <2>1, <2>3, Dropped
  <2>5. CASE status'[drive] = status[drive]
    BY <1>1, <2>2, <2>5
  <2>6. CASE \E w \in Writers : WriteStatus(w)
    BY <1>1, <1>3, <2>1, <2>2, <2>4, <2>6, WriteKeeps
  <2>. QED BY <2>5, <2>6, StatusSame
<1>. QED BY <1>1, <1>2, <1>3, AtUnlink

(* The run's result is in status.json before its progress.json goes, and   *)
(* no writer takes it away, for any number of drives, runs and faults.     *)
THEOREM Stays == Spec => ResultsStay
<1>1. Init => StayInv /\ ResultFirst
  BY InitStays DEF Init, ResultFirst
<1>2. IInv /\ StayInv /\ ResultFirst /\ [Next]_vars => StayInv' /\ ResultFirst'
  BY StayStep, FirstStep
<1>3. IInv /\ StayInv /\ [Next]_vars =>
        [\A d \in Drives \ dropped' :
           status[d].listed
             => \/ status'[d].run > status[d].run
                \/ /\ status'[d].run = status[d].run
                   /\ status'[d].result = status[d].result]_vars
  <2>. SUFFICES ASSUME IInv, StayInv, [Next]_vars,
                       NEW d \in Drives \ dropped', status[d].listed
                PROVE  \/ status'[d].run > status[d].run
                       \/ /\ status'[d].run = status[d].run
                          /\ status'[d].result = status[d].result
    OBVIOUS
  <2>1. status[d].listed = TRUE
    BY DEF IInv, TypeOK, Entry
  <2>2. status'[d].listed = TRUE
    BY <2>1, Dropped
  <2>. QED BY <2>1, <2>2, StaysStep DEF EntryStays
<1>. QED BY <1>1, <1>2, <1>3, RecordsInvariant, PTL DEF Spec, ResultsStay, ResultsKept
-----------------------------------------------------------------------------
(* The reader.  A failed run that is over is in status.json, or a later    *)
(* run of its drive is, or its progress.json is still there for the next   *)
(* command to record, or its result is lost in one of the known ways.      *)

Gone(r) == r < now \/ (r = now /\ pc \in {"idle", "exit"})

Lost(r) == Failure(r) => r \in unsaid

Shown(r) ==
  /\ target[r] \in Drives
  /\ \/ status[target[r]].run > r
     \/ /\ status[target[r]].run = r
        /\ status[target[r]].result \in {"incomplete", "not_verified", "interrupted"}

Orphaned(r) == progress.run = r /\ progress.drive = target[r] /\ target[r] \in Drives

(* What ties a run, its drive and its progress.json together.              *)
Named ==
  /\ target \in [Runs -> Drives \cup {NoDrive}]
  /\ drive \in Drives => target[now] = drive
  /\ pc \in Starting => facts[now] = {}
  /\ pc = "command" => drive \notin Drives
  /\ pc \notin {"idle"} \cup Starting /\ "began" \in facts[now] => drive \in Drives
  /\ progress.drive \in Drives =>
        /\ progress.run \in Runs /\ progress.drive = target[progress.run]
        /\ progress.backup = TRUE
        /\ pc \in {"idle"} \cup Starting => registry[progress.drive] # Unknown
        /\ progress.run = now /\ pc # "idle" => progress.drive = drive

Told ==
  /\ \A r \in Runs : Gone(r) => Lost(r) \/ Shown(r) \/ Orphaned(r)
  /\ pc = "first" =>
        \A r \in Runs : r < now =>
           Lost(r) \/ Shown(r) \/ (r = progress.run /\ "unwritten" \in mishaps[now])
  /\ pc = "unlink" =>
        Lost(now) \/ Shown(now) \/ update = "none" \/ "unwritten" \in mishaps[now]
  /\ reader \in 0 .. now
  /\ \A r \in Runs : r <= reader => Gone(r) /\ (Lost(r) \/ Shown(r))

(* Commands come one at a time.                                            *)
LEMMA NowStep ==
  ASSUME TypeOK, [Next]_vars
  PROVE  \/ now' = now
         \/ /\ pc = "idle" /\ pc' = "started" /\ now' = now + 1
            /\ UNCHANGED <<facts, drive, progress, status, registry>>
<1>1. CASE UNCHANGED vars \/ Main
  BY <1>1
  DEF vars, Main, Start, FindOrphan, FirstWrite, Begin, OtherCommand, Fatal,
      RegisterFinish, SetDrive, BeginReceive, Replicated, Export, ReadBack,
      SaveDrives, SetDone, Record, Answer, mainVars
<1>2. CASE End \/ BeatLock \/ BeatWrite \/ Timer \/ Signal \/ Kill \/ Reboot
  BY <1>2 DEF End, Teardown, Finish, Unlink, Exit, BeatLock, BeatWrite, Timer,
              Signal, Kill, Reboot, mainVars
<1>3. CASE \E w \in Writers : Write(w) \/ WriteFails(w)
  BY <1>3 DEF Write, WriteFails, LockStatus, WriteStatus, GiveUp, Unwritten,
              mainVars
<1>. QED BY <1>1, <1>2, <1>3 DEF Next

(* What a step does to the run's drive, its registry and its file.         *)
LEMMA Moves ==
  ASSUME TypeOK, Placed, Next
  PROVE  /\ \/ drive' = drive
            \/ pc' = "idle" /\ drive' = NoDrive
            \/ pc = "command" /\ pc' = "named"
         /\ pc \in {"idle"} \cup Starting \/ pc' = "idle" => registry' = registry
         /\ pc' \in Starting => pc \in {"idle"} \cup Starting
         /\ pc = "idle" => pc' \in {"idle", "started"}
         /\ progress' \in {progress, NoFile} \/ FirstWrite \/ BeatWrite
<1>. USE DEF Starting
<1>1. CASE \E c \in {"backup", "other"} : Start(c)
  BY <1>1 DEF Start
<1>2. CASE FindOrphan \/ FirstWrite \/ Begin \/ OtherCommand \/ Fatal
  BY <1>2 DEF FindOrphan, FirstWrite, Begin, OtherCommand, Fatal, mainVars,
              memory
<1>3. CASE RegisterFinish \/ \E d \in Drives : SetDrive(d)
  BY <1>3 DEF RegisterFinish, SetDrive
<1>4. CASE BeginReceive \/ Replicated \/ Export \/ ReadBack
  BY <1>4 DEF BeginReceive, Replicated, Export, ReadBack
<1>5. CASE SaveDrives \/ SetDone \/ Record \/ Answer
  BY <1>5 DEF SaveDrives, SetDone, Record, Answer, mainVars, memory
<1>6. CASE End
  BY <1>6 DEF End, Teardown, Finish, Unlink, Exit, Over, mainVars, memory
<1>7. CASE BeatLock \/ BeatWrite \/ Timer
  BY <1>7 DEF BeatLock, BeatWrite, Timer, mainVars, memory
<1>8. CASE Signal \/ Kill \/ Reboot
  BY <1>8 DEF Signal, Kill, Reboot, Dies, Over, memory, Working
<1>9. CASE \E w \in Writers : Write(w) \/ WriteFails(w)
  <2>. PICK w \in Writers : Write(w) \/ WriteFails(w)
    BY <1>9
  <2>1. UNCHANGED <<drive, registry, progress>>
    BY DEF Write, WriteFails, LockStatus, WriteStatus, GiveUp, Unwritten,
           mainVars, memory
  <2>2. pc' = pc \/ (pc = "orphan" /\ pc' = "first") \/ (pc # "idle" /\ pc' \in {"prompt", "unlink"})
    BY DEF Write, WriteFails, LockStatus, WriteStatus, GiveUp, Unwritten,
           Resume, Placed, Writers
  <2>. QED BY <2>1, <2>2
<1>. QED BY <1>1, <1>2, <1>3, <1>4, <1>5, <1>6, <1>7, <1>8, <1>9 DEF Next, Main

(* A run's file, its drive and its history agree.                          *)
LEMMA NamedStep ==
  ASSUME IInv, IInv', StayInv, StayInv', Named, Next,
         target' = IF drive' = NoDrive THEN target ELSE [target EXCEPT ![now] = drive']
  PROVE  Named'
<1>0. TypeOK /\ TypeOK' /\ Placed /\ Known /\ Orphans /\ Given /\ Given'
  BY DEF IInv, StayInv
<1>1. target' \in [Runs -> Drives \cup {NoDrive}]
  BY <1>0 DEF Named, TypeOK
<1>2. drive' \in Drives => now' = now /\ now \in Runs
  BY <1>0, NowStep DEF TypeOK, Given, Working, Ending
<1>3. drive' \in Drives => target'[now'] = drive'
  BY <1>1, <1>2, NoDriveAssumption DEF Named
<1>4. /\ pc' \in Starting => facts'[now'] = {}
      /\ pc' = "command" => drive' \notin Drives
      /\ pc' \notin {"idle"} \cup Starting /\ "began" \in facts'[now'] => drive' \in Drives
  <2>1. CASE \E c \in {"backup", "other"} : Start(c)
    <3>1. now' = now + 1 /\ now' \in Runs /\ pc' = "started" /\ facts' = facts
      BY <1>0, <2>1, BoundsAssumption DEF Start, TypeOK, Runs
    <3>2. facts[now'] = {}
      BY <1>0, <3>1 DEF Known, TypeOK, Runs
    <3>. QED BY <3>1, <3>2 DEF Starting
  <2>2. CASE pc' = "idle"
    BY <2>2 DEF Starting
  <2>3. CASE UNCHANGED <<now, facts, drive>>
             /\ (pc' \in Starting => pc \in Starting)
             /\ (pc' = "command" => pc = "command")
             /\ (pc = "idle" => pc' = "idle")
    BY <2>2, <2>3 DEF Named
  <2>4. CASE Begin
    <3>1. UNCHANGED <<now, facts, drive>> /\ pc = "begun" /\ pc' = "command"
      BY <2>4 DEF Begin, mainVars, memory
    <3>. QED BY <1>0, <3>1 DEF Named, Starting, Given, Working, Ending
  <2>5. CASE \E d \in Drives : SetDrive(d)
    BY <2>5 DEF SetDrive, Starting
  <2>6. CASE BeginReceive \/ Replicated \/ Export \/ ReadBack
    <3>1. drive' = drive /\ pc' \notin Starting /\ pc' # "command" /\ drive \in Drives
      BY <1>0, <2>6 DEF BeginReceive, Replicated, Export, ReadBack, Starting,
                        TypeOK, Working
    <3>. QED BY <3>1
  <2>7. CASE FindOrphan \/ FirstWrite \/ OtherCommand \/ Fatal \/ RegisterFinish
    BY <2>3, <2>7 DEF FindOrphan, FirstWrite, OtherCommand, Fatal,
                      RegisterFinish, mainVars, memory, Starting
  <2>8. CASE SaveDrives \/ SetDone \/ Record \/ Answer
    BY <2>3, <2>8 DEF SaveDrives, SetDone, Record, Answer, mainVars, memory,
                      Starting
  <2>9. CASE End \/ BeatLock \/ BeatWrite \/ Timer
    BY <2>2, <2>3, <2>9 DEF End, Teardown, Finish, Unlink, Exit, Over, BeatLock,
                      BeatWrite, Timer, mainVars, memory, Starting
  <2>10. CASE Signal \/ Kill \/ Reboot
    BY <2>2, <2>3, <2>10 DEF Signal, Kill, Reboot, Dies, Over, memory, Starting,
                       Working
  <2>11. CASE \E w \in Writers : Write(w) \/ WriteFails(w)
    <3>. PICK w \in Writers : Write(w) \/ WriteFails(w)
      BY <2>11
    <3>1. UNCHANGED <<now, facts, drive>>
      BY DEF Write, WriteFails, LockStatus, WriteStatus, GiveUp, Unwritten,
             mainVars, memory
    <3>2. pc' = pc \/ (pc = "orphan" /\ pc' = "first") \/ (pc # "idle" /\ pc' \in {"prompt", "unlink"})
      BY <1>0 DEF Write, WriteFails, LockStatus, WriteStatus, GiveUp,
                  Unwritten, Resume, Placed, Writers
    <3>. QED BY <2>3, <3>1, <3>2 DEF Starting
  <2>. QED BY <2>1, <2>4, <2>5, <2>6, <2>7, <2>8, <2>9, <2>10, <2>11
       DEF Next, Main
<1>5. progress'.drive \in Drives =>
        /\ progress'.run \in Runs /\ progress'.drive = target'[progress'.run]
        /\ progress'.backup = TRUE
        /\ pc' \in {"idle"} \cup Starting => registry'[progress'.drive] # Unknown
        /\ progress'.run = now' /\ pc' # "idle" => progress'.drive = drive'
  <2>. SUFFICES ASSUME progress'.drive \in Drives
                PROVE  /\ progress'.run \in Runs
                       /\ progress'.drive = target'[progress'.run]
                       /\ progress'.backup = TRUE
                       /\ pc' \in {"idle"} \cup Starting
                            => registry'[progress'.drive] # Unknown
                       /\ progress'.run = now' /\ pc' # "idle"
                            => progress'.drive = drive'
    OBVIOUS
  <2>1. CASE progress' = NoFile
    BY <2>1, NoDriveAssumption DEF NoFile
  <2>2. CASE FirstWrite
    <3>1. progress'.drive = drive /\ pc = "first"
      BY <2>2 DEF FirstWrite, Written
    <3>. QED BY <1>0, <3>1 DEF Given, Working, Ending
  <2>3. CASE BeatWrite
    <3>1. progress' = Written /\ UNCHANGED <<now, drive, pc, command>>
      BY <2>3 DEF BeatWrite, mainVars, memory
    <3>2. progress'.run = now /\ progress'.drive = drive /\ progress'.backup = (command = "backup")
      BY <3>1 DEF Written
    <3>3. command = "backup" /\ pc \in Working \cup Ending
      BY <1>0, <3>2 DEF Given
    <3>. QED BY <1>2, <1>3, <3>1, <3>2, <3>3 DEF Starting, Working, Ending
  <2>4. CASE progress' = progress
    <3>1. /\ progress.run \in Runs /\ progress.drive = target[progress.run]
          /\ progress.backup = TRUE
          /\ pc \in {"idle"} \cup Starting => registry[progress.drive] # Unknown
          /\ progress.run = now /\ pc # "idle" => progress.drive = drive
      BY <2>4 DEF Named
    <3>2. drive' \in Drives /\ progress.run = now => drive' = drive
      <4>1. pc = "command" => progress.run = now /\ drive \notin Drives
        BY <1>0 DEF Orphans, Working, Named
      <4>. QED BY <1>0, <2>4, <3>1, <4>1, Moves, NoDriveAssumption
    <3>3. target'[progress.run] = target[progress.run]
      <4>1. CASE drive' \in Drives
        BY <1>1, <1>2, <3>1, <3>2, <4>1 DEF Named
      <4>2. CASE drive' \notin Drives
        BY <1>0, <4>2 DEF TypeOK
      <4>. QED BY <4>1, <4>2
    <3>4. pc' \in {"idle"} \cup Starting => registry'[progress.drive] # Unknown
      <4>1. CASE pc \in {"idle"} \cup Starting
        BY <1>0, <3>1, <4>1, Moves
      <4>2. CASE pc \notin {"idle"} \cup Starting /\ pc' = "idle"
        <5>1. progress.run = now
          BY <1>0, <3>1, <4>2 DEF Orphans, TypeOK, Starting, Working, Ending, Runs
        <5>2. progress.drive = drive /\ drive \in Drives
          BY <2>4, <3>1, <4>2, <5>1
        <5>. QED BY <1>0, <4>2, <5>2, Moves DEF Given
      <4>. QED BY <1>0, <4>1, <4>2, Moves
    <3>5. progress.run = now' /\ pc' # "idle" => progress.drive = drive'
      <4>. SUFFICES ASSUME progress.run = now', pc' # "idle"
                    PROVE  progress.drive = drive'
        OBVIOUS
      <4>1. now' = now /\ pc # "idle"
        <5>1. pc = "idle" => progress.run <= now /\ now \in 0 .. MaxRuns
          BY <1>0, <3>1 DEF Orphans, TypeOK, Runs
        <5>2. pc = "idle" => pc' = "started"
          BY <1>0, Moves
        <5>3. pc' = "started" /\ now' \in Runs => progress.run # now'
          BY <1>0, <2>4 DEF IInv, Orphans, Starting, Runs, TypeOK
        <5>. QED BY <1>0, <3>1, <5>1, <5>2, <5>3, NowStep
      <4>2. progress.drive = drive /\ drive \in Drives
        BY <2>4, <3>1, <4>1
      <4>3. pc # "command"
        BY <4>2 DEF Named
      <4>. QED BY <1>0, <4>2, <4>3, Moves
    <3>. QED BY <2>4, <3>1, <3>3, <3>4, <3>5
  <2>. QED BY <1>0, <2>1, <2>2, <2>3, <2>4, Moves
<1>. QED BY <1>1, <1>3, <1>4, <1>5 DEF Named

(* What is said of a run that is over does not change, and an entry that   *)
(* shows it stays, or goes in a known way.                                 *)
LEMMA GoneStep ==
  ASSUME IInv, IInv', StayInv, StayInv', Named, Next,
         unsaid' = unsaid \cup Unsaid,
         target' = IF drive' = NoDrive THEN target ELSE [target EXCEPT ![now] = drive'],
         NEW r \in Runs, Gone(r) \/ (r = now /\ pc \in {"unlink", "endwrite"})
  PROVE  /\ Gone(r) => Gone(r)'
         /\ facts'[r] = facts[r] /\ (Failure(r)' <=> Failure(r))
         /\ Lost(r) => Lost(r)'
         /\ Gone(r) \/ drive \in Drives => target'[r] = target[r]
<1>0. TypeOK /\ TypeOK' /\ Placed /\ Given /\ Given'
  BY DEF IInv, StayInv
<1>1. Past(r)
  BY <1>0 DEF Gone, Past, Open, Starting, TypeOK, Runs
<1>2. facts'[r] = facts[r]
  BY <1>0, <1>1, Kept
<1>3. Failure(r)' <=> Failure(r)
  BY <1>2 DEF Failure, Finished
<1>4. Gone(r) => Gone(r)'
  <2>1. r <= now /\ now' \in {now, now + 1} /\ now \in 0 .. MaxRuns
    BY <1>0, <1>1, NowStep DEF Past, TypeOK
  <2>2. pc \in {"idle", "exit"} /\ now' = now => pc' \in {"idle", "exit"}
    <3>1. pc = "idle" => pc' = "idle" \/ pc' = "started"
      BY <1>0, Moves
    <3>2. pc = "idle" /\ pc' = "started" => now' # now
      <4>1. CASE \E c \in {"backup", "other"} : Start(c)
        BY <1>0, <4>1 DEF Start, TypeOK
      <4>2. CASE ~\E c \in {"backup", "other"} : Start(c)
        BY <1>0, <4>2
        DEF Next, Main, FindOrphan, FirstWrite, Begin, OtherCommand, Fatal,
            RegisterFinish, SetDrive, BeginReceive, Replicated, Export,
            ReadBack, SaveDrives, SetDone, Record, Answer, End, Teardown,
            Finish, Unlink, Exit, Over, BeatLock, BeatWrite, Timer, Signal,
            Kill, Reboot, Dies, Write, WriteFails, LockStatus, WriteStatus,
            GiveUp, Unwritten, Resume, Placed, Writers
      <4>. QED BY <4>1, <4>2
    <3>3. pc = "exit" => pc' \in {"idle", "exit"}
      BY <1>0
      DEF Next, Main, Start, FindOrphan, FirstWrite, Begin, OtherCommand,
          Fatal, RegisterFinish, SetDrive, BeginReceive, Replicated, Export,
          ReadBack, SaveDrives, SetDone, Record, Answer, End, Teardown,
          Finish, Unlink, Exit, Over, BeatLock, BeatWrite, Timer, Signal,
          Starting, Working, Kill, Reboot, Dies, Write, WriteFails,
          LockStatus, WriteStatus, GiveUp, Unwritten, Resume, Placed, Writers
    <3>. QED BY <3>1, <3>2, <3>3
  <2>. QED BY <2>1, <2>2 DEF Gone, Runs
<1>5. Gone(r) \/ drive \in Drives => target'[r] = target[r]
  <2>. SUFFICES ASSUME Gone(r) \/ drive \in Drives, r = now, drive' \in Drives
                PROVE  target'[r] = target[r]
    BY <1>0 DEF Named, TypeOK
  <2>1. pc \in {"idle", "exit", "unlink", "endwrite"}
    BY <1>0 DEF Gone, TypeOK, Runs
  <2>2. drive' = drive
    BY <1>0, <2>1, Moves, NoDriveAssumption
  <2>. QED BY <2>2 DEF Named
<1>6. Lost(r) => Lost(r)'
  BY <1>3 DEF Lost
<1>. QED BY <1>2, <1>3, <1>4, <1>5, <1>6

(* An entry that shows a run goes only with its drive.                     *)
LEMMA ShownStep ==
  ASSUME IInv, StayInv, StayInv', Next, IInv', unsaid' = unsaid \cup Unsaid,
         NEW r \in Runs, target'[r] = target[r], Failure(r)' <=> Failure(r),
         Shown(r)
  PROVE  Shown(r)' \/ Lost(r)'
<1>. DEFINE t == target[r]
<1>1. t \in Drives /\ status[t].run >= r /\ r # 0
  BY DEF Shown, Runs, IInv, TypeOK, Entry
<1>2. status[t].listed = TRUE
  BY <1>1 DEF StayInv, Latest, IInv, TypeOK, Entry, Runs
<1>3. status'[t].run \in 0 .. MaxRuns /\ status[t].run \in 0 .. MaxRuns
      /\ status'[t].listed \in BOOLEAN
  BY <1>1 DEF IInv, TypeOK, Entry
<1>4. CASE status'[t].listed = TRUE
  <2>1. \/ status'[t].run > status[t].run
        \/ status'[t].run = status[t].run /\ status'[t].result = status[t].result
    BY <1>1, <1>2, <1>4, StaysStep DEF EntryStays
  <2>. QED BY <1>1, <1>3, <2>1 DEF Shown, Runs
<1>5. CASE status'[t].listed = FALSE
  <2>1. Failure(r) => r \in Unsaid
    BY <1>1, <1>2, <1>5, NoDriveAssumption DEF Unsaid
  <2>. QED BY <2>1 DEF Lost
<1>. QED BY <1>3, <1>4, <1>5

(* A step that leaves run r in its drive's entry shows it: the entry says  *)
(* what is true, and of a failed run that asks for attention.              *)
LEMMA ShownAfter ==
  ASSUME IInv', StayInv', NEW r \in Runs, target'[r] \in Drives,
         status'[target'[r]].run = r
  PROVE  Shown(r)' \/ Lost(r)'
<1>. DEFINE e == status[target[r]]
<1>1. Says(r, e.result)' /\ e'.result # "none" /\ e'.result \in Result
  <2>1. r # 0 /\ GoodEntry(e)'
    BY DEF IInv, Files, Runs
  <2>2. Says(r, e.result)'
    BY <2>1 DEF GoodEntry, GoodLast
  <2>3. e'.result # "none"
    BY <2>1 DEF StayInv, Latest
  <2>4. e'.result \in Result
    BY DEF IInv, TypeOK, Entry
  <2>. QED BY <2>2, <2>3, <2>4
<1>2. CASE e'.result \in {"incomplete", "not_verified", "interrupted"}
  BY <1>2 DEF Shown
<1>3. CASE e'.result \in {"completed", "aborted"}
  BY <1>1, <1>3 DEF Says, Lost, Failure
<1>. QED BY <1>1, <1>2, <1>3 DEF Result, RESULTS

(* The next command's write records the orphan it found.                   *)
LEMMA OrphanWritten ==
  ASSUME IInv, StayInv, WriteStatus("main"), pc = "orphan"
  PROVE  status'[progress.drive].run = progress.run
<1>. DEFINE d == progress.drive
<1>1. d \in Drives /\ up["main"] = OrphanUpdate /\ cfg["main"][d] # Unknown
  BY DEF StayInv, Errand, WriteStatus
<1>2. status'[d] = Merge(prev["main"][d], For("main", d), cfg["main"][d])
  BY <1>1 DEF WriteStatus, Build
<1>3. For("main", d) = OrphanUpdate
  BY <1>1 DEF For, OrphanUpdate
<1>4. OrphanUpdate.result # "none" /\ OrphanUpdate.run = progress.run
  BY DEF OrphanUpdate
<1>5. KeepsLast(prev["main"][d], OrphanUpdate) => prev["main"][d].run = progress.run
  BY <1>4 DEF KeepsLast
<1>. QED BY <1>2, <1>3, <1>4, <1>5 DEF Merge

(* How a run ends: by removing its file, or by dying with it.              *)
LEMMA HowGone ==
  ASSUME TypeOK, Placed, Next, pc' \in {"idle", "exit"}, pc \notin {"idle", "exit"}
  PROVE  /\ UNCHANGED <<now, facts, status>>
         /\ \/ pc = "unlink" /\ progress' = NoFile
            \/ pc' = "idle" /\ progress' = progress
            \/ pc' = "idle" /\ progress' = NoFile /\ pc # "unlink"
<1>1. CASE Main \/ BeatLock \/ BeatWrite \/ Timer
  BY <1>1
  DEF Main, Start, FindOrphan, FirstWrite, Begin, OtherCommand, Fatal,
      RegisterFinish, SetDrive, BeginReceive, Replicated, Export, ReadBack,
      SaveDrives, SetDone, Record, Answer, BeatLock, BeatWrite, Timer
<1>2. CASE End
  BY <1>2 DEF End, Teardown, Finish, Unlink, Exit, mainVars
<1>3. CASE Signal \/ Kill \/ Reboot
  BY <1>3 DEF Signal, Kill, Reboot, Dies, Over
<1>4. CASE \E w \in Writers : Write(w) \/ WriteFails(w)
  BY <1>4 DEF Write, WriteFails, LockStatus, WriteStatus, GiveUp, Unwritten,
              Resume, Writers
<1>. QED BY <1>1, <1>2, <1>3, <1>4 DEF Next

(* A run that is over is shown, orphaned or lost in a known way.           *)
LEMMA OverStep ==
  ASSUME IInv, IInv', StayInv, StayInv', Named, Named', Told, Next,
         unsaid' = unsaid \cup Unsaid,
         target' = IF drive' = NoDrive THEN target ELSE [target EXCEPT ![now] = drive'],
         NEW r \in Runs, Gone(r)'
  PROVE  Lost(r)' \/ Shown(r)' \/ Orphaned(r)'
<1>0. TypeOK /\ Placed /\ Orphans /\ TypeOK' /\ Given
  BY DEF IInv, StayInv
<1>1. CASE Gone(r)
  <2>1. /\ facts'[r] = facts[r] /\ (Failure(r)' <=> Failure(r))
        /\ (Lost(r) => Lost(r)') /\ target'[r] = target[r]
    BY <1>1, GoneStep
  <2>2. CASE Lost(r)
    BY <2>1, <2>2
  <2>3. CASE Shown(r)
    BY <2>1, <2>3, ShownStep
  <2>4. CASE Orphaned(r) /\ ~Lost(r) /\ ~Shown(r)
    <3>1. progress.run = r /\ r # 0
      BY <2>4 DEF Orphaned, Runs
    <3>2. pc \notin {"begun"} \cup Working \cup (Ending \ {"exit"})
      <4>1. now \in Int /\ r \in Int
        BY <1>0 DEF TypeOK, Runs
      <4>2. pc \in {"begun"} \cup Working \cup (Ending \ {"exit"}) => r = now
        BY <1>0, <3>1 DEF Orphans
      <4>3. "idle" \notin Working \cup Ending /\ "exit" \notin Working
        BY DEF Working, Ending
      <4>. QED BY <1>1, <4>1, <4>2, <4>3 DEF Gone
    <3>3. CASE progress' = progress
      BY <2>1, <2>4, <3>3 DEF Orphaned
    <3>4. CASE progress' = NoFile
      <4>1. Failure(r) => r \in Unsaid
        BY <3>1, <3>2, <3>4 DEF Unsaid, Ending
      <4>. QED BY <2>1, <4>1 DEF Lost
    <3>5. CASE FirstWrite
      <4>1. pc = "first" /\ pc' = "begun" /\ r < now
        BY <1>0, <3>1, <3>5 DEF FirstWrite, Orphans, Starting
      <4>2. "unwritten" \in mishaps[now]
        BY <2>4, <4>1 DEF Told
      <4>3. Failure(r) => r \in Unsaid
        BY <3>1, <4>1, <4>2 DEF Unsaid
      <4>. QED BY <2>1, <4>3 DEF Lost
    <3>6. CASE BeatWrite
      BY <1>0, <3>2, <3>6 DEF BeatWrite, Orphans, Ending
    <3>. QED BY <1>0, <3>3, <3>4, <3>5, <3>6, Moves
  <2>. QED BY <1>1, <2>2, <2>3, <2>4 DEF Told
<1>2. CASE ~Gone(r)
  <2>1. r = now /\ now' = now /\ pc \notin {"idle", "exit"} /\ pc' \in {"idle", "exit"}
    BY <1>0, <1>2, NowStep DEF Gone, TypeOK, Runs
  <2>2. UNCHANGED <<now, facts, status>>
    BY <1>0, <2>1, HowGone
  <2>3. Failure(r)' <=> Failure(r)
    BY <2>2 DEF Failure, Finished
  <2>. SUFFICES ASSUME Failure(r) PROVE Lost(r)' \/ Shown(r)' \/ Orphaned(r)'
    BY <2>3 DEF Lost
  <2>4. /\ pc \notin Starting /\ drive \in Drives /\ target[now] = drive
        /\ pc \in Working \cup Ending /\ progress.run = now
    BY <1>0, <2>1
    DEF Failure, Named, TypeOK, Orphans, Given
  <2>5. target'[r] = target[r]
    <3>1. drive' \in {drive, NoDrive} \/ pc = "command"
      BY <1>0, Moves
    <3>2. pc # "command"
      BY <2>4 DEF Named
    <3>. QED BY <2>1, <2>4, <3>1, <3>2 DEF Named
  <2>6. CASE pc = "unlink"
    <3>1. CASE update = "none" \/ "unwritten" \in mishaps[now]
      <4>1. r \in Unsaid
        BY <2>1, <2>6, <3>1 DEF Unsaid
      <4>. QED BY <4>1 DEF Lost
    <3>2. CASE Lost(now)
      BY <2>1, <2>3, <3>2 DEF Lost
    <3>3. CASE Shown(now)
      BY <2>1, <2>2, <2>5, <3>3 DEF Shown
    <3>. QED BY <2>6, <3>1, <3>2, <3>3 DEF Told
  <2>7. CASE pc # "unlink" /\ pc' = "idle" /\ progress.drive = NoDrive
    <3>1. r \in Unsaid
      BY <2>1, <2>7 DEF Unsaid
    <3>. QED BY <3>1 DEF Lost
  <2>8. CASE pc # "unlink" /\ pc' = "idle" /\ progress.drive # NoDrive
    <3>1. progress.drive \in Drives
      BY <1>0, <2>8 DEF TypeOK, Document
    <3>2. progress.drive = target[r]
      BY <2>1, <2>4, <3>1 DEF Named
    <3>3. CASE progress' = progress
      BY <2>1, <2>4, <2>5, <3>1, <3>2, <3>3 DEF Orphaned
    <3>4. CASE progress' = NoFile
      <4>1. r \in Unsaid
        BY <2>1, <2>4, <2>8, <3>4 DEF Unsaid
      <4>. QED BY <4>1 DEF Lost
    <3>. QED BY <1>0, <2>1, <2>8, <3>3, <3>4, HowGone
  <2>. QED BY <1>0, <2>1, <2>6, <2>7, <2>8, HowGone
<1>. QED BY <1>1, <1>2

(* How a command comes to its own first write of progress.json.            *)
LEMMA HowFirst ==
  ASSUME IInv, StayInv, Next, pc' = "first"
  PROVE  /\ UNCHANGED <<now, progress>>
         /\ \/ pc = "first" /\ mishaps' = mishaps
            \/ pc = "started" /\ ~OrphanCounts
            \/ pc = "orphan" /\ WriteStatus("main")
            \/ pc = "orphan" /\ "unwritten" \in mishaps'[now]
<1>0. TypeOK /\ Placed /\ Orphans
  BY DEF IInv
<1>1. CASE Main \/ End
  BY <1>1
  DEF Main, Start, FindOrphan, FirstWrite, Begin, OtherCommand, Fatal,
      RegisterFinish, SetDrive, BeginReceive, Replicated, Export, ReadBack,
      SaveDrives, SetDone, Record, Answer, End, Teardown, Finish, Unlink, Exit,
      Over, mainVars
<1>2. CASE BeatLock \/ Timer
  BY <1>2 DEF BeatLock, Timer, mainVars
<1>3. CASE BeatWrite
  BY <1>0, <1>3 DEF BeatWrite, Orphans, Working
<1>4. CASE Signal \/ Kill \/ Reboot
  BY <1>4 DEF Signal, Kill, Reboot, Dies, Over
<1>5. CASE \E w \in Writers : Write(w) \/ WriteFails(w)
  <2>. PICK w \in Writers : Write(w) \/ WriteFails(w)
    BY <1>5
  <2>0. UNCHANGED <<now, progress>>
    BY DEF Write, WriteFails, LockStatus, WriteStatus, GiveUp, Unwritten,
           mainVars
  <2>1. CASE LockStatus(w)
    BY <2>0, <2>1 DEF LockStatus
  <2>2. CASE w = "timer" /\ ~LockStatus(w)
    BY <2>0, <2>2 DEF Write, WriteFails, WriteStatus, GiveUp, Unwritten, Resume
  <2>3. CASE w = "main" /\ WriteStatus(w)
    BY <1>0, <2>0, <2>3 DEF WriteStatus, Resume, Placed
  <2>4. CASE w = "main" /\ (GiveUp(w) \/ WriteFails(w))
    <3>1. pc = "orphan" /\ now \in Runs
      BY <1>0, <2>4
      DEF GiveUp, WriteFails, Unwritten, Resume, Placed, TypeOK
    <3>2. Mishap("unwritten")
      BY <2>4 DEF GiveUp, WriteFails, Unwritten
    <3>. QED BY <1>0, <2>0, <3>1, <3>2 DEF Mishap, TypeOK
  <2>. QED BY <2>1, <2>2, <2>3, <2>4 DEF Write, Writers
<1>. QED BY <1>1, <1>2, <1>3, <1>4, <1>5 DEF Next

(* A command overwrites an orphan only once it is recorded, or failed to.  *)
LEMMA AtFirst ==
  ASSUME IInv, IInv', StayInv, StayInv', Named, Named', Told, Next,
         unsaid' = unsaid \cup Unsaid,
         target' = IF drive' = NoDrive THEN target ELSE [target EXCEPT ![now] = drive'],
         pc' = "first", NEW r \in Runs, r < now'
  PROVE  \/ Lost(r)' \/ Shown(r)'
         \/ r = progress'.run /\ "unwritten" \in mishaps'[now']
<1>1. UNCHANGED <<now, progress>>
  BY HowFirst
<1>2. Gone(r)
  BY <1>1 DEF Gone
<1>3. /\ (Failure(r)' <=> Failure(r))
      /\ (Lost(r) => Lost(r)') /\ target'[r] = target[r]
  BY <1>2, GoneStep
<1>4. Shown(r) => Shown(r)' \/ Lost(r)'
  BY <1>3, ShownStep
<1>5. CASE pc = "first" /\ mishaps' = mishaps
  BY <1>1, <1>3, <1>4, <1>5 DEF Told
<1>6. CASE Orphaned(r)
  <2>1. progress.run = r /\ progress.drive = target[r] /\ progress.drive \in Drives
    BY <1>6 DEF Orphaned
  <2>2. CASE pc = "started" /\ ~OrphanCounts
    BY <2>1, <2>2, NoDriveAssumption DEF Named, OrphanCounts, Starting
  <2>3. CASE pc = "orphan" /\ WriteStatus("main")
    BY <1>3, <2>1, <2>3, OrphanWritten, ShownAfter
  <2>4. CASE pc = "orphan" /\ "unwritten" \in mishaps'[now]
    BY <1>1, <2>1, <2>4
  <2>. QED BY <1>5, <2>2, <2>3, <2>4, HowFirst
<1>. QED BY <1>2, <1>3, <1>4, <1>6 DEF Told

(* A command removes its file with its result shown, or failed to write.   *)
LEMMA AtLast ==
  ASSUME IInv, IInv', StayInv, StayInv', Named, Named', Told, Next,
         unsaid' = unsaid \cup Unsaid,
         target' = IF drive' = NoDrive THEN target ELSE [target EXCEPT ![now] = drive'],
         pc' = "unlink"
  PROVE  Lost(now)' \/ Shown(now)' \/ update' = "none" \/ "unwritten" \in mishaps'[now']
<1>. SUFFICES ASSUME update' # "none", "unwritten" \notin mishaps'[now']
              PROVE  Lost(now)' \/ Shown(now)'
  OBVIOUS
<1>1. UNCHANGED <<now, drive, update>> /\ now \in Runs /\ now' = now
  BY AtUnlink DEF IInv, TypeOK, Ending
<1>2. drive \in Drives /\ target[now] = drive /\ target'[now] = drive
  BY <1>1 DEF StayInv, Given, Named
<1>3. pc \in {"unlink", "endwrite"}
  BY AtUnlink
<1>4. (Failure(now)' <=> Failure(now)) /\ (Lost(now) => Lost(now)')
  <2>. DEFINE r == now
  <2>1. r \in Runs /\ r = now /\ r' = r
    BY <1>1
  <2>. HIDE DEF r
  <2>2. (Failure(r)' <=> Failure(r)) /\ (Lost(r) => Lost(r)')
    BY <1>1, <1>3, <2>1, GoneStep DEF r
  <2>. QED BY <1>1, <2>2 DEF r
<1>5. CASE pc = "endwrite" /\ WriteStatus("main")
  <2>1. status'[drive].run = now
    BY <1>1, <1>5, OwnWritten
  <2>. QED BY <1>1, <1>2, <2>1, ShownAfter
<1>6. CASE pc = "unlink" /\ mishaps' = mishaps
  <2>1. Lost(now) \/ Shown(now)
    BY <1>1, <1>6 DEF Told
  <2>. QED BY <1>1, <1>2, <1>4, <2>1, ShownStep
<1>. QED BY <1>1, <1>5, <1>6, AtUnlink

(* What the reader is told of a run stays so.                              *)
LEMMA ToldStep ==
  ASSUME IInv, IInv', StayInv, StayInv', Named, Named', Told, Next,
         unsaid' = unsaid \cup Unsaid, reader' = reader,
         target' = IF drive' = NoDrive THEN target ELSE [target EXCEPT ![now] = drive']
  PROVE  Told'
<1>1. \A r \in Runs : Gone(r)' => Lost(r)' \/ Shown(r)' \/ Orphaned(r)'
  BY OverStep
<1>2. pc' = "first" =>
        \A r \in Runs : r < now' =>
           Lost(r)' \/ Shown(r)' \/ (r = progress'.run /\ "unwritten" \in mishaps'[now'])
  BY AtFirst
<1>3. pc' = "unlink" =>
        Lost(now)' \/ Shown(now)' \/ update' = "none" \/ "unwritten" \in mishaps'[now']
  BY AtLast
<1>4. reader' \in 0 .. now'
  <2>1. now' \in {now, now + 1} /\ now \in 0 .. MaxRuns
    BY NowStep DEF IInv, TypeOK
  <2>. QED BY <2>1 DEF Told
<1>5. ASSUME NEW r \in Runs, r <= reader'
      PROVE  Gone(r)' /\ (Lost(r)' \/ Shown(r)')
  <2>1. Gone(r) /\ (Lost(r) \/ Shown(r))
    BY <1>5 DEF Told
  <2>2. /\ Gone(r)' /\ (Failure(r)' <=> Failure(r))
        /\ (Lost(r) => Lost(r)') /\ target'[r] = target[r]
    BY <2>1, GoneStep
  <2>. QED BY <2>1, <2>2, ShownStep
<1>. QED BY <1>1, <1>2, <1>3, <1>4, <1>5 DEF Told

(* The reader's two steps.                                                 *)
LEMMA ReaderStep ==
  ASSUME IInv, Told, ReadProgress \/ ReadStatus
  PROVE  Told'
<1>0. UNCHANGED <<now, pc, facts, progress, status, update, mishaps, target, unsaid>>
  BY DEF ReadProgress, ReadStatus, vars, mainVars, memory
<1>1. ASSUME NEW r \in Runs
      PROVE  /\ Gone(r)' <=> Gone(r)
             /\ Lost(r)' <=> Lost(r)
             /\ Shown(r)' <=> Shown(r)
             /\ Orphaned(r)' <=> Orphaned(r)
  <2>1. Gone(r)' <=> Gone(r)
    BY <1>0 DEF Gone
  <2>2. Lost(r)' <=> Lost(r)
    BY <1>0 DEF Lost, Failure, Finished
  <2>3. Shown(r)' <=> Shown(r)
    BY <1>0 DEF Shown
  <2>4. Orphaned(r)' <=> Orphaned(r)
    BY <1>0 DEF Orphaned
  <2>. QED BY <2>1, <2>2, <2>3, <2>4
<1>2. /\ \A r \in Runs : Gone(r)' => Lost(r)' \/ Shown(r)' \/ Orphaned(r)'
      /\ pc' = "first" =>
           \A r \in Runs : r < now' =>
             Lost(r)' \/ Shown(r)' \/ (r = progress'.run /\ "unwritten" \in mishaps'[now'])
      /\ pc' = "unlink" =>
           Lost(now)' \/ Shown(now)' \/ update' = "none" \/ "unwritten" \in mishaps'[now']
  <2>1. pc = "unlink" => now \in Runs
    BY DEF IInv, TypeOK
  <2>2. (Lost(now)' <=> Lost(now)) /\ (Shown(now)' <=> Shown(now))
    BY <1>0 DEF Lost, Failure, Finished, Shown
  <2>. QED BY <1>0, <1>1, <2>1, <2>2 DEF Told
<1>3. now \in 0 .. MaxRuns
  BY DEF IInv, TypeOK
<1>4. CASE ReadStatus
  <2>1. reader' = 0
    BY <1>4 DEF ReadStatus
  <2>2. \A r \in Runs : ~(r <= reader')
    BY <2>1 DEF Runs
  <2>3. reader' \in 0 .. now'
    BY <1>0, <1>3, <2>1
  <2>. QED BY <1>2, <2>2, <2>3 DEF Told
<1>5. CASE ReadProgress
  <2>1. reader' = Ended /\ progress = NoFile
    BY <1>5 DEF ReadProgress, ClassifyProgress
  <2>2. pc \notin {"idle", "exit"} => now \in Runs
    BY DEF IInv, TypeOK
  <2>3. reader' \in 0 .. now
    BY <1>3, <2>1, <2>2 DEF Ended, Runs
  <2>4. \A r \in Runs : r <= reader' => Gone(r) /\ ~Orphaned(r)
    <3>1. \A r \in Runs : r # progress.run
      BY <2>1, BoundsAssumption DEF NoFile, Runs
    <3>2. \A r \in Runs : r <= reader' => Gone(r)
      BY <1>3, <2>1 DEF Ended, Gone, Runs
    <3>. QED BY <3>1, <3>2 DEF Orphaned
  <2>5. \A r \in Runs : r <= reader' => Gone(r)' /\ (Lost(r)' \/ Shown(r)')
    BY <1>1, <2>4 DEF Told
  <2>6. reader' \in 0 .. now'
    BY <1>0, <2>3
  <2>. QED BY <1>2, <2>5, <2>6 DEF Told
<1>. QED BY <1>4, <1>5

(* zark monitor and the indicators never show an all clear past a failed   *)
(* run, for any number of drives, runs and faults, and however long the    *)
(* reader takes between its two files: the results known to get lost apart.*)
THEOREM Clear == MonSpec => []ClearTrue
<1>. DEFINE MonInv == IInv /\ StayInv /\ Named /\ Told
<1>1. MonInit => MonInv
  <2>. SUFFICES ASSUME MonInit PROVE MonInv
    OBVIOUS
  <2>1. Init /\ IInv /\ StayInv
    BY InitTypes, InitGood, InitStays DEF MonInit
  <2>2. Named
    BY NoDriveAssumption DEF MonInit, Init, Named, NoFile, Starting
  <2>3. Told
    <3>1. \A r \in Runs : Lost(r) /\ ~(r <= 0)
      BY DEF MonInit, Init, Lost, Failure, Runs
    <3>. QED BY <3>1 DEF MonInit, Init, Told
  <2>. QED BY <2>1, <2>2, <2>3
<1>2. MonInv /\ [MonNext]_monVars => MonInv'
  <2>. SUFFICES ASSUME MonInv, [MonNext]_monVars PROVE MonInv'
    OBVIOUS
  <2>1. CASE Next /\ unsaid' = unsaid \cup Unsaid /\ reader' = reader
             /\ target' = IF drive' = NoDrive THEN target
                          ELSE [target EXCEPT ![now] = drive']
    <3>1. IInv' /\ StayInv'
      <4>1. TypeOK' /\ Placed'
        BY <2>1, TypeStep, PlacedStep DEF IInv
      <4>2. IInv'
        BY <2>1, <4>1, FilesStep, BuffersStep, KnownStep, OrphansStep DEF IInv
      <4>. QED BY <2>1, <4>2, StayStep
    <3>2. Named'
      BY <2>1, <3>1, NamedStep
    <3>. QED BY <2>1, <3>1, <3>2, ToldStep
  <2>2. CASE ReadProgress \/ ReadStatus
    <3>1. UNCHANGED <<vars, target, unsaid>>
      BY <2>2 DEF ReadProgress, ReadStatus
    <3>2. IInv' /\ StayInv'
      <4>1. UNCHANGED vars
        BY <3>1
      <4>2. TypeOK' /\ Placed'
        BY <4>1, TypeStep, PlacedStep DEF IInv
      <4>3. IInv'
        BY <4>1, <4>2, FilesStep, BuffersStep, KnownStep, OrphansStep DEF IInv
      <4>. QED BY <4>1, <4>3, StayStep
    <3>3. Named'
      BY <3>1 DEF vars, mainVars, memory, Named
    <3>. QED BY <2>2, <3>2, <3>3, ReaderStep
  <2>3. CASE UNCHANGED monVars
    <3>1. UNCHANGED vars /\ UNCHANGED <<target, unsaid, reader>>
      BY <2>3 DEF monVars
    <3>2. IInv' /\ StayInv'
      <4>1. TypeOK' /\ Placed'
        BY <3>1, TypeStep, PlacedStep DEF IInv
      <4>2. IInv'
        BY <3>1, <4>1, FilesStep, BuffersStep, KnownStep, OrphansStep DEF IInv
      <4>. QED BY <3>1, <4>2, StayStep
    <3>3. Named'
      BY <3>1 DEF vars, mainVars, memory, Named
    <3>4. Told'
      BY <3>1 DEF vars, mainVars, memory, Told, Gone, Lost, Failure, Finished,
                  Shown, Orphaned
    <3>. QED BY <3>2, <3>3, <3>4
  <2>. QED BY <2>1, <2>2, <2>3 DEF MonNext
<1>3. MonInv => ClearTrue
  <2>. SUFFICES ASSUME MonInv, reader # 0, Indicator("idle") = "clear",
                       NEW r \in 1 .. reader, Failure(r),
                       status[target[r]].run <= r
                PROVE  r \in unsaid
    BY DEF ClearTrue
  <2>1. ~Attention
    BY DEF Indicator
  <2>2. r \in Runs /\ r <= reader
    BY DEF Failure
  <2>3. Lost(r) \/ Shown(r)
    BY <2>2 DEF Told
  <2>4. ~Shown(r)
    <3>1. target[r] \in Drives => status[target[r]].run \in 0 .. MaxRuns
      BY DEF IInv, TypeOK, Entry
    <3>. QED BY <2>1, <2>2, <3>1 DEF Shown, Attention, Runs
  <2>. QED BY <2>3, <2>4 DEF Lost
<1>. HIDE DEF MonInv
<1>. QED BY <1>1, <1>2, <1>3, PTL DEF MonSpec
=============================================================================
