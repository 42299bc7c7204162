------------------------------ MODULE Records ------------------------------
(***************************************************************************)
(* What a zark command tells other programs: /run/zark/progress.json while *)
(* it runs (lib/progress.py) and a backup's result in                      *)
(* /var/lib/zark/status.json (lib/status_file.py, _RunRecord in            *)
(* commands/backup.py), next to the registry of drives.                    *)
(*                                                                         *)
(* Three threads share these files: the main thread of the command that    *)
(* holds zark.lock, its heartbeat thread, and the alerts timer's zark      *)
(* status --refresh, which takes no zark.lock.  Signals, SIGKILL, reboots  *)
(* and failed writes fall between any two steps.                           *)
(*                                                                         *)
(* A command is its started_at: the first is 1, the next 2, and 0 is none. *)
(* A run has at most one point, which is named by its run too.             *)
(***************************************************************************)
EXTENDS Integers

CONSTANTS
  Drives,    \* GUIDs that may be in the registry
  NoDrive,   \* progress.json's drive before one is chosen
  MaxRuns,   \* bound: commands started
  MaxFaults  \* bound: signals, kills, reboots and writes that fail

ASSUME NoDriveAssumption == NoDrive \notin Drives
ASSUME BoundsAssumption == MaxRuns \in Nat /\ MaxFaults \in Nat

VARIABLES
  now,       \* the last command started
  pc,        \* where its main thread is
  command,   \* "backup" or "other", any other command that takes the lock
  drive,     \* _State.drive: what the next write of progress.json says
  heart,     \* the heartbeat thread: "off", "wait" or "write" (holds run.lock)
  signalled, \* a signal was handled, further ones are ignored
  onEnd,     \* _RunRecord.finish is registered with progress.on_end
  done,      \* _RunRecord.done
  verdict,   \* the result result() was called with, until it is recorded
  update,    \* the result in _State.updates for the run's drive
  facts,     \* what each run did to its drive (the current one's are in memory)
  progress,  \* progress.json
  registry,  \* known_drives.json: last_backup_at of each drive
  status,    \* status.json: each drive's entry
  lock,      \* who holds status.lock
  writer,    \* each writer of status.json: "off", "loaded" or "locked"
  cfg,       \* the registry each writer loaded
  prev,      \* the status.json each writer read under the lock
  up,        \* the DriveUpdate of each writer
  mishaps,   \* history: how each run died, whether its last write failed
  dropped,   \* history: drives whose entry a writer without them dropped
  faults     \* bound: faults so far

memory     == <<command, drive, onEnd, done, verdict, update>>
mainVars   == <<now, memory, facts>>
writerVars == <<lock, writer, cfg, prev, up>>
vars       == <<mainVars, pc, heart, signalled, progress, registry, status,
                writerVars, mishaps, dropped, faults>>

Runs    == 1 .. MaxRuns
Writers == {"main", "timer"}

(* lib.status_file.RESULTS; a drive without last_run has "none".           *)
RESULTS == {"completed", "incomplete", "not_verified", "aborted", "interrupted"}
Result  == RESULTS \cup {"none"}

(* What a run did: a receive began, the engine's Result was ok (every      *)
(* expected dataset reached the point), the drive was exported, its        *)
(* read-back succeeded.                                                    *)
Fact == {"began", "whole", "exported", "verified"}

(* A registry entry: Unknown when the drive is not in known_drives.json, 0 *)
(* when it was never backed up, else the run that set last_backup_at.      *)
Unknown  == -1
Registry == [Drives -> Unknown .. MaxRuns]

(* A drive's entry of status.json: last_backup_at, last_backup_point and   *)
(* last_run (its started_at and its result).                               *)
Entry    == [listed : BOOLEAN, at : 0 .. MaxRuns, point : 0 .. MaxRuns,
             run : 0 .. MaxRuns, result : Result]
Unlisted == [listed |-> FALSE, at |-> 0, point |-> 0, run |-> 0,
             result |-> "none"]

(* DriveUpdate; unless is unless_started_at, the run itself when set.      *)
DriveUpdate == [drive : Drives \cup {NoDrive}, run : 0 .. MaxRuns,
                result : Result, unless : BOOLEAN]
NoUpdate    == [drive |-> NoDrive, run |-> 0, result |-> "none",
                unless |-> FALSE]

Document == [run : 0 .. MaxRuns, backup : BOOLEAN,
             drive : Drives \cup {NoDrive}]
NoFile   == [run |-> 0, backup |-> FALSE, drive |-> NoDrive]

(* Where main is: in progress.start, in the command, in progress.end.      *)
Starting == {"started", "orphan", "first", "begun"}
Working  == {"command", "named", "work", "export", "unexported", "readback",
             "unread", "partial", "save", "banner", "recording", "refresh",
             "prompt", "ending"}
Ending   == {"stopping", "endwrite", "unlink", "exit"}

Init ==
  /\ now = 0
  /\ pc = "idle"
  /\ command = "other"
  /\ drive = NoDrive
  /\ heart = "off"
  /\ signalled = FALSE
  /\ onEnd = FALSE
  /\ done = FALSE
  /\ verdict = "none"
  /\ update = "none"
  /\ facts = [r \in Runs |-> {}]
  /\ progress = NoFile
  /\ registry \in [Drives -> {Unknown, 0}]
  /\ status = [d \in Drives |-> Unlisted]
  /\ lock = "free"
  /\ writer = [w \in Writers |-> "off"]
  /\ cfg = [w \in Writers |-> [d \in Drives |-> Unknown]]
  /\ prev = [w \in Writers |-> [d \in Drives |-> Unlisted]]
  /\ up = [w \in Writers |-> NoUpdate]
  /\ mishaps = [r \in Runs |-> {}]
  /\ dropped = {}
  /\ faults = 0

(* The command's process is over, with what it had in memory.              *)
Over ==
  /\ pc' = "idle"
  /\ command' = "other"
  /\ drive' = NoDrive
  /\ heart' = "off"
  /\ signalled' = FALSE
  /\ onEnd' = FALSE
  /\ done' = FALSE
  /\ verdict' = "none"
  /\ update' = "none"

Learn(f)  == facts' = [facts EXCEPT ![now] = @ \cup {f}]
Mishap(m) == mishaps' = [mishaps EXCEPT ![now] = @ \cup {m}]
Fault     == faults < MaxFaults /\ faults' = faults + 1
-----------------------------------------------------------------------------
(* status_file.write: Config.load and gather before the lock, the previous *)
(* file read under it, the merge written, the lock released.               *)

(* Mutant: an orphan is recorded whatever its run recorded before it died. *)
KeepsNothing(before, u) == FALSE

(* An orphan's result does not replace one of the same run.                *)
KeepsLast(before, u) == u.unless /\ before.run = u.run

(* A drive's entry after a write with update u, from entry before and      *)
(* last_backup_at r.                                                       *)
Merge(before, u, r) ==
  LET keep == u.result = "none" \/ KeepsLast(before, u)
  IN [listed |-> TRUE,
      at     |-> r,
      point  |-> IF u.result = "completed" THEN u.run ELSE before.point,
      run    |-> IF keep THEN before.run ELSE u.run,
      result |-> IF keep THEN before.result ELSE u.result]

For(w, d) == IF up[w].drive = d THEN up[w] ELSE NoUpdate

Build(w) ==
  [d \in Drives |->
     IF cfg[w][d] = Unknown THEN Unlisted
     ELSE Merge(prev[w][d], For(w, d), cfg[w][d])]

(* Writer w has its registry r and its update u and goes for the lock.     *)
Load(w, r, u) ==
  /\ writer' = [writer EXCEPT ![w] = "loaded"]
  /\ cfg' = [cfg EXCEPT ![w] = r]
  /\ up' = [up EXCEPT ![w] = u]
  /\ UNCHANGED <<lock, prev>>

(* Writer w leaves write, which releases the lock if it holds it.          *)
Close(w) ==
  /\ writer' = [writer EXCEPT ![w] = "off"]
  /\ lock' = IF lock = w THEN "free" ELSE lock
  /\ cfg' = [cfg EXCEPT ![w] = [d \in Drives |-> Unknown]]
  /\ prev' = [prev EXCEPT ![w] = [d \in Drives |-> Unlisted]]
  /\ up' = [up EXCEPT ![w] = NoUpdate]

(* Where main goes on after its write.                                     *)
Resume(w) ==
  IF w = "timer" THEN pc' = pc
  ELSE pc' = CASE pc = "orphan"  -> "first"
               [] pc = "refresh" -> "prompt"
               [] OTHER          -> "unlink"

LockStatus(w) ==
  /\ writer[w] = "loaded"
  /\ lock = "free"
  /\ lock' = w
  /\ writer' = [writer EXCEPT ![w] = "locked"]
  /\ prev' = [prev EXCEPT ![w] = status]
  /\ UNCHANGED <<mainVars, pc, heart, signalled, progress, registry, status,
                 cfg, up, mishaps, dropped, faults>>

WriteStatus(w) ==
  /\ writer[w] = "locked"
  /\ status' = Build(w)
  /\ Close(w)
  /\ Resume(w)
  /\ mishaps' = IF w = "main"
                THEN [mishaps EXCEPT ![now] = @ \ {"unwritten"}] ELSE mishaps
  /\ dropped' = dropped \cup {d \in Drives : status[d].listed /\ ~status'[d].listed}
  /\ UNCHANGED <<mainVars, heart, signalled, progress, registry, faults>>

(* The file is not written: a warning in the log, never a failed command.  *)
Unwritten(w) ==
  /\ Close(w)
  /\ Resume(w)
  /\ IF w = "main" THEN Mishap("unwritten") ELSE UNCHANGED mishaps
  /\ UNCHANGED <<mainVars, heart, signalled, progress, registry, status,
                 dropped>>

(* Mutant: the lock is waited for without a deadline.                      *)
NeverGiveUp(w) == FALSE

(* status.lock is still held after LOCK_WAIT_S.                            *)
GiveUp(w) ==
  /\ writer[w] = "loaded"
  /\ lock # "free"
  /\ Unwritten(w)
  /\ UNCHANGED faults

(* gather, the lock or the write raises; for the timer, or it is killed.   *)
WriteFails(w) ==
  /\ writer[w] # "off"
  /\ Fault
  /\ Unwritten(w)

(* zark status --refresh, hourly.                                          *)
Timer ==
  /\ writer["timer"] = "off"
  /\ Load("timer", registry, NoUpdate)
  /\ UNCHANGED <<mainVars, pc, heart, signalled, progress, registry, status,
                 mishaps, dropped, faults>>
-----------------------------------------------------------------------------
(* main and progress.start.                                                *)

(* lock.guard: a command that finds zark.lock taken does nothing.          *)
Start(c) ==
  /\ pc = "idle"
  /\ now < MaxRuns
  /\ now' = now + 1
  /\ pc' = "started"
  /\ command' = c
  /\ UNCHANGED <<drive, onEnd, done, verdict, update, facts, heart, signalled,
                 progress, registry, status, writerVars, mishaps, dropped,
                 faults>>

(* _record_orphan has something to record.                                 *)
OrphanCounts ==
  /\ progress.backup
  /\ progress.drive # NoDrive
  /\ registry[progress.drive] # Unknown

OrphanUpdate == [drive |-> progress.drive, run |-> progress.run,
                 result |-> "interrupted", unless |-> TRUE]

FindOrphan ==
  /\ pc = "started"
  /\ \/ /\ OrphanCounts
        /\ pc' = "orphan"
        /\ Load("main", registry, OrphanUpdate)
     \/ /\ ~OrphanCounts
        /\ pc' = "first"
        /\ UNCHANGED writerVars
  /\ UNCHANGED <<mainVars, heart, signalled, progress, registry, status,
                 mishaps, dropped, faults>>

Written == [run |-> now, backup |-> command = "backup", drive |-> drive]

FirstWrite ==
  /\ pc = "first"
  /\ progress' = Written
  /\ pc' = "begun"
  /\ UNCHANGED <<mainVars, heart, signalled, registry, status, writerVars,
                 mishaps, dropped, faults>>

(* The heartbeat thread starts and end is registered with atexit.          *)
Begin ==
  /\ pc = "begun"
  /\ heart' = "wait"
  /\ pc' = "command"
  /\ UNCHANGED <<mainVars, signalled, progress, registry, status, writerVars,
                 mishaps, dropped, faults>>

(* _heartbeat: run.lock is held from the decision to write to the end of   *)
(* the write.  Every change of the document takes run.lock.                *)
BeatLock ==
  /\ heart = "wait"
  /\ heart' = "write"
  /\ UNCHANGED <<mainVars, pc, signalled, progress, registry, status,
                 writerVars, mishaps, dropped, faults>>

BeatWrite ==
  /\ heart = "write"
  /\ heart' = "wait"
  /\ progress' = Written
  /\ UNCHANGED <<mainVars, pc, signalled, registry, status, writerVars,
                 mishaps, dropped, faults>>

RunLock == heart # "write"
-----------------------------------------------------------------------------
(* The commands.                                                           *)

(* explore, prepare, registry forget, purge: known_drives.json gains or    *)
(* loses a drive; every other command leaves last_backup_at alone.         *)
OtherCommand ==
  /\ pc = "command"
  /\ command = "other"
  /\ \/ UNCHANGED registry
     \/ \E d \in Drives :
          registry' = [registry EXCEPT ![d] = IF @ = Unknown THEN 0 ELSE Unknown]
  /\ pc' = "ending"
  /\ UNCHANGED <<mainVars, heart, signalled, progress, status, writerVars,
                 mishaps, dropped, faults>>

(* backup.run: a known drive is chosen and named in progress.json.         *)
SetDrive(d) ==
  /\ pc = "command"
  /\ command = "backup"
  /\ registry[d] # Unknown
  /\ RunLock
  /\ drive' = d
  /\ pc' = "named"
  /\ UNCHANGED <<now, command, onEnd, done, verdict, update, facts, heart,
                 signalled, progress, registry, status, writerVars, mishaps,
                 dropped, faults>>

RegisterFinish ==
  /\ pc = "named"
  /\ RunLock
  /\ onEnd' = TRUE
  /\ pc' = "work"
  /\ UNCHANGED <<now, command, drive, done, verdict, update, facts, heart,
                 signalled, progress, registry, status, writerVars, mishaps,
                 dropped, faults>>

(* The import, the checks, a declined question or the engine ends the run  *)
(* with a fatal error, before or after a receive began.                    *)
Fatal ==
  /\ pc \in {"command", "work"}
  /\ command = "backup"
  /\ pc' = "ending"
  /\ UNCHANGED <<mainVars, heart, signalled, progress, registry, status,
                 writerVars, mishaps, dropped, faults>>

(* engine.execute: the first receive, then the rest.                       *)
BeginReceive ==
  /\ pc = "work"
  /\ Learn("began")
  /\ UNCHANGED <<now, command, drive, onEnd, done, verdict, update, pc, heart,
                 signalled, progress, registry, status, writerVars, mishaps,
                 dropped, faults>>

Replicated ==
  /\ pc = "work"
  /\ \/ "began" \in facts[now] /\ Learn("whole")
     \/ UNCHANGED facts
  /\ pc' = "export"
  /\ UNCHANGED <<now, command, drive, onEnd, done, verdict, update, heart,
                 signalled, progress, registry, status, writerVars, mishaps,
                 dropped, faults>>

(* Mutant: a failed export is a skipped check.                             *)
ExportAnyway ==
  /\ pc = "export"
  /\ Learn("exported") \/ UNCHANGED facts
  /\ pc' = "readback"
  /\ UNCHANGED <<now, memory, heart, signalled, progress, registry, status,
                 writerVars, mishaps, dropped, faults>>

(* cleanup.run, with the exit signals ignored.                             *)
Export ==
  /\ pc = "export"
  /\ \/ Learn("exported") /\ pc' = "readback"
     \/ UNCHANGED facts /\ pc' = "unexported"
  /\ UNCHANGED <<now, command, drive, onEnd, done, verdict, update, heart,
                 signalled, progress, registry, status, writerVars, mishaps,
                 dropped, faults>>

ReadBack ==
  /\ pc = "readback"
  /\ \/ /\ Learn("verified")
        /\ pc' = IF "whole" \in facts[now] THEN "save" ELSE "partial"
     \/ UNCHANGED facts /\ pc' = "unread"
  /\ UNCHANGED <<now, command, drive, onEnd, done, verdict, update, heart,
                 signalled, progress, registry, status, writerVars, mishaps,
                 dropped, faults>>

(* save_drives, or its failure, a warning.                                 *)
SaveDrives ==
  /\ pc = "save"
  /\ \/ registry' = [registry EXCEPT ![drive] = now]
     \/ UNCHANGED registry
  /\ pc' = "banner"
  /\ UNCHANGED <<mainVars, heart, signalled, progress, status, writerVars,
                 mishaps, dropped, faults>>

(* _RunRecord.result sets done, then records.                              *)
SetDone ==
  /\ pc \in {"unexported", "unread", "partial", "banner"}
  /\ done' = TRUE
  /\ verdict' = CASE pc = "partial" -> "incomplete"
                  [] pc = "banner"  -> "completed"
                  [] OTHER          -> "not_verified"
  /\ pc' = "recording"
  /\ UNCHANGED <<now, command, drive, onEnd, update, facts, heart, signalled,
                 progress, registry, status, writerVars, mishaps, dropped, faults>>

OwnUpdate(result) == [drive |-> drive, run |-> now, result |-> result,
                      unless |-> FALSE]

(* A completed run writes status.json at once, with the registry it has in *)
(* memory, whether it could be saved or not.                               *)
Record ==
  /\ pc = "recording"
  /\ RunLock
  /\ update' = verdict
  /\ \/ /\ verdict = "completed"
        /\ pc' = "refresh"
        /\ Load("main", [registry EXCEPT ![drive] = now], OwnUpdate(verdict))
     \/ /\ verdict # "completed"
        /\ pc' = "ending"
        /\ UNCHANGED writerVars
  /\ UNCHANGED <<now, command, drive, onEnd, done, verdict, facts, heart,
                 signalled, progress, registry, status, mishaps, dropped, faults>>

(* The eject prompt.                                                       *)
Answer ==
  /\ pc = "prompt"
  /\ pc' = "ending"
  /\ UNCHANGED <<mainVars, heart, signalled, progress, registry, status,
                 writerVars, mishaps, dropped, faults>>
-----------------------------------------------------------------------------
(* progress.end, from atexit.                                              *)

(* signals.teardown: from here on no signal is handled.                    *)
Teardown ==
  /\ pc = "ending"
  /\ pc' = "stopping"
  /\ UNCHANGED <<mainVars, heart, signalled, progress, registry, status,
                 writerVars, mishaps, dropped, faults>>

(* _RunRecord.finish.                                                      *)
FinishResult ==
  IF onEnd /\ ~done
  THEN IF "began" \in facts[now] THEN "interrupted" ELSE "aborted"
  ELSE update

(* Mutant: end stops the heartbeat without run.lock and does not wait for  *)
(* a write that has begun.                                                 *)
FinishUnlocked ==
  /\ pc = "stopping"
  /\ update' = FinishResult
  /\ done' = (done \/ onEnd)
  /\ heart' = IF heart = "write" THEN "write" ELSE "off"
  /\ pc' = "endwrite"
  /\ Load("main", registry, OwnUpdate(FinishResult))
  /\ UNCHANGED <<now, command, drive, onEnd, verdict, facts, signalled,
                 progress, registry, status, mishaps, dropped, faults>>

(* The on_end actions, the heartbeat stopped and joined, Config.load.      *)
Finish ==
  /\ pc = "stopping"
  /\ RunLock
  /\ update' = FinishResult
  /\ done' = (done \/ onEnd)
  /\ heart' = "off"
  /\ pc' = "endwrite"
  /\ Load("main", registry, OwnUpdate(FinishResult))
  /\ UNCHANGED <<now, command, drive, onEnd, verdict, facts, signalled,
                 progress, registry, status, mishaps, dropped, faults>>

Unlink ==
  /\ pc = "unlink"
  /\ progress' = NoFile
  /\ pc' = "exit"
  /\ UNCHANGED <<mainVars, heart, signalled, registry, status, writerVars,
                 mishaps, dropped, faults>>

(* The process exits, which frees zark.lock.                               *)
Exit ==
  /\ pc = "exit"
  /\ Over
  /\ UNCHANGED <<now, facts, progress, registry, status, writerVars, mishaps,
                 dropped, faults>>
-----------------------------------------------------------------------------
(* Signals, SIGKILL and reboots.                                           *)

(* The process dies, and both its locks with it.                           *)
Dies == Over /\ Close("main")

(* lib.signals: the exception unwinds the command to atexit.  Before end   *)
(* is registered, or once atexit has entered it and before its teardown,   *)
(* nothing of end runs.                                                    *)
Signal ==
  /\ pc \in Starting \cup Working
  /\ ~signalled
  /\ Fault
  /\ \/ /\ pc \in Working
        /\ signalled' = TRUE
        /\ pc' = "ending"
        /\ Close("main")
        /\ UNCHANGED <<memory, heart, mishaps>>
     \/ /\ pc \in Starting \cup {"ending"}
        /\ Dies
        /\ Mishap("cut")
  /\ UNCHANGED <<now, facts, progress, registry, status, dropped>>

Kill ==
  /\ pc # "idle"
  /\ Fault
  /\ Dies
  /\ Mishap("killed")
  /\ UNCHANGED <<now, facts, progress, registry, status, dropped>>

(* /run is a tmpfs.                                                        *)
Reboot ==
  /\ Fault
  /\ Over
  /\ progress' = NoFile
  /\ lock' = "free"
  /\ writer' = [w \in Writers |-> "off"]
  /\ cfg' = [w \in Writers |-> [d \in Drives |-> Unknown]]
  /\ prev' = [w \in Writers |-> [d \in Drives |-> Unlisted]]
  /\ up' = [w \in Writers |-> NoUpdate]
  /\ IF pc # "idle" THEN Mishap("killed") ELSE UNCHANGED mishaps
  /\ UNCHANGED <<now, facts, registry, status, dropped>>
-----------------------------------------------------------------------------
Main ==
  \/ \E c \in {"backup", "other"} : Start(c)
  \/ FindOrphan \/ FirstWrite \/ Begin
  \/ OtherCommand \/ Fatal \/ RegisterFinish
  \/ \E d \in Drives : SetDrive(d)
  \/ BeginReceive \/ Replicated \/ Export \/ ReadBack \/ SaveDrives
  \/ SetDone \/ Record \/ Answer

End == Teardown \/ Finish \/ Unlink \/ Exit

Write(w) == LockStatus(w) \/ WriteStatus(w) \/ GiveUp(w)

Next ==
  \/ Main \/ End
  \/ BeatLock \/ BeatWrite
  \/ \E w \in Writers : Write(w) \/ WriteFails(w)
  \/ Timer
  \/ Signal \/ Kill \/ Reboot

Spec == Init /\ [][Next]_vars

(* The code's own steps at the end of a command, its writes and its        *)
(* heartbeat are taken; the heartbeat leaves run.lock free for a second    *)
(* (MIN_GAP_S) after each write, which is long enough for end to take it.  *)
(* The timer's process may stop at any step.                               *)
Fairness ==
  /\ WF_vars(Teardown \/ Write("main") \/ Unlink \/ Exit)
  /\ SF_vars(Finish) /\ WF_vars(BeatWrite)
-----------------------------------------------------------------------------
(* The types of the files, of the threads and of what they hold.           *)
TypeOK ==
  /\ now \in 0 .. MaxRuns
  /\ pc \in {"idle"} \cup Starting \cup Working \cup Ending
  /\ pc # "idle" => now \in Runs
  /\ command \in {"backup", "other"}
  /\ drive \in Drives \cup {NoDrive}
  /\ pc \in Working \ {"command", "ending"} => drive \in Drives
  /\ heart \in {"off", "wait", "write"}
  /\ {signalled, onEnd, done} \subseteq BOOLEAN
  /\ {verdict, update} \subseteq Result
  /\ facts \in [Runs -> SUBSET Fact]
  /\ progress \in Document
  /\ registry \in Registry
  /\ status \in [Drives -> Entry]
  /\ lock \in Writers \cup {"free"}
  /\ writer \in [Writers -> {"off", "loaded", "locked"}]
  /\ cfg \in [Writers -> Registry]
  /\ prev \in [Writers -> [Drives -> Entry]]
  /\ up \in [Writers -> DriveUpdate]
  /\ mishaps \in [Runs -> SUBSET {"killed", "cut", "unwritten"}]
  /\ dropped \subseteq Drives
  /\ faults \in 0 .. MaxFaults

(* What a last_run or a last_backup_at may say of run r.                   *)
Finished(r) == {"whole", "exported", "verified"} \subseteq facts[r]

Says(r, result) ==
  CASE result = "completed"    -> Finished(r)
    [] result = "incomplete"   -> {"exported", "verified"} \subseteq facts[r]
                                  /\ "whole" \notin facts[r]
    [] result = "not_verified" -> "verified" \notin facts[r]
    [] result = "aborted"      -> "began" \notin facts[r]
    [] result = "interrupted"  -> "began" \in facts[r]
                                  \/ {"killed", "cut"} \cap mishaps[r] # {}
    [] OTHER                   -> TRUE

(* A result in status.json is true of the run it names, whoever wrote it   *)
(* and however often it was merged: completed was whole, exported and read *)
(* back, aborted had sent nothing, interrupted had, or died; and a date or *)
(* a point is that of a finished backup.                                   *)
TrueResults ==
  \A d \in Drives :
    /\ status[d].run # 0 => Says(status[d].run, status[d].result)
    /\ status[d].at # 0 => Finished(status[d].at)
    /\ status[d].point # 0 => Finished(status[d].point)
    /\ registry[d] \in Runs => Finished(registry[d])

(* progress.json is never a ghost: no heartbeat writes it again once end   *)
(* removed it, so without a command the file is of one that died.          *)
NoGhost ==
  pc \in {"idle", "exit"} /\ progress.run # 0
    => {"killed", "cut"} \cap mishaps[progress.run] # {}

(* A result in status.json stays: no writer, not the timer, not the next   *)
(* command that finds the orphan, changes the result of a run or puts an   *)
(* earlier run or nothing in its place, while the drive stays registered.  *)
ResultsKept ==
  [][\A d \in Drives \ dropped' :
       status[d].listed
         => \/ status'[d].run > status[d].run
            \/ /\ status'[d].run = status[d].run
               /\ status'[d].result = status[d].result]_vars

(* When end removes progress.json, the result the run recorded is in       *)
(* status.json, unless the write itself failed: the timer that read the    *)
(* file before and writes it after does not take it away (a drive that was *)
(* not in its registry apart).                                             *)
ResultFirst ==
  pc = "unlink" /\ update # "none" /\ drive \notin dropped
                /\ "unwritten" \notin mishaps[now]
    => status[drive].run = now /\ status[drive].result = update

(* A command that has begun to end does, and its file goes: it waits for   *)
(* no other process, not even for a timer stopped with status.lock held.   *)
EndingEnds == pc = "stopping" ~> pc = "idle"

(* ResultsStay: a run's result is in status.json before its progress.json  *)
(* goes, and no later writer takes it away or replaces it with an older.   *)
ResultsStay == []ResultFirst /\ ResultsKept
=============================================================================
