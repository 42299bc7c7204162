------------------------------- MODULE Sanoid -------------------------------
(***************************************************************************)
(* How a run holds sanoid.timer stopped (Run.pause_sanoid, resume_sanoid   *)
(* and execute in lib/engine.py) and how a timer a dead run left stopped   *)
(* is found again: the marker /run/zark/sanoid-paused, read by the next    *)
(* run and by zark clean.  The timer is also the user's to start and stop, *)
(* with no lock, and systemd's, at any moment.                             *)
(***************************************************************************)

VARIABLES
  timer,    \* sanoid.timer is active
  service,  \* sanoid.service or sanoid-prune.service is running
  marker,   \* SANOID_MARKER exists
  pc,       \* where the zark command that holds the lock is
  flag,     \* Run._timer_was_active
  tracked,  \* what Cleanup holds: "resume" (resume_sanoid), "undo" (undo_point)
  stopping, \* a signal was handled: further ones are ignored
  stopper,  \* history: who stopped the timer, while it is stopped
  troubles  \* history: what went wrong in the last command

procVars  == <<pc, flag, tracked, stopping>>
timerVars == <<timer, service, marker, procVars, stopper, troubles>>

TimerInit ==
  /\ timer \in BOOLEAN
  /\ stopper = IF timer THEN "nobody" ELSE "user"
  /\ service = FALSE
  /\ marker = FALSE
  /\ pc = "idle"
  /\ flag = FALSE
  /\ tracked = {}
  /\ stopping = FALSE
  /\ troubles = {}

(* The timer runs, whoever started it.                                     *)
TimerOn == timer' = TRUE /\ stopper' = "nobody"

(* The process ends, with what it had in memory.                           *)
Gone == pc' = "idle" /\ flag' = FALSE /\ tracked' = {} /\ stopping' = FALSE

Trouble(m) == troubles' = troubles \cup {m}
-----------------------------------------------------------------------------
(* execute, with pause_sanoid up to the end of its wait.                   *)

Execute ==
  /\ pc = "idle"
  /\ pc' = "read"
  /\ tracked' = {"resume"}
  /\ troubles' = {}
  /\ UNCHANGED <<timer, service, marker, flag, stopping, stopper>>

(* A timer found inactive with the marker there is one to start again.     *)
ReadTimer ==
  /\ pc = "read"
  /\ flag' = (timer \/ marker)
  /\ pc' = IF timer THEN "mark" ELSE "wait"
  /\ UNCHANGED <<timer, service, marker, tracked, stopping, stopper, troubles>>

WriteMarker ==
  /\ pc = "mark"
  /\ marker' \in {TRUE, marker}
  /\ pc' = "stop"
  /\ UNCHANGED <<timer, service, flag, tracked, stopping, stopper, troubles>>

(* systemctl stop; its failure goes unnoticed.                             *)
StopTimer ==
  /\ pc = "stop"
  /\ \/ /\ timer' = FALSE
        /\ stopper' = IF ~timer THEN stopper ELSE IF marker THEN "zark" ELSE "zark, unmarked"
        /\ UNCHANGED troubles
     \/ Trouble("stop failed") /\ UNCHANGED <<timer, stopper>>
  /\ pc' = "wait"
  /\ UNCHANGED <<service, marker, flag, tracked, stopping>>

(* Mutant of WaitService: the run goes on once the wait is over.           *)
WaitAndGo ==
  /\ pc = "wait"
  /\ pc' = "run"
  /\ tracked' = tracked \cup {"undo"}
  /\ UNCHANGED <<timer, service, marker, flag, stopping, stopper, troubles>>

(* The wait ends with sanoid idle, or with the run given up.               *)
WaitService ==
  /\ pc = "wait"
  /\ \/ ~service /\ pc' = "run" /\ tracked' = tracked \cup {"undo"}
     \/ service /\ pc' = "release" /\ UNCHANGED tracked
  /\ UNCHANGED <<timer, service, marker, flag, stopping, stopper, troubles>>

(* replicate returned; or it aborted, and undo_point ends with             *)
(* resume_sanoid; or an exception leaves execute with undo_point tracked.  *)
EndRun ==
  /\ pc = "run"
  /\ \/ pc' \in {"release", "resume"} /\ tracked' = tracked \ {"undo"}
     \/ pc' = "release" /\ UNCHANGED tracked
  /\ UNCHANGED <<timer, service, marker, flag, stopping, stopper, troubles>>
-----------------------------------------------------------------------------
(* execute's finally clause and resume_sanoid.                             *)

Untrack ==
  /\ pc = "release"
  /\ pc' = "resume"
  /\ tracked' = tracked \ {"resume"}
  /\ UNCHANGED <<timer, service, marker, flag, stopping, stopper, troubles>>

(* After resume_sanoid: the finally clause when undo_point called it, the  *)
(* end of the command otherwise.                                           *)
Return ==
  IF "resume" \in tracked
  THEN pc' = "release" /\ UNCHANGED <<flag, tracked, stopping>>
  ELSE Gone

(* Mutant of ClearFlag: a timer found stopped stays so.                    *)
NeverResume ==
  /\ pc = "resume"
  /\ Return
  /\ UNCHANGED <<timer, service, marker, stopper, troubles>>

(* The flag goes first: a second call does nothing.                        *)
ClearFlag ==
  /\ pc = "resume"
  /\ IF flag THEN pc' = "start" /\ flag' = FALSE /\ UNCHANGED <<tracked, stopping>>
             ELSE Return
  /\ UNCHANGED <<timer, service, marker, stopper, troubles>>

(* Mutant of StartTimer: the marker goes whether the timer started or not. *)
StartAndUnlink ==
  /\ pc = "start"
  /\ pc' = "unlink"
  /\ \/ TimerOn /\ UNCHANGED troubles
     \/ Trouble("start failed") /\ UNCHANGED <<timer, stopper>>
  /\ UNCHANGED <<service, marker, flag, tracked, stopping>>

(* systemctl start; when it fails the marker stays for the next run.       *)
StartTimer ==
  /\ pc = "start"
  /\ \/ TimerOn /\ pc' = "unlink" /\ UNCHANGED <<flag, tracked, stopping, troubles>>
     \/ Trouble("start failed") /\ Return /\ UNCHANGED <<timer, stopper>>
  /\ UNCHANGED <<service, marker>>

UnlinkMarker ==
  /\ pc = "unlink"
  /\ marker' \in {FALSE, marker}
  /\ Return
  /\ UNCHANGED <<timer, service, stopper, troubles>>
-----------------------------------------------------------------------------
(* Signals and crashes.                                                    *)

(* The handler raises in the run: execute's finally clause is next.        *)
SignalInRun ==
  /\ \/ pc \in {"read", "mark", "stop", "wait", "run"}
     \/ pc \in {"resume", "start", "unlink"} /\ "resume" \in tracked
  /\ ~stopping
  /\ stopping' = TRUE
  /\ pc' = "release"
  /\ IF pc = "start" THEN Trouble("late signal") ELSE UNCHANGED troubles
  /\ UNCHANGED <<timer, service, marker, flag, tracked, stopper>>

(* It raises in the finally clause: what Cleanup still holds is called,    *)
(* and either action ends in resume_sanoid.                                *)
SignalInFinally ==
  /\ \/ pc = "release"
     \/ pc \in {"resume", "start", "unlink"} /\ "resume" \notin tracked
  /\ ~stopping
  /\ IF tracked = {} THEN Gone
     ELSE pc' = "resume" /\ tracked' = {} /\ stopping' = TRUE /\ UNCHANGED flag
  /\ IF pc = "release" THEN UNCHANGED troubles ELSE Trouble("late signal")
  /\ UNCHANGED <<timer, service, marker, stopper>>

(* SIGKILL: nothing runs.                                                  *)
KillHolder ==
  /\ pc # "idle"
  /\ Gone
  /\ Trouble("killed")
  /\ UNCHANGED <<timer, service, marker, stopper>>

(* Power loss or a reboot: /run is emptied, the enabled timer starts.      *)
Reboot ==
  /\ Gone
  /\ TimerOn
  /\ service' = FALSE
  /\ marker' = FALSE
  /\ troubles' = {}
-----------------------------------------------------------------------------
(* zark clean: it lists the timer when the marker is there, asks, starts   *)
(* it and removes the marker.                                              *)

CleanAsk ==
  /\ pc = "idle"
  /\ marker /\ ~timer
  /\ pc' = "cleanAsked"
  /\ troubles' = {}
  /\ UNCHANGED <<timer, service, marker, flag, tracked, stopping, stopper>>

CleanStart ==
  /\ pc = "cleanAsked"
  /\ \/ TimerOn /\ pc' = "cleanUnlink" /\ UNCHANGED <<flag, tracked, stopping, troubles>>
     \/ Trouble("start failed") /\ Gone /\ UNCHANGED <<timer, stopper>>
  /\ UNCHANGED <<service, marker>>

CleanUnlink ==
  /\ pc = "cleanUnlink"
  /\ marker' \in {FALSE, marker}
  /\ Gone
  /\ UNCHANGED <<timer, service, stopper, troubles>>
-----------------------------------------------------------------------------
(* systemd and the user, at any moment.                                    *)

Fire ==
  /\ timer /\ ~service
  /\ service' = TRUE
  /\ UNCHANGED <<timer, marker, procVars, stopper, troubles>>

ServiceEnds ==
  /\ service
  /\ service' = FALSE
  /\ UNCHANGED <<timer, marker, procVars, stopper, troubles>>

UserStarts ==
  /\ ~timer
  /\ TimerOn
  /\ IF pc = "idle" THEN UNCHANGED troubles ELSE Trouble("user started")
  /\ UNCHANGED <<service, marker, procVars>>

UserStops ==
  /\ timer' = FALSE
  /\ stopper' = "user"
  /\ UNCHANGED <<service, marker, procVars, troubles>>

Step ==
  \/ ReadTimer \/ WriteMarker \/ StopTimer \/ WaitService \/ EndRun
  \/ Untrack \/ ClearFlag \/ StartTimer \/ UnlinkMarker
  \/ CleanStart \/ CleanUnlink

TimerNext ==
  \/ Step \/ Execute \/ CleanAsk
  \/ SignalInRun \/ SignalInFinally \/ KillHolder \/ Reboot
  \/ Fire \/ ServiceEnds \/ UserStarts \/ UserStops

TimerSpec == TimerInit /\ [][TimerNext]_timerVars

(* A command that is not killed goes on; so does sanoid.                   *)
TimerFairSpec == TimerSpec /\ WF_timerVars(Step) /\ WF_timerVars(ServiceEnds)
-----------------------------------------------------------------------------
(* Properties.                                                             *)

(* Recoverable: while the timer is stopped by a run whose marker could be  *)
(* written, the marker is there, whatever command died, failed or was      *)
(* signalled since: the next run or zark clean starts the timer again.     *)
Recoverable == stopper = "zark" => marker

(* QuietRun: from the point to the last removal in origin no sanoid unit   *)
(* runs, although the timer may fire up to the moment it is stopped;       *)
(* unless the user started it meanwhile or it could not be stopped.        *)
QuietRun ==
  pc = "run" /\ troubles \cap {"stop failed", "user started"} = {} => ~service /\ ~timer

(* Restored: a timer a run stopped, or found left stopped by one that      *)
(* died, runs again in the end, or the user stopped it, or the run met one *)
(* of the three endings that only the next command repairs.                *)
Restored ==
  (pc = "run" /\ stopper = "zark") ~>
    (stopper # "zark" \/ troubles \cap {"killed", "start failed", "late signal"} # {})
=============================================================================
