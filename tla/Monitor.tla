------------------------------ MODULE Monitor -------------------------------
(***************************************************************************)
(* A reader of Records' two files, as zark monitor and the desktop         *)
(* indicators use them (lib/status_reader.py): it takes no lock, reads     *)
(* progress.json first and status.json later, and shows one state made of  *)
(* both.  Clocks, notices and files of another version are left out: they  *)
(* only add states that ask for attention.                                 *)
(***************************************************************************)
EXTENDS Records

VARIABLES
  reader,   \* the last run that had ended when the reader found no
            \* progress.json, 0 when it is not between its two reads
  target,   \* history: the drive each run chose
  unsaid    \* history: failed runs whose result was lost in a known way

monVars == <<vars, reader, target, unsaid>>

(* The runs that sent something and did not end as a backup.               *)
Failure(r) == r \in Runs /\ "began" \in facts[r] /\ ~Finished(r)

(* process_alive: the boot, the pid and its start time are those of the    *)
(* command that runs.                                                      *)
ProcessAlive(doc) == pc # "idle" /\ doc.run = now

(* Mutant: a file whose process is gone is no file.                        *)
ClassifyAlive(doc) == IF ProcessAlive(doc) THEN "running" ELSE "idle"

(* classify_progress.                                                      *)
ClassifyProgress(doc) ==
  IF doc = NoFile THEN "idle" ELSE IF ProcessAlive(doc) THEN "running" ELSE "orphan"

(* ATTENTION_RESULTS, _attention.                                          *)
Attention ==
  \E d \in Drives : status[d].result \in {"incomplete", "not_verified", "interrupted"}

(* indicator; "clear" stands for ok, overdue and none.                     *)
Indicator(class) ==
  IF class = "running" THEN "running"
  ELSE IF Attention THEN "attention"
  ELSE IF class = "orphan" THEN "edge"
  ELSE "clear"

Ended == IF pc \in {"idle", "exit"} THEN now ELSE now - 1

MonInit ==
  Init /\ reader = 0 /\ target = [r \in Runs |-> NoDrive] /\ unsaid = {}

(* read_all: progress.json, then status.json.                              *)
ReadProgress ==
  /\ reader = 0
  /\ ClassifyProgress(progress) = "idle"
  /\ reader' = Ended
  /\ UNCHANGED <<vars, target, unsaid>>

ReadStatus ==
  /\ reader # 0
  /\ reader' = 0
  /\ UNCHANGED <<vars, target, unsaid>>

(* The failed runs a step leaves without a result: a signal ended one      *)
(* before it was recorded, its last write failed, or it died before its    *)
(* file named the drive; its orphan was overwritten unrecorded, or went    *)
(* with a reboot; a writer that does not know the drive dropped its entry. *)
Unsaid ==
  {r \in Runs :
     /\ Failure(r)
     /\ \/ r = now /\ pc = "unlink" /\ (update = "none" \/ "unwritten" \in mishaps[r])
        \/ r = now /\ pc \notin {"idle", "exit"} /\ pc' = "idle" /\ progress.drive = NoDrive
        \/ r = progress.run /\ pc = "first" /\ pc' = "begun" /\ "unwritten" \in mishaps[now]
        \/ r = progress.run /\ progress' = NoFile /\ pc # "unlink"
        \/ target[r] # NoDrive /\ status[target[r]].listed /\ ~status'[target[r]].listed}

MonNext ==
  \/ /\ Next
     /\ unsaid' = unsaid \cup Unsaid
     /\ target' = IF drive' = NoDrive THEN target ELSE [target EXCEPT ![now] = drive']
     /\ UNCHANGED reader
  \/ ReadProgress \/ ReadStatus

MonSpec == MonInit /\ [][MonNext]_monVars

(* The commands' fairness; nothing is asked of the reader.                 *)
FairMonSpec == MonSpec /\ Fairness
-----------------------------------------------------------------------------
(* ClearTrue: a reader that finds no progress.json and then nothing to     *)
(* attend to in status.json, at any later moment, is not looking past a    *)
(* failed run: no run that ended before the first read stopped half-way,   *)
(* unless a later run of the same drive replaced its result or the result  *)
(* is one of those known to get lost (unsaid).                             *)
ClearTrue ==
  reader # 0 /\ Indicator("idle") = "clear" =>
    \A r \in 1 .. reader :
      Failure(r) /\ status[target[r]].run <= r => r \in unsaid
=============================================================================
