------------------------------- MODULE Chain --------------------------------
(***************************************************************************)
(* What a backup tool that sends increments promises of its drives, with   *)
(* nothing of how: each copy on a drive is chained to origin (both sides   *)
(* keep a snapshot the next increment can start from) or it is not, one    *)
(* drive is worked on at a time, and its run never cuts a chain.  Engine   *)
(* implements this specification (property Chained of Engine).             *)
(***************************************************************************)
CONSTANTS
  Drives,   \* the backup drives
  DS,       \* the datasets of origin
  NoDrive   \* not a drive

VARIABLES
  chain,    \* per drive and dataset: "none" (no copy), "chained" or "cut"
  busy      \* the drive a run works on, or NoDrive

vars == <<chain, busy>>

Links == {"none", "chained", "cut"}

Init ==
  /\ chain = [d \in Drives |-> [ds \in DS |-> "none"]]
  /\ busy = NoDrive

(* A run begins, and ends or dies.                                         *)
Begin == busy = NoDrive /\ busy' \in Drives /\ UNCHANGED chain
End == busy # NoDrive /\ busy' = NoDrive /\ UNCHANGED chain

(* What a run may do to a copy: chain it, or give it up with the user's    *)
(* consent; it never leaves one it cannot continue.                        *)
MayBecome(from, to) == to = from \/ to \in {"none", "chained"}

(* The run works on its drive's copies and on no other's.                  *)
Work ==
  /\ busy # NoDrive
  /\ \E links \in [DS -> Links] :
       /\ \A ds \in DS : MayBecome(chain[busy][ds], links[ds])
       /\ chain' = [chain EXCEPT ![busy] = links]
  /\ UNCHANGED busy

(* Between runs the user removes snapshots of one copy, or of origin's     *)
(* left for its drive.                                                     *)
Thin ==
  /\ busy = NoDrive
  /\ \E d \in Drives, ds \in DS :
       chain[d][ds] = "chained" /\ chain' = [chain EXCEPT ![d][ds] = "cut"]
  /\ UNCHANGED busy

Next == Begin \/ Work \/ End \/ Thin

Spec == Init /\ [][Next]_vars
=============================================================================
