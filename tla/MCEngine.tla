------------------------------ MODULE MCEngine ------------------------------
(***************************************************************************)
(* Engine for TLC: at most two drives in rotation, one dataset of rpool    *)
(* and one of bpool.                                                       *)
(***************************************************************************)
EXTENDS Engine, TLC

CONSTANTS r, b, d1, d2

(* The drives are interchangeable: no action treats one of them apart.     *)
Rotation == Permutations(Drives)

(* Every copy on a drive.                                                  *)
Copies == Drives \X DS
=============================================================================
