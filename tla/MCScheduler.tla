---------------------------- MODULE MCScheduler ----------------------------
(***************************************************************************)
(* Instances of RunScheduler for TLC.  The .cfg files give its constants    *)
(* model values.  Two workers that may both die are interchangeable, so     *)
(* safety runs may permute them; no liveness run uses the symmetry.         *)
(***************************************************************************)
EXTENDS RunScheduler, TLC

ProcSymmetry == Permutations(Proc)
=============================================================================
