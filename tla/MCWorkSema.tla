---------------------------- MODULE MCWorkSema ------------------------------
(* Instances of WorkSema for TLC: see the .cfg files. *)
EXTENDS WorkSema, TLC

CONSTANTS ee, vu
=============================================================================
