------------------------------ MODULE MCApplyJob ------------------------------
(* Every job file, three runs (a dry run, a broken run and another) and two  *)
(* changes of the file between or during them.                               *)
EXTENDS ApplyJob
=============================================================================
