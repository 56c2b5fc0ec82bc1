---------------------------- MODULE MCDiskUnmount ----------------------------
(* Two callers on two disks, or on the same, with two volumes each. *)
EXTENDS DiskUnmount
=============================================================================
