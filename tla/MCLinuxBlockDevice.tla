-------------------------- MODULE MCLinuxBlockDevice --------------------------
(* A device of four bytes; ranges inside it, across its end and past it. *)
EXTENDS LinuxBlockDevice

MCRequests == {<<0, 4>>, <<1, 2>>, <<2, 3>>, <<3, 0>>, <<4, 2>>, <<5, 1>>}
=============================================================================
