-------------------------- MODULE MCMacosBlockDevice --------------------------
(* Two blocks of three bytes; ranges that start and end anywhere in them, and *)
(* ranges that reach or start past the end of the device.                     *)
EXTENDS MacosBlockDevice

MCRequests == {<<0, 3>>, <<0, 4>>, <<0, 6>>, <<1, 1>>, <<1, 5>>, <<2, 2>>,
               <<3, 3>>, <<4, 0>>, <<5, 2>>, <<6, 3>>, <<7, 1>>}
=============================================================================
