--------------------------- MODULE MCBlockDeviceIo ----------------------------
(* Three bytes, positions of three bits (so offsets from -4 to 3) and transfers *)
(* of up to two bytes at every position.                                        *)
EXTENDS BlockDeviceIo

MCRequests == U64 \X (0 .. 2)
=============================================================================
