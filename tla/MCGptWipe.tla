------------------------------ MODULE MCGptWipe ------------------------------
(* Sticks of one data sector with every kind of old table, one whose handle *)
(* reports a sector too many, one a sector too few, and one too small.      *)
EXTENDS GptWipe

MCSticks ==
  [size : {6}, reported : {6}, old : {"blank", "mbr", "gpt"}] \cup
  {[size |-> 6, reported |-> 7, old |-> "gpt"],
   [size |-> 7, reported |-> 6, old |-> "gpt"],
   [size |-> 4, reported |-> 4, old |-> "blank"]}

(* A stick whose logical block is two sectors. *)
MCLargeBlocks == {[size |-> 12, reported |-> 12, old |-> "gpt"]}
=============================================================================
