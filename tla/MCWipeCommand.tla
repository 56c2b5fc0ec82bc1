---------------------------- MODULE MCWipeCommand ----------------------------
(* Two names, two sticks of one model with serial numbers (MCKey) or without  *)
(* (MCSameKey), and a disk.  A stick stands for its own serial number and     *)
(* size, which are compared for equality only.                                *)
EXTENDS WipeCommand, TLC

MCKey     == [s \in Sticks |-> s]
MCModel   == [s \in Sticks |-> IF s \in Fixed THEN "disk" ELSE "model"]
MCSameKey == MCModel
MCSize    == [s \in Sticks |-> s]

\* Processes, names and the two sticks are alike.
MCSymmetry ==
  {f @@ g @@ h : f \in Permutations(Procs), g \in Permutations(Names),
                 h \in Permutations(Sticks \ Fixed)}
=============================================================================
