------------------------------ MODULE Unmounting ------------------------------
(***************************************************************************)
(* What unmounting a whole disk promises its callers: each call is decided *)
(* at one moment between its start and its return.  It returns Ok if it    *)
(* was decided by leaving nothing of the disk mounted, and "busy" only if  *)
(* something was mounted at that moment.  Before and after, others mount   *)
(* and unmount as they like.                                               *)
(***************************************************************************)
CONSTANTS Callers, Disks

VARIABLES mounted,  \* mounted[d]: a volume of d is
          disk,     \* the disk each call is about
          phase,    \* "idle", "asked", "decided", "done"
          answer,   \* "none", "ok", "busy"
          result

unmountingVars == <<mounted, disk, phase, answer, result>>

Init ==
  /\ mounted \in [Disks -> BOOLEAN] /\ disk \in [Callers -> Disks]
  /\ phase = [p \in Callers |-> "idle"] /\ answer = [p \in Callers |-> "none"]
  /\ result = [p \in Callers |-> "none"]

To(p, from, to) == phase[p] = from /\ phase' = [phase EXCEPT ![p] = to]

Ask(p) == To(p, "idle", "asked") /\ UNCHANGED <<mounted, disk, answer, result>>

GiveUp(p) ==
  /\ To(p, "idle", "done")
  /\ \E r \in {"INTERNAL", "DEVICE_NOT_FOUND"} : result' = [result EXCEPT ![p] = r]
  /\ UNCHANGED <<mounted, disk, answer>>

Decide(p, a) == To(p, "asked", "decided") /\ answer' = [answer EXCEPT ![p] = a]

Serve(p) ==
  /\ Decide(p, "ok")
  /\ mounted' = [mounted EXCEPT ![disk[p]] = FALSE]
  /\ UNCHANGED <<disk, result>>

Dissent(p) ==
  /\ mounted[disk[p]] /\ Decide(p, "busy")
  /\ UNCHANGED <<mounted, disk, result>>

Return(p) ==
  /\ To(p, "decided", "done")
  /\ result' = [result EXCEPT ![p] = IF answer[p] = "ok" THEN "ok" ELSE "DEVICE_BUSY"]
  /\ UNCHANGED <<mounted, disk, answer>>

Mount(d) ==
  /\ mounted' = [mounted EXCEPT ![d] = TRUE]
  /\ UNCHANGED <<disk, phase, answer, result>>

Next ==
  \/ \E p \in Callers : Ask(p) \/ GiveUp(p) \/ Serve(p) \/ Dissent(p) \/ Return(p)
  \/ \E d \in Disks : Mount(d)

Spec == Init /\ [][Next]_unmountingVars
=============================================================================
