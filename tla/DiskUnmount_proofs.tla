-------------------------- MODULE DiskUnmount_proofs --------------------------
(***************************************************************************)
(* Proofs about unmount_disk: the frame the callback points into is alive  *)
(* until the message is sent, and every call does what Unmounting          *)
(* promises.                                                               *)
(***************************************************************************)
EXTENDS DiskUnmount, TLAPS

\* What a caller's progress, the daemon's side of its call, the answer and the
\* channel know of one another.
Linked(p) ==
  /\ pc[p] = "idle" => request[p] = "none"
  /\ request[p] \in {"queued", "answered", "called", "lost"} => pc[p] = "recv"
  /\ request[p] \in {"none", "queued"} => status[p] = "none"
  /\ request[p] \in {"answered", "called", "sent", "over"} => status[p] # "none"
  /\ channel[p] # {} => /\ pc[p] = "recv" /\ request[p] \in {"sent", "over"}
                        /\ channel[p] = {status[p]}

\* The inductive invariant.
IInv == TypeOK /\ \A p \in Callers : Linked(p)

-----------------------------------------------------------------------------
\* Initially nothing is asked.
LEMMA InitLinked == Init => IInv
  BY UnmountAssumption DEF Init, IInv, TypeOK, Linked

\* The caller's side: a call is refused, sent, or received the answer of.
LEMMA CallerStep ==
  ASSUME IInv, NEW p \in Callers, Refuse(p) \/ Unmount(p) \/ Recv(p)
  PROVE  IInv'
<1>1. CASE Refuse(p)
  BY <1>1 DEF Refuse, Goto, IInv, TypeOK, Linked
<1>2. CASE Unmount(p)
  BY <1>2 DEF Unmount, Goto, IInv, TypeOK, Linked
<1>3. CASE Recv(p)
  <2>1. channel[p] # {} /\ request[p] \in {"sent", "over"} /\ channel[p] = {status[p]}
    BY <1>3 DEF Recv, Ready, IInv, Linked
  <2>2. result' \in [Callers -> {"none", "ok", "INTERNAL", "DEVICE_NOT_FOUND", "DEVICE_BUSY"}]
    BY <1>3 DEF Recv, IInv, TypeOK, Outcome
  <2>3. /\ pc' = [pc EXCEPT ![p] = "done"] /\ channel' = [channel EXCEPT ![p] = {}]
        /\ UNCHANGED <<vols, mounts, disk, request, status>>
    BY <1>3 DEF Recv, Goto
  <2> QED
    BY <2>1, <2>2, <2>3 DEF IInv, TypeOK, Linked
<1> QED
  BY <1>1, <1>2, <1>3

\* The daemon's side: it answers, takes a volume or is lost; the callback runs.
LEMMA DaemonStep ==
  ASSUME IInv, NEW p \in Callers, Daemon(p) \/ DaemonLost(p)
  PROVE  IInv'
<1>1. CASE DaemonNotMounted(p)
  BY <1>1 DEF DaemonNotMounted, Answer, IInv, TypeOK, Linked
<1>2. CASE DaemonDissent(p)
  BY <1>2 DEF DaemonDissent, Answer, IInv, TypeOK, Linked
<1>3. CASE Callback(p) \/ Send(p) \/ CallbackReturns(p)
  <2>1. CASE Callback(p)
    BY <2>1 DEF Callback, IInv, TypeOK, Linked
  <2>2. CASE Send(p)
    BY <2>2 DEF Send, Message, IInv, TypeOK, Linked
  <2>3. CASE CallbackReturns(p)
    BY <2>3 DEF CallbackReturns, IInv, TypeOK, Linked
  <2> QED
    BY <1>3, <2>1, <2>2, <2>3
<1>4. ASSUME NEW v \in Volumes, DaemonUnmount(p, v)
      PROVE  IInv'
  <2>1. vols' \in [Disks -> SUBSET Volumes]
    BY <1>4 DEF DaemonUnmount, IInv, TypeOK
  <2>2. CASE vols[disk[p]] = {v}
    BY <1>4, <2>1, <2>2 DEF DaemonUnmount, Answer, IInv, TypeOK, Linked
  <2>3. CASE vols[disk[p]] # {v}
    BY <1>4, <2>1, <2>3 DEF DaemonUnmount, IInv, TypeOK, Linked
  <2> QED
    BY <2>2, <2>3
<1>5. CASE DaemonLost(p)
  BY <1>5 DEF DaemonLost, IInv, TypeOK, Linked
<1> QED
  BY <1>1, <1>2, <1>3, <1>4, <1>5 DEF Daemon

\* Every step keeps IInv.
LEMMA NextLinked == IInv /\ [Next]_vars => IInv'
<1> SUFFICES ASSUME IInv, [Next]_vars PROVE IInv'
  OBVIOUS
<1>1. ASSUME NEW p \in Callers, Refuse(p) \/ Unmount(p) \/ Recv(p) \/ Daemon(p) \/ DaemonLost(p)
      PROVE  IInv'
  BY <1>1, CallerStep, DaemonStep
<1>2. ASSUME NEW d \in Disks, NEW v \in Volumes, Mount(d, v)
      PROVE  IInv'
  BY <1>2, UnmountAssumption DEF Mount, call, IInv, TypeOK, Linked
<1>3. CASE UNCHANGED vars
  BY <1>3 DEF vars, IInv, TypeOK, Linked
<1> QED
  BY <1>1, <1>2, <1>3 DEF Next

\* The channel and the daemon never lose track of a call, and the variables keep
\* their types.
THEOREM CallsLinked == Spec => []IInv
<1> QED
  BY InitLinked, NextLinked, PTL DEF Spec

\* Every variable has its type.
THEOREM TypesKept == Spec => []TypeOK
<1>1. IInv => TypeOK
  BY DEF IInv
<1> QED
  BY <1>1, CallsLinked, PTL

\* Until the callback has sent its message unmount_disk has not returned: the Sender
\* it is pointed to and the Receiver, both in that frame, are alive when it uses them.
THEOREM CallbackSafe == Spec => []AliveUntilSent
<1>1. IInv => AliveUntilSent
  BY DEF IInv, Linked, AliveUntilSent, Waiting
<1> QED
  BY <1>1, CallsLinked, PTL

-----------------------------------------------------------------------------
\* What the abstract specification sees of the state.
Mounted == [d \in Disks |-> vols[d] # {}]
Phases  == [p \in Callers |-> Phase(p)]
Answers == [p \in Callers |-> CASE status[p] = "none" -> "none"
                                [] status[p] = "dissent" -> "busy"
                                [] OTHER -> "ok"]

\* A step that leaves the mounted disks, the progress and the answers of all calls
\* alone, and their results, is a stutter of the abstract specification.
LEMMA Stutter ==
  ASSUME UNCHANGED <<Mounted, disk, Phases, Answers, result>>
  PROVE  UNCHANGED Promise!unmountingVars
  BY DEF Promise!unmountingVars, Mounted, Phases, Answers

\* The caller's steps are the abstract caller's.
LEMMA CallerRefines ==
  ASSUME IInv, NEW p \in Callers
  PROVE  /\ Refuse(p) => Promise!GiveUp(p)
         /\ Unmount(p) => Promise!Ask(p)
         /\ Recv(p) => Promise!Return(p)
<1>1. ASSUME Refuse(p) PROVE Promise!GiveUp(p)
  BY <1>1 DEF Refuse, Goto, IInv, TypeOK, Linked, Phase, Promise!GiveUp, Promise!To
<1>2. ASSUME Unmount(p) PROVE Promise!Ask(p)
  BY <1>2 DEF Unmount, Goto, IInv, TypeOK, Linked, Phase, Promise!Ask, Promise!To
<1>3. ASSUME Recv(p) PROVE Promise!Return(p)
  <2>1. channel[p] = {status[p]} /\ status[p] # "none" /\ pc[p] = "recv"
    BY <1>3 DEF Recv, Ready, IInv, Linked
  <2>2. (CHOOSE s \in channel[p] : TRUE) = status[p]
    BY <2>1
  <2>3. /\ pc' = [pc EXCEPT ![p] = "done"]
        /\ result' = [result EXCEPT ![p] = Outcome(status[p])]
        /\ UNCHANGED <<vols, disk, status>>
    BY <1>3, <2>1, <2>2 DEF Recv, Goto
  <2>4. Outcome(status[p]) = IF status[p] = "dissent" THEN "DEVICE_BUSY" ELSE "ok"
    BY <2>1 DEF Outcome, IInv, TypeOK
  <2> QED
    BY <2>1, <2>3, <2>4 DEF IInv, TypeOK, Phase, Promise!Return, Promise!To
<1> QED
  BY <1>1, <1>2, <1>3

\* An answer is the moment an asked call is decided.
LEMMA AnswerDecides ==
  ASSUME IInv, NEW p \in Callers, NEW s \in {"ok", "not_mounted", "dissent"},
         Answer(p, s), UNCHANGED pc
  PROVE  Promise!Decide(p, IF s = "dissent" THEN "busy" ELSE "ok")
<1>1. Phases[p] = "asked" /\ Phases' = [Phases EXCEPT ![p] = "decided"]
  BY DEF Answer, IInv, TypeOK, Linked, Phase, Phases
<1>2. Answers' = [Answers EXCEPT ![p] = IF s = "dissent" THEN "busy" ELSE "ok"]
  BY DEF Answer, IInv, TypeOK, Answers
<1> QED
  BY <1>1, <1>2 DEF Promise!Decide, Promise!To, Phases, Answers

\* The daemon's answer decides the call; what else it does, the promise does not see.
LEMMA DaemonRefines ==
  ASSUME IInv, NEW p \in Callers, Daemon(p) \/ DaemonLost(p)
  PROVE  Promise!Next \/ UNCHANGED Promise!unmountingVars
<1>1. CASE DaemonNotMounted(p)
  <2>1. Promise!Decide(p, "ok")
    BY <1>1, AnswerDecides DEF DaemonNotMounted
  <2>2. UNCHANGED <<vols, disk, result>> /\ vols[disk[p]] = {}
    BY <1>1 DEF DaemonNotMounted
  <2>3. Mounted' = [Mounted EXCEPT ![disk[p]] = FALSE]
    BY <2>2 DEF Mounted
  <2> QED
    BY <2>1, <2>2, <2>3 DEF Promise!Next, Promise!Serve, Mounted
<1>2. CASE DaemonDissent(p)
  <2>1. Promise!Decide(p, "busy")
    BY <1>2, AnswerDecides DEF DaemonDissent
  <2>2. UNCHANGED <<vols, disk, result>> /\ vols[disk[p]] # {} /\ disk[p] \in Disks
    BY <1>2 DEF DaemonDissent, IInv, TypeOK
  <2>3. Promise!Dissent(p)
    BY <2>1, <2>2 DEF Promise!Dissent
  <2> QED
    BY <2>3 DEF Promise!Next
<1>3. CASE Callback(p) \/ Send(p) \/ CallbackReturns(p)
  <2>1. UNCHANGED <<vols, pc, disk, status, result>>
    BY <1>3 DEF Callback, Send, CallbackReturns
  <2> QED
    BY <2>1, Stutter DEF Phase, Mounted, Phases, Answers
<1>4. ASSUME NEW v \in Volumes, DaemonUnmount(p, v)
      PROVE  Promise!Next \/ UNCHANGED Promise!unmountingVars
  <2>1. CASE vols[disk[p]] = {v}
    <3>1. Promise!Decide(p, "ok")
      BY <1>4, <2>1, AnswerDecides DEF DaemonUnmount
    <3>2. UNCHANGED <<disk, result>> /\ vols' = [vols EXCEPT ![disk[p]] = {}]
      BY <1>4, <2>1 DEF DaemonUnmount
    <3>3. Mounted' = [Mounted EXCEPT ![disk[p]] = FALSE]
      BY <3>2 DEF Mounted, IInv, TypeOK
    <3> QED
      BY <3>1, <3>2, <3>3 DEF Promise!Next, Promise!Serve, Mounted
  <2>2. CASE vols[disk[p]] # {v}
    <3>1. UNCHANGED <<disk, pc, status, result>>
      BY <1>4, <2>2 DEF DaemonUnmount
    <3>2. ASSUME NEW d \in Disks PROVE (vols'[d] # {}) = (vols[d] # {})
      BY <1>4, <2>2 DEF DaemonUnmount, IInv, TypeOK
    <3> QED
      BY <3>1, <3>2, Stutter DEF Phase, Mounted, Phases, Answers
  <2> QED
    BY <2>1, <2>2
<1>5. CASE DaemonLost(p)
  BY <1>5, Stutter DEF DaemonLost, IInv, TypeOK, Phase, Mounted, Phases, Answers
<1> QED
  BY <1>1, <1>2, <1>3, <1>4, <1>5 DEF Daemon

\* Every step of the calls, the daemon and the desktop is one of the promise.
LEMMA StepRefines == IInv /\ [Next]_vars => [Promise!Next]_Promise!unmountingVars
<1> SUFFICES ASSUME IInv, [Next]_vars
             PROVE  Promise!Next \/ UNCHANGED Promise!unmountingVars
  OBVIOUS
<1>1. ASSUME NEW p \in Callers, Refuse(p) \/ Unmount(p) \/ Recv(p)
      PROVE  Promise!Next
  BY <1>1, CallerRefines DEF Promise!Next
<1>2. ASSUME NEW p \in Callers, Daemon(p) \/ DaemonLost(p)
      PROVE  Promise!Next \/ UNCHANGED Promise!unmountingVars
  BY <1>2, DaemonRefines
<1>3. ASSUME NEW d \in Disks, NEW v \in Volumes, Mount(d, v)
      PROVE  Promise!Next
  <2>1. Promise!Mount(d)
    BY <1>3 DEF Mount, call, IInv, TypeOK, Phase, Promise!Mount
  <2> QED
    BY <2>1 DEF Promise!Next
<1>4. CASE UNCHANGED vars
  BY <1>4, Stutter DEF vars, Phase, Mounted, Phases, Answers
<1> QED
  BY <1>1, <1>2, <1>3, <1>4 DEF Next

\* unmount_disk keeps its promise, whoever else is at the disk: Ok means that at
\* one moment of the call nothing of the disk was mounted, and busy that something
\* was.
THEOREM PromiseKept == Spec => KeepsPromise
<1>1. Init => Promise!Init
  BY DEF Init, Phase, Promise!Init
<1> QED
  BY <1>1, StepRefines, CallsLinked, PTL DEF Spec, KeepsPromise, Promise!Spec
=============================================================================
