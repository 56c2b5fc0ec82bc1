----------------------------- MODULE DiskUnmount -----------------------------
(***************************************************************************)
(* sufur-macos/src/disk_arb.rs: unmount_disk hands DiskArbitration a       *)
(* request, a callback and a pointer to the Sender in its own frame, and   *)
(* blocks on the Receiver.  The daemon, which is not in the repository,    *)
(* unmounts the volumes one by one and may be restarted with requests      *)
(* unanswered.  Its answer runs the callback on a dispatch queue's thread  *)
(* of the caller's process, beside the thread that waits.  Each caller is  *)
(* a process of its own.                                                   *)
(***************************************************************************)
EXTENDS Integers

CONSTANTS Callers, Disks, Volumes,
          MaxMounts   \* bound: how many times a volume is mounted anew

ASSUME UnmountAssumption == MaxMounts \in Nat

VARIABLES vols, mounts,   \* volumes mounted on each disk; mounts so far
          pc, disk,       \* unmount_disk's progress, and the disk it is for
          request,        \* how far the daemon's side of the call and the callback are
          status,         \* the answer: the dissenter's status, "ok" for none
          channel,        \* what the Receiver has been sent
          result

vars == <<vols, mounts, pc, disk, request, status, channel, result>>
call == <<disk, request, status, channel, result>>

Waiting(p) == pc[p] = "recv"

Goto(p, l) == pc' = [pc EXCEPT ![p] = l]

Init ==
  /\ vols \in [Disks -> SUBSET Volumes] /\ mounts = 0
  /\ pc = [p \in Callers |-> "idle"] /\ disk \in [Callers -> Disks]
  /\ request = [p \in Callers |-> "none"] /\ status = [p \in Callers |-> "none"]
  /\ channel = [p \in Callers |-> {}] /\ result = [p \in Callers |-> "none"]

\* The session, the disk or the name cannot be had.
Refuse(p) ==
  /\ pc[p] = "idle"
  /\ Goto(p, "done")
  /\ \E r \in {"INTERNAL", "DEVICE_NOT_FOUND"} : result' = [result EXCEPT ![p] = r]
  /\ UNCHANGED <<vols, mounts, disk, request, status, channel>>

\* disk.unmount with kDADiskUnmountOptionWhole; the caller goes on to recv().
Unmount(p) ==
  /\ pc[p] = "idle"
  /\ Goto(p, "recv")
  /\ request' = [request EXCEPT ![p] = "queued"]
  /\ UNCHANGED <<vols, mounts, disk, status, channel, result>>

Answer(p, s) ==
  /\ request[p] = "queued"
  /\ request' = [request EXCEPT ![p] = "answered"]
  /\ status' = [status EXCEPT ![p] = s]

\* The daemon finds nothing mounted, unmounts a volume, or is refused one.  That it
\* dissents otherwise only when something is mounted is an assumption about the
\* daemon: a stick pulled meanwhile, which the code calls busy as well, is left out.
DaemonNotMounted(p) ==
  /\ vols[disk[p]] = {} /\ Answer(p, "not_mounted")
  /\ UNCHANGED <<vols, mounts, pc, disk, channel, result>>

DaemonUnmount(p, v) ==
  /\ v \in vols[disk[p]]
  /\ vols' = [vols EXCEPT ![disk[p]] = @ \ {v}]
  /\ IF vols[disk[p]] = {v} THEN Answer(p, "ok")
                            ELSE request[p] = "queued" /\ UNCHANGED <<request, status>>
  /\ UNCHANGED <<mounts, pc, disk, channel, result>>

DaemonDissent(p) ==
  /\ vols[disk[p]] # {} /\ Answer(p, "dissent")
  /\ UNCHANGED <<vols, mounts, pc, disk, channel, result>>

\* The daemon goes away with the request; a callback that has begun runs in the
\* caller's process and does not.
DaemonLost(p) ==
  /\ request[p] \in {"queued", "answered"}
  /\ request' = [request EXCEPT ![p] = "lost"]
  /\ UNCHANGED <<vols, mounts, pc, disk, status, channel, result>>

\* Mutant: a null dissenter sends nothing.
MessageOnDissent(s) == IF s = "ok" THEN {} ELSE {s}

\* What unmount_callback sends.
Message(s) == {s}

\* unmount_callback, on the queue's thread.  It follows the context pointer to the
\* Sender in the caller's frame and looks at the dissenter ...
Callback(p) ==
  /\ request[p] = "answered"
  /\ request' = [request EXCEPT ![p] = "called"]
  /\ UNCHANGED <<vols, mounts, pc, disk, status, channel, result>>

\* ... send() makes the message visible to recv() ...
Send(p) ==
  /\ request[p] = "called"
  /\ request' = [request EXCEPT ![p] = "sent"]
  /\ channel' = [channel EXCEPT ![p] = Message(status[p])]
  /\ UNCHANGED <<vols, mounts, pc, disk, status, result>>

\* ... and is done with the channel, to wake the receiver up, only after that.
CallbackReturns(p) ==
  /\ request[p] = "sent"
  /\ request' = [request EXCEPT ![p] = "over"]
  /\ UNCHANGED <<vols, mounts, pc, disk, status, channel, result>>

\* Mutants: the status is handed on; nothing mounted is an error; the
\* Receiver is asked once and not waited for.
OutcomeRaw(s) == s
OutcomeStrict(s) == IF s = "ok" THEN "ok" ELSE "DEVICE_BUSY"
ReadyAlways(p) == TRUE

\* What unmount_disk makes of the status it receives.
Outcome(s) == IF s \in {"ok", "not_mounted"} THEN "ok" ELSE "DEVICE_BUSY"

\* recv() returns when there is a message.  The Sender is in this very frame,
\* so the channel is never disconnected.
Ready(p) == channel[p] # {}

Recv(p) ==
  /\ Waiting(p) /\ Ready(p)
  /\ Goto(p, "done")
  /\ result' = [result EXCEPT ![p] =
       IF channel[p] = {} THEN "INTERNAL" ELSE Outcome(CHOOSE s \in channel[p] : TRUE)]
  /\ channel' = [channel EXCEPT ![p] = {}]
  /\ UNCHANGED <<vols, mounts, disk, request, status>>

\* The desktop mounts a volume.
Mount(d, v) ==
  /\ mounts < MaxMounts /\ v \notin vols[d]
  /\ vols' = [vols EXCEPT ![d] = @ \cup {v}]
  /\ mounts' = mounts + 1
  /\ UNCHANGED <<pc, call>>

Daemon(p) ==
  \/ DaemonNotMounted(p) \/ DaemonDissent(p)
  \/ Callback(p) \/ Send(p) \/ CallbackReturns(p)
  \/ \E v \in Volumes : DaemonUnmount(p, v)

Next ==
  \/ \E p \in Callers : Refuse(p) \/ Unmount(p) \/ Recv(p) \/ Daemon(p) \/ DaemonLost(p)
  \/ \E d \in Disks, v \in Volumes : Mount(d, v)

Spec == Init /\ [][Next]_vars

\* The caller's thread runs, and a daemon that stays alive works its requests off.
FairSpec == Spec /\ \A p \in Callers : WF_vars(Recv(p)) /\ WF_vars(Daemon(p))

-----------------------------------------------------------------------------
\* The variables have their types; a channel holds at most one message.
TypeOK ==
  /\ vols \in [Disks -> SUBSET Volumes] /\ mounts \in 0 .. MaxMounts
  /\ pc \in [Callers -> {"idle", "recv", "done"}] /\ disk \in [Callers -> Disks]
  /\ request \in [Callers -> {"none", "queued", "answered", "called", "sent", "over", "lost"}]
  /\ status \in [Callers -> {"none", "ok", "not_mounted", "dissent"}]
  /\ channel \in [Callers -> SUBSET {"ok", "not_mounted", "dissent"}]
  /\ result \in [Callers -> {"none", "ok", "INTERNAL", "DEVICE_NOT_FOUND", "DEVICE_BUSY"}]

\* A call takes effect at one moment, when the daemon answers it: several callers
\* and the desktop may be at the disk together, and still Ok means that nothing of
\* it was mounted then, and busy that something was.
Phase(p) ==
  IF pc[p] # "recv" THEN pc[p] ELSE IF status[p] = "none" THEN "asked" ELSE "decided"

Promise == INSTANCE Unmounting WITH
  mounted <- [d \in Disks |-> vols[d] # {}],
  phase   <- [p \in Callers |-> Phase(p)],
  answer  <- [p \in Callers |-> CASE status[p] = "none" -> "none"
                                 [] status[p] = "dissent" -> "busy"
                                 [] OTHER -> "ok"]
KeepsPromise == Promise!Spec

\* The callback's context points into the frame of unmount_disk.  From the request
\* until the message is in the channel the frame is there, so the callback finds the
\* Sender and the Receiver alive when it follows the pointer and when it sends.  The
\* tail of send(), from "sent" on, is not covered: recv() may have returned by then,
\* and the frame be gone.
AliveUntilSent ==
  \A p \in Callers : request[p] \in {"queued", "answered", "called"} => Waiting(p)

\* A call returns unless its request is lost.
ReturnsIfAnswered ==
  \A p \in Callers : Waiting(p) ~> (~Waiting(p) \/ request[p] = "lost")

\* What the error "unmount callback never fired" is for: a request nobody answers
\* ends the call too.
NeverFiredIsReported == \A p \in Callers : Waiting(p) ~> ~Waiting(p)
=============================================================================
