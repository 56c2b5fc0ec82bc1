------------------------------ MODULE ByteDevice ------------------------------
(***************************************************************************)
(* What partition.rs may assume of a BlockDevice, whatever the platform: a *)
(* request touches no byte outside its range; a write lands as a growing   *)
(* prefix of the buffer and succeeds only when all of it is on the device; *)
(* a read that succeeds returns exactly the bytes that exist, and says how *)
(* many.  A request may fail at any moment.                                *)
(***************************************************************************)
EXTENDS BlockDevice

Store ==
  /\ Serving("write")
  /\ \E k \in 0 .. req.len : disk' = Overlay(req.off, req.off + k)
  /\ UNCHANGED <<req, buf, res>>

StoreOk ==
  /\ Serving("write")
  /\ End <= Cap \/ req.len = 0
  /\ disk' = Overlay(req.off, End)
  /\ res' = Ok(req.len)
  /\ UNCHANGED <<req, buf>>

Fetch ==
  /\ Serving("read")
  /\ buf' \in [0 .. req.len - 1 -> Byte]
  /\ UNCHANGED <<disk, req, res>>

FetchOk ==
  /\ Serving("read")
  /\ buf' \in [0 .. req.len - 1 -> Byte]
  /\ \A j \in 0 .. Available - 1 : buf'[j] = disk[req.off + j]
  /\ res' = Ok(Available)
  /\ UNCHANGED <<disk, req>>

Fail ==
  /\ res.st = "pending"
  /\ \E e \in Failures : res' = Err(e)
  /\ IF req.op = "write"
       THEN \E k \in 0 .. req.len : disk' = Overlay(req.off, req.off + k)
       ELSE UNCHANGED disk
  /\ UNCHANGED <<req, buf>>

Next ==
  \/ \E op \in {"read", "write"}, r \in Requests : Submit(op, r[1], r[2])
  \/ Store \/ StoreOk \/ Fetch \/ FetchOk \/ Fail

Spec == Init /\ [][Next]_ioVars
=============================================================================
