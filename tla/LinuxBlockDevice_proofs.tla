----------------------- MODULE LinuxBlockDevice_proofs -----------------------
(***************************************************************************)
(* For every device size and every request, whatever the system calls      *)
(* move: the loops of the Linux backend keep IInv and implement            *)
(* ByteDevice.                                                             *)
(***************************************************************************)
EXTENDS LinuxBlockDevice, TLAPS

\* The numbers of a request in progress are numbers.
LEMMA Naturals ==
  ASSUME TypeOK
  PROVE  Cap \in Nat /\ req.off \in Nat /\ req.len \in Nat /\ total \in Nat /\ total <= req.len
BY DeviceAssumption DEF TypeOK, RequestOK

\* A write into the disk leaves a disk.
LEMMA OverlayType ==
  ASSUME TypeOK, NEW lo \in Int, NEW hi \in Int
  PROVE  Overlay(lo, hi) \in [Addr -> Byte]
BY DeviceAssumption DEF TypeOK, RequestOK, Overlay, Addr, End

\* A copy into the buffer leaves a buffer.
LEMMA FilledType ==
  ASSUME TypeOK, NEW lo \in Int, NEW hi \in Int
  PROVE  Filled(lo, hi) \in [0 .. req.len - 1 -> Byte]
BY DeviceAssumption DEF TypeOK, RequestOK, Filled, Addr

-----------------------------------------------------------------------------
\* IInv holds before the first request.
LEMMA InitSafe == LinuxInit => IInv
<1> SUFFICES ASSUME LinuxInit PROVE IInv
  OBVIOUS
<1>1. RequestOK
  BY DeviceAssumption DEF LinuxInit, Init, RequestOK, Ok, Addr
<1>2. seeked \in BOOLEAN
  BY DEF LinuxInit
<1> QED
  BY <1>1, <1>2 DEF LinuxInit, Init, IInv, TypeOK, PrefixMoved, Ok

\* A new request has moved nothing.
LEMMA CallSafe ==
  ASSUME IInv, NEW op \in {"read", "write"}, NEW r \in Requests, Call(op, r[1], r[2])
  PROVE  IInv'
<1>1. r[1] \in Nat /\ r[2] \in Nat
  BY DeviceAssumption
<1>2. /\ req' = [op |-> op, off |-> r[1], len |-> r[2]]
      /\ res' = [st |-> "pending", n |-> 0]
      /\ total' = 0 /\ seeked' = FALSE /\ disk' = disk
      /\ buf' \in [0 .. r[2] - 1 -> Byte]
  BY <1>1, DeviceAssumption DEF Call, Submit, Pending
<1>3. RequestOK'
  BY <1>1, <1>2 DEF IInv, TypeOK, RequestOK
<1>4. seeked' \in BOOLEAN
  BY <1>2
<1> QED
  BY <1>1, <1>2, <1>3, <1>4 DEF IInv, TypeOK, PrefixMoved

\* The bytes a read adds to the prefix are the device's.
LEMMA MoreReadSafe ==
  ASSUME IInv, NEW n \in 1 .. req.len, MoreRead(n)
  PROVE  IInv'
<1>1. /\ UNCHANGED <<disk, req, res, seeked>>
      /\ seeked /\ n \in 1 .. req.len - total /\ req.off + total + n <= Cap
      /\ total' = total + n
      /\ buf' = Filled(req.off + total, req.off + total + n)
  BY DEF MoreRead, Moved
<1>2. Cap \in Nat /\ req.off \in Nat /\ req.len \in Nat /\ total \in Nat
  BY Naturals DEF IInv
<1>3. TypeOK'
  <2>1. buf' \in [0 .. req.len - 1 -> Byte]
    <3>1. TypeOK /\ req.off + total \in Int /\ req.off + total + n \in Int
      BY <1>2 DEF IInv
    <3> QED
      BY <1>1, <3>1, FilledType
  <2>2. total' \in 0 .. req.len
    BY <1>1, <1>2
  <2> QED
    BY <1>1, <2>1, <2>2 DEF IInv, TypeOK, RequestOK
<1>4. ASSUME res.st = "pending", NEW j \in 0 .. total + n - 1
      PROVE  disk[req.off + j] = buf'[j]
  <2>1. j \in 0 .. req.len - 1 /\ req.off + j < Cap
    BY <1>1, <1>2
  <2>2. buf'[j] = IF req.off + total <= req.off + j THEN disk[req.off + j] ELSE buf[j]
    <3>1. req.off + j < req.off + total + n
      BY <1>1, <1>2
    <3> QED
      BY <1>1, <2>1, <3>1 DEF Filled
  <2>3. CASE j < total
    <3>1. j \in 0 .. total - 1
      BY <1>2, <2>1, <2>3
    <3>2. disk[req.off + j] = buf[j]
      BY <1>4, <3>1 DEF IInv, PrefixMoved
    <3> QED
      BY <1>2, <2>1, <2>2, <2>3, <3>2
  <2>4. CASE j >= total
    BY <1>2, <2>1, <2>2, <2>4
  <2> QED
    BY <1>2, <2>1, <2>3, <2>4
<1>5. req'.off + total' <= Cap
  BY <1>1, <1>2
<1>6. seeked'
  BY <1>1
<1>7. res'.st = "pending" => \A j \in 0 .. total' - 1 : disk'[req'.off + j] = buf'[j]
  <2>1. disk' = disk /\ req' = req /\ res' = res /\ total' = total + n
    BY <1>1
  <2> QED
    BY <1>2, <1>4, <2>1
<1> QED
  BY <1>3, <1>5, <1>6, <1>7, Zenon DEF IInv, PrefixMoved

\* The bytes a write adds to the prefix are the caller's.
LEMMA MoreWriteSafe ==
  ASSUME IInv, NEW n \in 1 .. req.len, MoreWrite(n)
  PROVE  IInv'
<1>1. /\ UNCHANGED <<buf, req, res, seeked>>
      /\ seeked /\ n \in 1 .. req.len - total /\ req.off + total + n <= Cap
      /\ total' = total + n
      /\ disk' = Overlay(req.off + total, req.off + total + n)
  BY DEF MoreWrite, Moved
<1>2. Cap \in Nat /\ req.off \in Nat /\ req.len \in Nat /\ total \in Nat
  BY Naturals DEF IInv
<1>3. TypeOK'
  <2>1. disk' \in [Addr -> Byte]
    BY <1>1, <1>2, OverlayType DEF IInv
  <2> QED
    BY <1>1, <1>2, <2>1 DEF IInv, TypeOK, RequestOK
<1>4. ASSUME res.st = "pending", NEW j \in 0 .. total + n - 1
      PROVE  disk'[req.off + j] = buf[j]
  <2>1. /\ req.off + j \in Addr /\ req.off <= req.off + j /\ req.off + j < End
        /\ req.off + j < req.off + total + n /\ (req.off + j) - req.off = j
    BY <1>1, <1>2 DEF Addr, End
  <2>2. disk'[req.off + j] = IF req.off + total <= req.off + j THEN buf[j] ELSE disk[req.off + j]
    BY <1>1, <2>1 DEF Overlay
  <2>3. CASE j < total
    <3>1. j \in 0 .. total - 1
      BY <1>2, <2>3
    <3>2. disk[req.off + j] = buf[j]
      BY <1>4, <3>1 DEF IInv, PrefixMoved
    <3> QED
      BY <1>2, <2>2, <2>3, <3>2
  <2>4. CASE j >= total
    BY <1>2, <2>2, <2>4
  <2> QED
    BY <1>2, <2>3, <2>4
<1>5. req'.off + total' <= Cap
  BY <1>1, <1>2
<1>6. seeked'
  BY <1>1
<1>7. res'.st = "pending" => \A j \in 0 .. total' - 1 : disk'[req'.off + j] = buf'[j]
  <2>1. buf' = buf /\ req' = req /\ res' = res /\ total' = total + n
    BY <1>1
  <2> QED
    BY <1>2, <1>4, <2>1
<1> QED
  BY <1>3, <1>5, <1>6, <1>7, Zenon DEF IInv, PrefixMoved

\* Every step keeps IInv.
LEMMA NextSafe == IInv /\ [Next]_vars => IInv'
<1> SUFFICES ASSUME IInv, [Next]_vars PROVE IInv'
  OBVIOUS
<1>1. ASSUME NEW op \in {"read", "write"}, NEW r \in Requests, Call(op, r[1], r[2])
      PROVE  IInv'
  BY <1>1, CallSafe
<1>2. CASE SeekTo
  BY <1>2, Naturals DEF SeekTo, IInv, TypeOK, RequestOK, PrefixMoved
<1>3. ASSUME NEW n \in 1 .. req.len, MoreRead(n) PROVE IInv'
  BY <1>3, MoreReadSafe
<1>4. ASSUME NEW n \in 1 .. req.len, MoreWrite(n) PROVE IInv'
  BY <1>4, MoreWriteSafe
<1>5. CASE Return
  BY <1>5, Naturals DEF Return, Ok, IInv, TypeOK, RequestOK, PrefixMoved
<1>6. CASE IoError
  BY <1>6 DEF IoError, Err, Failures, IInv, TypeOK, RequestOK, PrefixMoved
<1>7. CASE UNCHANGED vars
  BY <1>7 DEF vars, IInv, TypeOK, RequestOK, PrefixMoved
<1> QED
  BY <1>1, <1>2, <1>3, <1>4, <1>5, <1>6, <1>7 DEF Next, Serve

\* However few bytes a system call moves, the loops have moved exactly the bytes
\* they count, from the start of the request and never past the device's end.
THEOREM LoopsCorrect == Spec => []IInv
BY InitSafe, NextSafe, PTL DEF Spec

\* Every request, buffer, position and result the backend can reach is of its type.
THEOREM TypesKept == Spec => []TypeOK
<1>1. IInv => TypeOK
  BY DEF IInv
<1> QED
  BY <1>1, LoopsCorrect, PTL

-----------------------------------------------------------------------------
\* What a write system call adds makes one longer prefix of the caller's buffer.
LEMMA MoreWriteIsStore ==
  ASSUME IInv, NEW n \in 1 .. req.len, MoreWrite(n)
  PROVE  Contract!Store
<1>1. /\ UNCHANGED <<buf, req, res>> /\ Serving("write")
      /\ n \in 1 .. req.len - total /\ req.off + total + n <= Cap
      /\ disk' = Overlay(req.off + total, req.off + total + n)
  BY DEF MoreWrite, Moved
<1>2. Cap \in Nat /\ req.off \in Nat /\ req.len \in Nat /\ total \in Nat
  BY Naturals DEF IInv
<1> DEFINE k == total + n
<1>3. k \in 0 .. req.len
  BY <1>1, <1>2
<1>4. disk' = Contract!Overlay(req.off, req.off + k)
  <2>1. ASSUME NEW i \in Addr
        PROVE  (IF req.off + total <= i /\ i < req.off + total + n /\ req.off <= i /\ i < End
                THEN buf[i - req.off] ELSE disk[i])
             = (IF req.off <= i /\ i < req.off + k /\ req.off <= i /\ i < End
                THEN buf[i - req.off] ELSE disk[i])
    <3>1. i \in Nat
      BY <1>2 DEF Addr
    <3>2. CASE req.off <= i /\ i < req.off + total
      <4>1. i - req.off \in 0 .. total - 1 /\ req.off + (i - req.off) = i
        BY <1>2, <3>1, <3>2
      <4>2. disk[req.off + (i - req.off)] = buf[i - req.off]
        BY <1>1, <4>1 DEF IInv, PrefixMoved, Serving
      <4> QED
        BY <1>2, <3>1, <3>2, <4>1, <4>2
    <3>3. CASE ~(req.off <= i /\ i < req.off + total)
      BY <1>1, <1>2, <3>1, <3>3
    <3> QED
      BY <3>2, <3>3
  <2> QED
    BY <1>1, <2>1 DEF Overlay, Contract!Overlay, Contract!Addr, Contract!End, Addr, End
<1> QED
  BY <1>1, <1>3, <1>4 DEF Contract!Store, Contract!Serving, Serving

\* An empty store changes nothing.
LEMMA NothingStored ==
  ASSUME IInv
  PROVE  disk = Contract!Overlay(req.off, req.off + 0)
<1>1. disk \in [Addr -> Byte] /\ req.off \in Nat
  BY DEF IInv, TypeOK, RequestOK
<1>2. \A i \in Addr : i \in Int
  BY Naturals DEF IInv, Addr
<1> QED
  BY <1>1, <1>2 DEF Contract!Overlay, Contract!Addr, Contract!End, Addr

\* What the calls return is what the contract says they return.
LEMMA ReturnRefines ==
  ASSUME IInv, Return
  PROVE  Contract!StoreOk \/ Contract!FetchOk
<1>1. /\ UNCHANGED <<disk, req, buf>> /\ res.st = "pending"
      /\ res' = [st |-> "ok", n |-> total] /\ Finished
  BY DEF Return, Ok
<1>2. /\ Cap \in Nat /\ req.off \in Nat /\ req.len \in Nat
      /\ total \in Nat /\ total <= req.len
  BY Naturals DEF IInv
<1>3. /\ req.off + total <= Cap \/ total = 0
      /\ \A j \in 0 .. total - 1 : disk[req.off + j] = buf[j]
  BY <1>1 DEF IInv, PrefixMoved
<1>4. CASE req.op = "write"
  <2>1. total = req.len
    BY <1>1, <1>4 DEF Finished
  <2>2. ASSUME NEW i \in Addr, req.off <= i, i < req.off + req.len
        PROVE  disk[i] = buf[i - req.off]
    <3>1. i - req.off \in 0 .. total - 1 /\ req.off + (i - req.off) = i
      BY <1>2, <2>1, <2>2 DEF Addr
    <3> QED
      BY <1>3, <3>1
  <2>3. disk = Contract!Overlay(req.off, Contract!End)
    BY <2>2 DEF Contract!Overlay, Contract!Addr, Contract!End, Addr, IInv, TypeOK, RequestOK
  <2>4. Contract!End <= Cap \/ req.len = 0
    BY <1>2, <1>3, <2>1 DEF Contract!End
  <2> QED
    BY <1>1, <1>4, <2>1, <2>3, <2>4 DEF Contract!StoreOk, Contract!Serving, Contract!Ok
<1>5. CASE req.op = "read"
  <2>1. total = Contract!Available
    BY <1>1, <1>2, <1>3, <1>5
       DEF Finished, Contract!Available, Contract!Smaller, Contract!Larger
  <2>2. buf \in [0 .. req.len - 1 -> Byte]
    BY DEF IInv, TypeOK, RequestOK
  <2> QED
    BY <1>1, <1>3, <1>5, <2>1, <2>2 DEF Contract!FetchOk, Contract!Serving, Contract!Ok
<1> QED
  BY <1>4, <1>5 DEF IInv, TypeOK, RequestOK

\* Every step of the backend is a step of the contract, or leaves its state alone.
LEMMA StepRefines == IInv /\ [Next]_vars => [Contract!Next]_(Contract!ioVars)
<1> SUFFICES ASSUME IInv, [Next]_vars PROVE [Contract!Next]_(Contract!ioVars)
  OBVIOUS
<1>1. ASSUME NEW op \in {"read", "write"}, NEW r \in Requests, Call(op, r[1], r[2])
      PROVE  Contract!Next
  BY <1>1 DEF Call, Submit, Pending, Contract!Next, Contract!Submit, Contract!Pending
<1>2. CASE SeekTo
  BY <1>2 DEF SeekTo, Contract!ioVars
<1>3. ASSUME NEW n \in 1 .. req.len, MoreRead(n) PROVE Contract!Next
  <2>1. TypeOK /\ req.off + total \in Int /\ req.off + total + n \in Int
    BY <1>3, Naturals DEF IInv
  <2>2. buf' \in [0 .. req.len - 1 -> Byte]
    BY <1>3, <2>1, FilledType DEF MoreRead
  <2> QED
    BY <1>3, <2>2
       DEF MoreRead, Moved, Serving, Contract!Next, Contract!Fetch, Contract!Serving
<1>4. ASSUME NEW n \in 1 .. req.len, MoreWrite(n) PROVE Contract!Next
  BY <1>4, MoreWriteIsStore DEF Contract!Next
<1>5. CASE Return
  BY <1>5, ReturnRefines DEF Contract!Next
<1>6. CASE IoError
  <2>1. 0 \in 0 .. req.len
    BY Naturals DEF IInv
  <2>2. \E k \in 0 .. req.len : disk' = Contract!Overlay(req.off, req.off + k)
    BY <1>6, <2>1, NothingStored DEF IoError
  <2> QED
    BY <1>6, <2>2
       DEF IoError, Err, Contract!Next, Contract!Fail, Contract!Failures, Contract!Err
<1>7. CASE UNCHANGED vars
  BY <1>7 DEF vars, Contract!ioVars
<1> QED
  BY <1>1, <1>2, <1>3, <1>4, <1>5, <1>6, <1>7 DEF Next, Serve

\* The Linux backend keeps the promises the GPT code relies on, whatever the
\* kernel moves per call.
THEOREM BackendRefines == Spec => KeepsContract
<1>1. LinuxInit => Contract!Init
  BY DEF LinuxInit, Init, Ok, Addr, Contract!Init, Contract!Ok, Contract!Addr
<1> QED
  BY <1>1, LoopsCorrect, StepRefines, PTL DEF Spec, KeepsContract, Contract!Spec
=============================================================================
