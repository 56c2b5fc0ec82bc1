----------------------- MODULE MacosBlockDevice_proofs -----------------------
(***************************************************************************)
(* For every device size, block size and request: the read-modify-write    *)
(* loops keep IInv, never draw EINVAL, and implement ByteDevice.           *)
(***************************************************************************)
EXTENDS MacosBlockDevice, TLAPS

\* Rounding a down to a multiple of b.
LEMMA DivFloor ==
  ASSUME NEW a \in Nat, NEW b \in Nat \ {0}
  PROVE  /\ (a \div b) * b \in Nat
         /\ (a \div b) * b <= a
         /\ a < (a \div b) * b + b
OBVIOUS

\* A multiple of b is a multiple of whatever divides b.
LEMMA ModTrans ==
  ASSUME NEW a \in Nat, NEW b \in Nat \ {0}, NEW c \in Nat \ {0},
         a % b = 0, b % c = 0
  PROVE  a % c = 0
<1> DEFINE q == a \div b
           r == b \div c
<1>1. q \in Nat /\ a = q * b
  OBVIOUS
<1>2. r \in Nat /\ b = r * c
  OBVIOUS
<1>3. q * r \in Nat /\ a = (q * r) * c
  BY <1>1, <1>2
<1>4. ASSUME NEW m \in Nat PROVE (m * c) % c = 0
  OBVIOUS
<1> QED
  BY <1>3, <1>4

\* The block a byte is in starts at a multiple of the block size, and so does the next.
LEMMA BlockStart ==
  ASSUME NEW a \in Nat, NEW b \in Nat \ {0}
  PROVE  /\ ((a \div b) * b) % b = 0
         /\ a % b = 0 => (a + b) % b = 0
<1> DEFINE q == a \div b
<1>1. ASSUME NEW m \in Nat PROVE (m * b) % b = 0
  OBVIOUS
<1>2. q \in Nat
  OBVIOUS
<1>3. (q * b) % b = 0
  BY <1>1, <1>2
<1>4. ASSUME a % b = 0 PROVE (a + b) % b = 0
  <2>1. a = q * b
    BY <1>4
  <2>2. q + 1 \in Nat /\ a + b = (q + 1) * b
    BY <1>2, <2>1
  <2> HIDE DEF q
  <2> QED
    BY <1>1, <2>2
<1> QED
  BY <1>3, <1>4

\* Whole blocks of ours are whole units of the device, if one of them is.
LEMMA BlocksNotRefused ==
  ASSUME NEW off \in Nat, NEW len \in Nat, FastPath(off, len), BlockSize % DevBlock = 0
  PROVE  ~Refused(off, len)
BY ModTrans, BlockAssumption DEF FastPath, Refused

\* A write into the disk leaves a disk.
LEMMA OverlayType ==
  ASSUME TypeOK, NEW lo \in Int, NEW hi \in Int
  PROVE  Overlay(lo, hi) \in [Addr -> Byte]
BY DeviceAssumption DEF TypeOK, RequestOK, Overlay, Addr, End

\* A copy into the buffer leaves a buffer.
LEMMA FilledType ==
  ASSUME TypeOK, NEW lo \in Int, NEW hi \in Int
  PROVE  Filled(lo, hi) \in [0 .. req.len - 1 -> Byte]
BY DeviceAssumption DEF TypeOK, RequestOK, Filled, Addr

\* A block read from the device is a block.
LEMMA BlockOnDiskType ==
  ASSUME TypeOK
  PROVE  BlockOnDisk \in [0 .. BlockSize - 1 -> Byte]
BY DeviceAssumption, BlockAssumption DEF TypeOK, RequestOK, BlockOnDisk, Addr

\* A disk with part of a merged block stored on it is a disk.
LEMMA MergedType ==
  ASSUME TypeOK, NEW n \in 1 .. BlockSize
  PROVE  Merged(n) \in [Addr -> Byte]
<1>1. /\ disk \in [Addr -> Byte] /\ buf \in [0 .. req.len - 1 -> Byte]
      /\ blk \in [0 .. BlockSize - 1 -> Byte]
      /\ at \in Nat /\ req.off \in Nat /\ req.len \in Nat
      /\ BlockSize \in Nat \ {0} /\ Cap \in Nat
  BY DeviceAssumption, BlockAssumption DEF TypeOK, RequestOK
<1>2. ASSUME NEW i \in Addr, at <= i, i < at + n,
             DataStart <= i, i < DataEnd
      PROVE  buf[i - req.off] \in Byte
  <2>1. i \in Nat
    BY <1>1 DEF Addr
  <2>2. req.off <= i
    BY <1>1, <1>2, <2>1 DEF DataStart, Larger
  <2>3. i < req.off + req.len
    BY <1>1, <1>2, <2>1 DEF DataEnd, End, Smaller
  <2> QED
    BY <1>1, <2>1, <2>2, <2>3
<1>3. ASSUME NEW i \in Addr, at <= i, i < at + n PROVE blk[i - at] \in Byte
  <2>1. i - at \in 0 .. BlockSize - 1
    BY <1>1, <1>3 DEF Addr
  <2> QED
    BY <1>1, <2>1
<1>4. \A i \in Addr : disk[i] \in Byte
  BY <1>1
<1> QED
  BY <1>2, <1>3, <1>4 DEF Merged

\* A fresh block buffer is a block.
LEMMA ZeroedType == Zeroed \in [0 .. BlockSize - 1 -> Byte]
BY DeviceAssumption DEF Zeroed

-----------------------------------------------------------------------------
Safe == IInv /\ NeverRefused

\* Safe holds before the first request.
LEMMA InitSafe == MacInit => Safe
<1> SUFFICES ASSUME MacInit PROVE Safe
  OBVIOUS
<1>1. TypeOK
  BY ZeroedType, DeviceAssumption DEF MacInit, Init, TypeOK, RequestOK, Ok, Addr
<1> QED
  BY <1>1 DEF MacInit, Init, Ok, Safe, IInv, FastOK, SlowOK, LoadedIsFresh, NeverRefused

\* A new request starts at or before its first byte, in the block that holds it.
LEMMA CallSafe ==
  ASSUME Safe, NEW op \in {"read", "write"}, NEW r \in Requests, Call(op, r[1], r[2])
  PROVE  Safe'
<1> DEFINE off == r[1]
           len == r[2]
<1>1. off \in Nat /\ len \in Nat
  BY DeviceAssumption
<1>2. at' \in Nat /\ at' <= off /\ off < at' + BlockSize /\ at' % BlockSize = 0
  BY <1>1, DivFloor, BlockStart, BlockAssumption DEF Call
<1>3. /\ req' = [op |-> op, off |-> off, len |-> len]
      /\ res' = [st |-> "pending", n |-> 0]
      /\ total' = 0 /\ disk' = disk /\ blk' = Zeroed
      /\ pc' = IF FastPath(off, len) THEN "fast" ELSE "block"
      /\ buf' \in [0 .. len - 1 -> Byte]
  BY <1>1, DeviceAssumption DEF Call, Submit, Pending
<1>4. TypeOK'
  BY <1>1, <1>2, <1>3, ZeroedType DEF Safe, IInv, TypeOK, RequestOK, Addr
<1>5. FastOK'
  BY <1>1, <1>3 DEF FastOK, FastPath
<1>6. SlowOK'
  BY <1>1, <1>2, <1>3, DeviceAssumption DEF SlowOK, End, Larger, Smaller, Addr
<1> QED
  BY <1>3, <1>4, <1>5, <1>6 DEF Safe, IInv, LoadedIsFresh, NeverRefused

\* The fast loops extend the prefix they have moved.
LEMMA FastSafe ==
  ASSUME Safe, NEW n \in 1 .. req.len, FastRead(n) \/ FastWrite(n)
  PROVE  Safe'
<1> USE DEF Safe, IInv
<1>0. TypeOK /\ FastOK /\ pc = "fast"
  BY DEF FastRead, FastWrite, Transfer
<1>1. /\ UNCHANGED <<req, res, pc, at, blk>>
      /\ n \in 1 .. req.len - total /\ req.off + total + n <= Cap
      /\ total' = total + n
  BY DEF FastRead, FastWrite, Transfer
<1>2. total \in Nat /\ req.off \in Nat /\ req.len \in Nat /\ BlockSize \in Nat \ {0} /\ Cap \in Nat
  BY <1>0, DeviceAssumption, BlockAssumption DEF TypeOK, RequestOK
<1>3. CASE FastRead(n)
  <2>1. disk' = disk /\ buf' = Filled(req.off + total, req.off + total + n)
    BY <1>3 DEF FastRead
  <2>2. TypeOK'
    <3>1. buf' \in [0 .. req.len - 1 -> Byte]
      BY <1>0, <1>1, <1>2, <2>1, FilledType
    <3>2. total' \in 0 .. req.len
      BY <1>1, <1>2
    <3> QED
      BY <1>0, <1>1, <2>1, <3>1, <3>2 DEF TypeOK, RequestOK
  <2>3. ASSUME NEW j \in 0 .. total' - 1 PROVE disk'[req'.off + j] = buf'[j]
    <3>1. j \in 0 .. req.len - 1 /\ req.off + j < Cap /\ req.off + j >= req.off
      BY <1>1, <1>2
    <3>2. buf'[j] = IF req.off + total <= req.off + j THEN disk[req.off + j] ELSE buf[j]
      <4>1. req.off + j < req.off + total + n
        BY <1>1, <1>2
      <4> QED
        BY <2>1, <3>1, <4>1 DEF Filled
    <3>3. CASE j < total
      <4>1. j \in 0 .. total - 1
        BY <1>2, <3>1, <3>3
      <4>2. disk[req.off + j] = buf[j]
        BY <1>0, <4>1 DEF FastOK
      <4> QED
        BY <1>1, <1>2, <2>1, <3>1, <3>2, <3>3, <4>2
    <3>4. CASE j >= total
      BY <1>1, <1>2, <2>1, <3>1, <3>2, <3>4
    <3> QED
      BY <1>2, <3>1, <3>3, <3>4
  <2>4. FastOK'
    <3>1. FastPath(req.off, req.len)'
      BY <1>0, <1>1 DEF FastOK, FastPath
    <3>2. req'.off + total' <= Cap
      BY <1>1, <1>2
    <3> QED
      BY <2>3, <3>1, <3>2 DEF FastOK
  <2> QED
    BY <1>0, <1>1, <2>2, <2>4 DEF SlowOK, LoadedIsFresh, NeverRefused
<1>4. CASE FastWrite(n)
  <2>1. buf' = buf /\ disk' = Overlay(req.off + total, req.off + total + n)
    BY <1>4 DEF FastWrite
  <2>2. TypeOK'
    <3>1. disk' \in [Addr -> Byte]
      BY <1>0, <1>1, <1>2, <2>1, OverlayType
    <3>2. total' \in 0 .. req.len
      BY <1>1, <1>2
    <3> QED
      BY <1>0, <1>1, <2>1, <3>1, <3>2 DEF TypeOK, RequestOK
  <2>3. ASSUME NEW j \in 0 .. total' - 1 PROVE disk'[req'.off + j] = buf'[j]
    <3>1. /\ j \in 0 .. req.len - 1 /\ req.off + j \in Addr /\ req.off + j < End
          /\ req.off + j >= req.off /\ (req.off + j) - req.off = j
      BY <1>1, <1>2 DEF Addr, End
    <3>2. disk'[req.off + j] = IF req.off + total <= req.off + j /\ req.off + j < req.off + total + n
                               THEN buf[(req.off + j) - req.off] ELSE disk[req.off + j]
      BY <2>1, <3>1 DEF Overlay
    <3>3. CASE j < total
      <4>1. j \in 0 .. total - 1
        BY <1>2, <3>1, <3>3
      <4>2. disk[req.off + j] = buf[j]
        BY <1>0, <4>1 DEF FastOK
      <4> QED
        BY <1>1, <1>2, <2>1, <3>1, <3>2, <3>3, <4>2
    <3>4. CASE j >= total
      BY <1>1, <1>2, <2>1, <3>1, <3>2, <3>4
    <3> QED
      BY <1>2, <3>1, <3>3, <3>4
  <2>4. FastOK'
    <3>1. FastPath(req.off, req.len)'
      BY <1>0, <1>1 DEF FastOK, FastPath
    <3>2. req'.off + total' <= Cap
      BY <1>1, <1>2
    <3> QED
      BY <2>3, <3>1, <3>2 DEF FastOK
  <2> QED
    BY <1>0, <1>1, <2>2, <2>4 DEF SlowOK, LoadedIsFresh, NeverRefused
<1> QED
  BY <1>3, <1>4

\* One round of the slow read counts and copies exactly what the block has.
LEMMA ReadBlockSafe ==
  ASSUME Safe, ReadBlock
  PROVE  Safe'
<1> USE DEF Safe, IInv
<1>1. /\ UNCHANGED <<disk, req, res, pc, blk>>
      /\ pc = "block" /\ req.op = "read" /\ at < End /\ CopyLen > 0
      /\ at' = at + BlockSize /\ total' = total + CopyLen
      /\ buf' = Filled(DataStart, DataStart + CopyLen)
  BY DEF ReadBlock, Serving, NextBlock
<1>2. /\ total \in Nat /\ at \in Nat /\ req.off \in Nat /\ req.len \in Nat
      /\ BlockSize \in Nat \ {0} /\ Cap \in Nat
  BY DeviceAssumption, BlockAssumption DEF TypeOK, RequestOK
<1>3. /\ total = Larger(0, Smaller(Smaller(at, End), Cap) - req.off)
      /\ req.off < at + BlockSize /\ at % BlockSize = 0
      /\ \A i \in Addr : req.off <= i /\ i < at /\ i < End => disk[i] = buf[i - req.off]
  BY <1>1 DEF SlowOK
<1>4. /\ DataStart \in Int /\ CopyLen \in Int
      /\ DataStart + CopyLen = Smaller(Smaller(at + BlockSize, End), Cap)
      /\ DataStart >= req.off /\ DataStart >= at
      /\ total = DataStart - req.off
  BY <1>1, <1>2, <1>3 DEF CopyLen, DataStart, DataEnd, Larger, Smaller, End
<1>5. total' = Larger(0, Smaller(Smaller(at', End), Cap) - req.off) /\ total' \in 0 .. req.len
  BY <1>1, <1>2, <1>4 DEF Larger, Smaller, End
<1>6. TypeOK'
  <2>1. buf' \in [0 .. req.len - 1 -> Byte]
    BY <1>1, <1>4, FilledType
  <2>2. at' \in Nat
    BY <1>1, <1>2
  <2> QED
    BY <1>1, <1>5, <2>1, <2>2 DEF TypeOK, RequestOK
<1>7. \A i \in Addr : req.off <= i /\ i < at' /\ i < End => disk[i] = buf'[i - req.off]
  <2> SUFFICES ASSUME NEW i \in Addr, req.off <= i, i < at', i < End
               PROVE  disk[i] = buf'[i - req.off]
    OBVIOUS
  <2>1. i \in Nat /\ i < Cap /\ i - req.off \in 0 .. req.len - 1
    BY <1>2 DEF Addr, End
  <2>2. buf'[i - req.off] = IF DataStart <= i /\ i < DataStart + CopyLen
                            THEN disk[i] ELSE buf[i - req.off]
    <3>1. buf' = [j \in 0 .. req.len - 1 |->
                    IF DataStart <= req.off + j /\ req.off + j < DataStart + CopyLen /\ req.off + j < Cap
                    THEN disk[req.off + j] ELSE buf[j]]
      BY <1>1 DEF Filled
    <3>2. req.off + (i - req.off) = i
      BY <1>2, <2>1
    <3> QED
      BY <2>1, <3>1, <3>2
  <2>3. i < DataStart + CopyLen
    BY <1>1, <1>2, <1>4, <2>1 DEF Smaller, End
  <2>4. CASE i < DataStart
    BY <1>2, <1>3, <2>1, <2>2, <2>4 DEF DataStart, Larger
  <2> QED
    BY <1>4, <2>1, <2>2, <2>3, <2>4
<1>8. SlowOK'
  <2>1. at' % BlockSize = 0
    BY <1>1, <1>2, <1>3, BlockStart
  <2>2. req.off < at' + BlockSize
    BY <1>1, <1>2, <1>3
  <2> QED
    BY <1>1, <1>5, <1>7, <2>1, <2>2 DEF SlowOK, End
<1> QED
  BY <1>1, <1>6, <1>8 DEF FastOK, LoadedIsFresh, NeverRefused

\* After the load the block is what the device holds, where that matters.
LEMMA LoadBlockSafe ==
  ASSUME Safe, LoadBlock
  PROVE  Safe'
<1> USE DEF Safe, IInv
<1>1. /\ UNCHANGED <<disk, req, buf, res, at, total>>
      /\ pc = "block" /\ pc' = "merge" /\ req.op = "write" /\ at < End
      /\ blk' = IF Partial THEN BlockOnDisk ELSE blk
  BY DEF LoadBlock, Serving
<1>2. TypeOK'
  BY <1>1, BlockOnDiskType DEF TypeOK, RequestOK
<1>3. SlowOK'
  BY <1>1 DEF SlowOK, End
<1>4. LoadedIsFresh'
  BY <1>1 DEF LoadedIsFresh, Partial, DataStart, DataEnd, End, BlockOnDisk
<1> QED
  BY <1>1, <1>2, <1>3, <1>4 DEF FastOK, NeverRefused

\* Storing the merged block writes the next part of the caller's bytes and puts
\* back, unchanged, the device's own bytes around them.
LEMMA StoreIsOverlay ==
  ASSUME Safe, StoreBlock
  PROVE  \A i \in Addr :
           disk'[i] = IF req.off <= i /\ i < at + BlockSize /\ i < End
                      THEN buf[i - req.off] ELSE disk[i]
<1>1. /\ disk' = Merged(BlockSize) /\ pc = "merge" /\ at < End
  BY DEF StoreBlock, Safe, IInv, LoadedIsFresh
<1>2. /\ at \in Nat /\ req.off \in Nat /\ req.len \in Nat
      /\ BlockSize \in Nat \ {0} /\ Cap \in Nat
  BY DeviceAssumption, BlockAssumption DEF Safe, IInv, TypeOK, RequestOK
<1>3. /\ req.off < at + BlockSize
      /\ \A i \in Addr : req.off <= i /\ i < at /\ i < End => disk[i] = buf[i - req.off]
  BY <1>1 DEF Safe, IInv, SlowOK
<1> SUFFICES ASSUME NEW i \in Addr
             PROVE  disk'[i] = IF req.off <= i /\ i < at + BlockSize /\ i < End
                               THEN buf[i - req.off] ELSE disk[i]
  OBVIOUS
<1>4. i \in Nat
  BY <1>2 DEF Addr
<1>5. disk'[i] = IF at <= i /\ i < at + BlockSize
                 THEN IF DataStart <= i /\ i < DataEnd THEN buf[i - req.off] ELSE blk[i - at]
                 ELSE disk[i]
  BY <1>1 DEF Merged
<1>6. CASE i < at
  BY <1>2, <1>3, <1>4, <1>5, <1>6
<1>7. CASE at + BlockSize <= i
  BY <1>2, <1>4, <1>5, <1>7
<1>8. CASE at <= i /\ i < at + BlockSize
  <2>1. DataStart <= i /\ i < DataEnd <=> req.off <= i /\ i < End
    BY <1>2, <1>4, <1>8 DEF DataStart, DataEnd, Larger, Smaller, End
  <2>2. CASE DataStart <= i /\ i < DataEnd
    BY <1>5, <1>8, <2>1, <2>2
  <2>3. CASE ~(DataStart <= i /\ i < DataEnd)
    <3>1. Partial
      BY <1>2, <1>4, <1>8, <2>3 DEF Partial, DataStart, DataEnd, Larger, Smaller, End
    <3>2. blk = BlockOnDisk
      BY <1>1, <3>1 DEF Safe, IInv, LoadedIsFresh
    <3>3. i - at \in 0 .. BlockSize - 1 /\ at + (i - at) = i /\ i < Cap
      BY <1>2, <1>4, <1>8 DEF Addr
    <3>4. blk[i - at] = disk[i]
      BY <3>2, <3>3 DEF BlockOnDisk
    <3> QED
      BY <1>5, <1>8, <2>1, <2>3, <3>4
  <2> QED
    BY <2>2, <2>3
<1> QED
  BY <1>2, <1>4, <1>6, <1>7, <1>8

\* After the store every byte of the request below the next block is done.
LEMMA StoreBlockSafe ==
  ASSUME Safe, StoreBlock
  PROVE  Safe'
<1>1. /\ UNCHANGED <<req, buf, res, blk, total>> /\ disk' = Merged(BlockSize)
      /\ pc = "merge" /\ pc' = "block" /\ req.op = "write"
      /\ at' = at + BlockSize /\ at + BlockSize <= Cap
  BY DEF StoreBlock, Serving, NextBlock
<1>2. /\ at \in Nat /\ req.off \in Nat /\ req.len \in Nat
      /\ BlockSize \in Nat \ {0} /\ Cap \in Nat
  BY DeviceAssumption, BlockAssumption DEF Safe, IInv, TypeOK, RequestOK
<1>3. TypeOK'
  <2>1. disk' \in [Addr -> Byte]
    BY <1>1, <1>2, MergedType DEF Safe, IInv
  <2>2. at' \in Nat
    BY <1>1, <1>2
  <2> QED
    BY <1>1, <2>1, <2>2 DEF Safe, IInv, TypeOK, RequestOK
<1>4. \A i \in Addr : req.off <= i /\ i < at' /\ i < End => disk'[i] = buf[i - req.off]
  BY <1>1, StoreIsOverlay
<1>5. req.off < at' + BlockSize /\ at' <= Cap
  BY <1>1, <1>2 DEF Safe, IInv, SlowOK
<1>6. SlowOK'
  <2>1. at' % BlockSize = 0
    BY <1>1, <1>2, BlockStart DEF Safe, IInv, SlowOK
  <2> QED
    BY <1>1, <1>4, <1>5, <2>1 DEF SlowOK, End
<1> QED
  BY <1>1, <1>3, <1>6 DEF Safe, IInv, FastOK, LoadedIsFresh, NeverRefused

\* What is left on the device when a file operation fails.
LEMMA IoErrorDisk ==
  ASSUME Safe, IoError
  PROVE  \/ UNCHANGED disk
         \/ pc = "merge" /\ \E n \in 1 .. BlockSize : disk' = Merged(n)
         \/ /\ Serving("write") /\ pc = "fast"
            /\ \E n \in total + 1 .. req.len : disk' = Overlay(req.off, req.off + n)
BY DEF IoError

\* Every way a call ends leaves nothing to protect.
LEMMA ReturnSafe ==
  ASSUME Safe,
         FastReadEnd \/ FastWriteEnd \/ ReadEnd \/ WriteEnd \/ IoError
  PROVE  Safe'
<1>1. /\ pc' = "idle" /\ UNCHANGED <<req, at, blk, total, buf>>
      /\ res'.st # "pending"
      /\ res' \in [st : {"pending", "ok"} \cup Failures, n : Nat]
  <2>1. total \in Nat /\ req.len \in Nat
    BY DEF Safe, IInv, TypeOK, RequestOK
  <2> QED
    BY <2>1 DEF FastReadEnd, FastWriteEnd, ReadEnd, WriteEnd, IoError, Return,
                Ok, Err, Failures
<1>2. NeverRefused'
  <2> SUFFICES ASSUME BlockSize % DevBlock = 0 PROVE res'.st # "einval"
    BY DEF NeverRefused
  <2>1. CASE IoError
    <3>1. ~RefusedNow
      <4>1. CASE pc = "fast"
        BY <4>1, BlocksNotRefused DEF RefusedNow, Safe, IInv, FastOK, TypeOK, RequestOK
      <4>2. CASE pc # "fast"
        <5>1. at \in Nat /\ BlockSize \in Nat \ {0}
          BY BlockAssumption DEF Safe, IInv, TypeOK
        <5>2. at % BlockSize = 0 /\ BlockSize % BlockSize = 0
          BY <2>1, <4>2, <5>1 DEF IoError, Safe, IInv, TypeOK, SlowOK
        <5>3. ~Refused(at, BlockSize)
          BY <5>1, <5>2, BlocksNotRefused DEF FastPath
        <5> QED
          BY <4>2, <5>3 DEF RefusedNow
      <4> QED
        BY <4>1, <4>2
    <3> QED
      BY <2>1, <3>1 DEF IoError, Err
  <2> QED
    BY <2>1 DEF FastReadEnd, FastWriteEnd, ReadEnd, WriteEnd, Return, Ok
<1>3. disk' \in [Addr -> Byte]
  <2>1. CASE IoError
    <3>1. CASE \E n \in total + 1 .. req.len : disk' = Overlay(req.off, req.off + n)
      <4>1. PICK n \in total + 1 .. req.len : disk' = Overlay(req.off, req.off + n)
        BY <3>1
      <4>2. req.off \in Int /\ req.off + n \in Int
        BY DEF Safe, IInv, TypeOK, RequestOK
      <4> QED
        BY <4>1, <4>2, OverlayType DEF Safe, IInv
    <3> QED
      BY <2>1, <3>1, IoErrorDisk, MergedType DEF Safe, IInv, TypeOK, RequestOK
  <2> QED
    BY <2>1 DEF FastReadEnd, FastWriteEnd, ReadEnd, WriteEnd, Safe, IInv, TypeOK, RequestOK
<1>4. TypeOK'
  BY <1>1, <1>3 DEF Safe, IInv, TypeOK, RequestOK
<1> QED
  BY <1>1, <1>2, <1>4 DEF Safe, IInv, FastOK, SlowOK, LoadedIsFresh

\* Safe is inductive.
LEMMA NextSafe == Safe /\ [Next]_vars => Safe'
<1> SUFFICES ASSUME Safe, [Next]_vars PROVE Safe'
  OBVIOUS
<1>1. CASE \E op \in {"read", "write"}, r \in Requests : Call(op, r[1], r[2])
  BY <1>1, CallSafe
<1>2. CASE \E n \in 1 .. req.len : FastRead(n) \/ FastWrite(n)
  BY <1>2, FastSafe
<1>3. CASE ReadBlock
  BY <1>3, ReadBlockSafe
<1>4. CASE LoadBlock
  BY <1>4, LoadBlockSafe
<1>5. CASE StoreBlock
  BY <1>5, StoreBlockSafe
<1>6. CASE FastReadEnd \/ FastWriteEnd \/ ReadEnd \/ WriteEnd \/ IoError
  BY <1>6, ReturnSafe
<1>7. CASE UNCHANGED vars
  BY <1>7 DEF vars, Safe, IInv, TypeOK, RequestOK, FastOK, SlowOK, LoadedIsFresh,
              NeverRefused, FastPath, Partial, DataStart, DataEnd, End, BlockOnDisk
<1> QED
  BY <1>1, <1>2, <1>3, <1>4, <1>5, <1>6, <1>7 DEF Next, Serve

\* The loops' invariant: what has been moved so far agrees with the device, and
\* the block about to be stored is still what the device holds.
THEOREM LoopsCorrect == Spec => []IInv
<1>1. Spec => []Safe
  BY InitSafe, NextSafe, PTL DEF Spec
<1>2. Safe => IInv
  BY DEF Safe
<1> QED
  BY <1>1, <1>2, PTL

\* Every request, buffer, position and result the backend can reach is of its type.
THEOREM TypesKept == Spec => []TypeOK
<1>1. IInv => TypeOK
  BY DEF IInv
<1> QED
  BY <1>1, LoopsCorrect, PTL

\* Whatever the alignment of the caller's range, the device accepts every transfer.
THEOREM AlignmentCorrect == Spec => []NeverRefused
<1>1. Spec => []Safe
  BY InitSafe, NextSafe, PTL DEF Spec
<1>2. Safe => NeverRefused
  BY DEF Safe
<1> QED
  BY <1>1, <1>2, PTL

-----------------------------------------------------------------------------
\* Overlay, byte by byte.
LEMMA OverlayIs ==
  ASSUME Safe, NEW hi \in Int, NEW d \in [Addr -> Byte],
         \A i \in Addr : d[i] = IF req.off <= i /\ i < hi /\ i < End
                                THEN buf[i - req.off] ELSE disk[i]
  PROVE  d = Contract!Overlay(req.off, hi)
<1>1. req.off \in Nat /\ req.len \in Nat
  BY DEF Safe, IInv, TypeOK, RequestOK
<1> QED
  BY <1>1 DEF Contract!Overlay, Contract!Addr, Contract!End, Addr, End

\* In the fast write loop the disk holds the first `total` bytes already, so n
\* more of them make a longer prefix.
LEMMA FastPrefix ==
  ASSUME Safe, pc = "fast", req.op = "write", NEW n \in total .. req.len,
         disk' = Overlay(req.off, req.off + n) \/ disk' = Overlay(req.off + total, req.off + n)
  PROVE  disk' = Contract!Overlay(req.off, req.off + n)
<1>1. total \in Nat /\ req.off \in Nat /\ req.len \in Nat /\ disk' \in [Addr -> Byte]
  BY OverlayType DEF Safe, IInv, TypeOK, RequestOK
<1>2. \A i \in Addr : req.off <= i /\ i < req.off + total => disk[i] = buf[i - req.off]
  <2> SUFFICES ASSUME NEW i \in Addr, req.off <= i, i < req.off + total
               PROVE  disk[i] = buf[i - req.off]
    OBVIOUS
  <2>1. i - req.off \in 0 .. total - 1 /\ req.off + (i - req.off) = i
    BY <1>1 DEF Addr
  <2> QED
    BY <2>1 DEF Safe, IInv, FastOK
<1>3. \A i \in Addr : disk'[i] = IF req.off <= i /\ i < req.off + n /\ i < End
                                 THEN buf[i - req.off] ELSE disk[i]
  <2>1. ASSUME disk' = Overlay(req.off, req.off + n), NEW i \in Addr
        PROVE  disk'[i] = IF req.off <= i /\ i < req.off + n /\ i < End
                          THEN buf[i - req.off] ELSE disk[i]
    BY <1>1, <2>1 DEF Overlay, Addr
  <2>2. ASSUME disk' = Overlay(req.off + total, req.off + n), NEW i \in Addr
        PROVE  disk'[i] = IF req.off <= i /\ i < req.off + n /\ i < End
                          THEN buf[i - req.off] ELSE disk[i]
    <3>1. CASE i < req.off + total
      BY <1>1, <1>2, <2>2, <3>1 DEF Overlay, Addr
    <3>2. CASE i >= req.off + total
      BY <1>1, <2>2, <3>2 DEF Overlay, Addr
    <3> QED
      BY <1>1, <3>1, <3>2 DEF Addr
  <2> QED
    BY <2>1, <2>2
<1> QED
  BY <1>1, <1>3, OverlayIs

\* A round of a direct loop is a Fetch or a Store of the contract.
LEMMA FastStepRefines ==
  ASSUME Safe, NEW n \in 1 .. req.len, FastRead(n) \/ FastWrite(n)
  PROVE  Contract!Next
<1>1. total \in Nat /\ req.off \in Nat /\ req.len \in Nat
  BY DEF Safe, IInv, TypeOK, RequestOK
<1>2. CASE FastRead(n)
  <2>1. buf' \in [0 .. req.len - 1 -> Byte]
    BY <1>1, <1>2, FilledType DEF FastRead, Safe, IInv
  <2> QED
    BY <1>2, <2>1 DEF FastRead, Transfer, Serving, Contract!Next, Contract!Fetch, Contract!Serving
<1>3. CASE FastWrite(n)
  <2>1. total + n \in total .. req.len /\ total + n \in 0 .. req.len
    BY <1>1, <1>3 DEF FastWrite, Transfer
  <2>2. disk' = Overlay(req.off + total, req.off + (total + n))
    BY <1>1, <1>3 DEF FastWrite
  <2>3. disk' = Contract!Overlay(req.off, req.off + (total + n))
    BY <1>3, <2>1, <2>2, FastPrefix DEF FastWrite, Transfer, Serving
  <2> QED
    BY <1>3, <2>1, <2>3 DEF FastWrite, Transfer, Serving, Contract!Next, Contract!Store, Contract!Serving
<1> QED
  BY <1>2, <1>3

\* A read ends having returned every byte that exists.
LEMMA ReadEndRefines ==
  ASSUME Safe, FastReadEnd \/ ReadEnd
  PROVE  Contract!FetchOk
<1>1. /\ total \in Nat /\ req.off \in Nat /\ req.len \in Nat /\ at \in Nat
      /\ Cap \in Nat /\ BlockSize \in Nat \ {0} /\ total <= req.len
      /\ buf \in [0 .. req.len - 1 -> Byte]
  BY DeviceAssumption, BlockAssumption DEF Safe, IInv, TypeOK, RequestOK
<1>2. CASE FastReadEnd
  <2>1. /\ req.off + total <= Cap \/ total = 0
        /\ total = req.len \/ req.off + total >= Cap
        /\ \A j \in 0 .. total - 1 : disk[req.off + j] = buf[j]
    BY <1>2 DEF FastReadEnd, Safe, IInv, FastOK
  <2>2. total = Available
    BY <1>1, <2>1 DEF Available, Smaller, Larger
  <2> QED
    BY <1>1, <1>2, <2>1, <2>2
       DEF FastReadEnd, Return, Serving, Ok, Available, Smaller, Larger, Contract!FetchOk,
           Contract!Serving, Contract!Ok, Contract!Available, Contract!Smaller, Contract!Larger
<1>3. CASE ReadEnd
  <2>1. /\ req.off < at + BlockSize
        /\ total = Larger(0, Smaller(Smaller(at, End), Cap) - req.off)
        /\ \A i \in Addr : req.off <= i /\ i < at /\ i < End => disk[i] = buf[i - req.off]
    BY <1>3 DEF ReadEnd, Serving, Safe, IInv, SlowOK
  <2>2. total = Available
    <3>1. CASE at >= End
      BY <1>1, <2>1, <3>1 DEF Available, Smaller, Larger, End
    <3>2. CASE at < End /\ CopyLen = 0
      <4>1. req.len = 0 \/ Cap <= at \/ Cap <= req.off
        <5>1. /\ DataStart \in Nat /\ DataEnd \in Nat
              /\ req.len # 0 => DataEnd > DataStart
          BY <1>1, <2>1, <3>2 DEF DataStart, DataEnd, Smaller, Larger, End
        <5>2. req.len # 0 => Smaller(at + BlockSize, Cap) <= DataStart
          BY <1>1, <3>2, <5>1 DEF CopyLen, Smaller, Larger
        <5>3. DataStart < at + BlockSize
          BY <1>1, <2>1 DEF DataStart, Larger
        <5> QED
          BY <1>1, <5>1, <5>2, <5>3 DEF DataStart, Smaller, Larger
      <4>2. CASE req.len = 0
        BY <1>1, <2>1, <4>2 DEF Available, Smaller, Larger, End
      <4>3. CASE Cap <= at
        BY <1>1, <2>1, <3>2, <4>3 DEF Available, Smaller, Larger, End
      <4>4. CASE Cap <= req.off
        BY <1>1, <2>1, <4>4 DEF Available, Smaller, Larger, End
      <4> QED
        BY <4>1, <4>2, <4>3, <4>4
    <3> QED
      BY <1>1, <1>3, <3>1, <3>2 DEF ReadEnd, End
  <2>3. \A j \in 0 .. Available - 1 : buf[j] = disk[req.off + j]
    <3> SUFFICES ASSUME NEW j \in 0 .. total - 1 PROVE buf[j] = disk[req.off + j]
      BY <2>2
    <3>1. j < Larger(0, Smaller(Smaller(at, End), Cap) - req.off) /\ j \in Nat
      BY <1>1, <2>1
    <3>2. /\ req.off + j \in Addr /\ req.off + j < at /\ req.off + j < End
          /\ req.off <= req.off + j /\ (req.off + j) - req.off = j
      <4>1. j < Smaller(Smaller(at, End), Cap) - req.off
        BY <1>1, <3>1 DEF Larger, Smaller, End
      <4>2. req.off + j < at /\ req.off + j < End /\ req.off + j < Cap
        BY <1>1, <3>1, <4>1 DEF Smaller, End
      <4> QED
        BY <1>1, <3>1, <4>2 DEF Addr
    <3> QED
      BY <2>1, <3>2
  <2> QED
    BY <1>1, <1>3, <2>2, <2>3
       DEF ReadEnd, Return, Serving, Ok, Available, Smaller, Larger, Contract!FetchOk,
           Contract!Serving, Contract!Ok, Contract!Available, Contract!Smaller, Contract!Larger
<1> QED
  BY <1>2, <1>3

\* A write ends with all of the caller's bytes on the device.
LEMMA WriteEndRefines ==
  ASSUME Safe, FastWriteEnd \/ WriteEnd
  PROVE  Contract!StoreOk
<1>1. /\ req.off \in Nat /\ req.len \in Nat /\ at \in Nat /\ Cap \in Nat /\ total \in Nat
      /\ disk \in [Addr -> Byte] /\ BlockSize \in Nat
  BY DeviceAssumption, BlockAssumption DEF Safe, IInv, TypeOK, RequestOK
<1>2. disk' = disk /\ UNCHANGED <<req, buf>> /\ res' = Ok(req.len) /\ Serving("write")
  BY DEF FastWriteEnd, WriteEnd, Return
<1>3. \A i \in Addr : req.off <= i /\ i < End => disk[i] = buf[i - req.off]
  <2>1. CASE FastWriteEnd
    <3> SUFFICES ASSUME NEW i \in Addr, req.off <= i, i < End PROVE disk[i] = buf[i - req.off]
      OBVIOUS
    <3>1. i - req.off \in 0 .. req.len - 1 /\ req.off + (i - req.off) = i
      BY <1>1 DEF Addr, End
    <3> QED
      BY <2>1, <3>1 DEF FastWriteEnd, Safe, IInv, FastOK
  <2>2. CASE WriteEnd
    BY <1>1, <2>2 DEF WriteEnd, Safe, IInv, SlowOK, Addr, End
  <2> QED
    BY <2>1, <2>2
<1>4. End <= Cap \/ req.len = 0
  <2>1. CASE FastWriteEnd
    BY <1>1, <2>1 DEF FastWriteEnd, Safe, IInv, FastOK, End
  <2>2. CASE WriteEnd
    BY <1>1, <2>2 DEF WriteEnd, Serving, Safe, IInv, SlowOK, End
  <2> QED
    BY <2>1, <2>2
<1>5. disk' = Contract!Overlay(req.off, End)
  <2>1. \A i \in Addr : disk[i] = IF req.off <= i /\ i < End /\ i < End
                                  THEN buf[i - req.off] ELSE disk[i]
    BY <1>3
  <2>2. End \in Int
    BY <1>1 DEF End
  <2> QED
    BY <1>1, <1>2, <2>1, <2>2, OverlayIs
<1> QED
  BY <1>2, <1>4, <1>5 DEF Serving, Ok, End, Contract!StoreOk, Contract!Serving, Contract!Ok, Contract!End

\* One stored block is one longer prefix of the caller's bytes.
LEMMA StoreBlockRefines ==
  ASSUME Safe, StoreBlock
  PROVE  Contract!Store
<1>1. /\ req.off \in Nat /\ req.len \in Nat /\ at \in Nat /\ Cap \in Nat /\ BlockSize \in Nat
  BY DeviceAssumption, BlockAssumption DEF Safe, IInv, TypeOK, RequestOK
<1>2. disk' \in [Addr -> Byte]
  BY <1>1, BlockAssumption, MergedType DEF StoreBlock, Safe, IInv
<1>3. req.off < at + BlockSize
  BY DEF StoreBlock, Safe, IInv, SlowOK
<1> DEFINE k == Smaller(req.len, at + BlockSize - req.off)
<1>4. k \in 0 .. req.len
  BY <1>1, <1>3 DEF Smaller
<1>5. \A i \in Addr : disk'[i] = IF req.off <= i /\ i < req.off + k /\ i < End
                                 THEN buf[i - req.off] ELSE disk[i]
  BY <1>1, <1>3, StoreIsOverlay DEF Smaller, End, Addr
<1>6. disk' = Contract!Overlay(req.off, req.off + k)
  <2>1. req.off + k \in Int
    BY <1>1, <1>4
  <2> HIDE DEF k
  <2> QED
    BY <1>2, <1>5, <2>1, OverlayIs
<1> QED
  BY <1>4, <1>6 DEF StoreBlock, Serving, Contract!Store, Contract!Serving

\* A store that failed half way left a prefix of the block, which is a prefix of
\* the caller's bytes with the device's own around it.
LEMMA MergedPrefix ==
  ASSUME Safe, pc = "merge", NEW n \in 1 .. BlockSize, disk' = Merged(n)
  PROVE  \E k \in 0 .. req.len : disk' = Contract!Overlay(req.off, req.off + k)
<1>1. /\ req.off \in Nat /\ req.len \in Nat /\ at \in Nat /\ Cap \in Nat
      /\ BlockSize \in Nat \ {0}
  BY DeviceAssumption, BlockAssumption DEF Safe, IInv, TypeOK, RequestOK
<1>2. disk' \in [Addr -> Byte]
  BY MergedType DEF Safe, IInv
<1>3. /\ req.off < at + BlockSize /\ at < End
      /\ \A i \in Addr : req.off <= i /\ i < at /\ i < End => disk[i] = buf[i - req.off]
  BY DEF Safe, IInv, SlowOK, LoadedIsFresh
<1> DEFINE k == Larger(0, Smaller(req.len, at + n - req.off))
<1>4. k \in 0 .. req.len
  BY <1>1 DEF Smaller, Larger
<1>5. ASSUME NEW i \in Addr
      PROVE  disk'[i] = IF req.off <= i /\ i < req.off + k /\ i < End
                        THEN buf[i - req.off] ELSE disk[i]
  <2>1. i \in Nat
    BY <1>1 DEF Addr
  <2>2. disk'[i] = IF at <= i /\ i < at + n
                   THEN IF DataStart <= i /\ i < DataEnd THEN buf[i - req.off] ELSE blk[i - at]
                   ELSE disk[i]
    BY DEF Merged
  <2>3. CASE i < at
    <3>1. req.off <= i /\ i < req.off + k /\ i < End => disk[i] = buf[i - req.off]
      BY <1>3, <2>3
    <3> QED
      BY <1>1, <2>1, <2>2, <2>3, <3>1
  <2>4. CASE at + n <= i
    <3>1. ~(req.off <= i /\ i < req.off + k)
      BY <1>1, <2>1, <2>4 DEF Smaller, Larger
    <3> QED
      BY <1>1, <2>1, <2>2, <2>4, <3>1
  <2>5. CASE at <= i /\ i < at + n
    <3>1. /\ DataStart <= i /\ i < DataEnd <=> req.off <= i /\ i < End
          /\ req.off <= i /\ i < End => i < req.off + k
      BY <1>1, <2>1, <2>5 DEF DataStart, DataEnd, Larger, Smaller, End
    <3>2. CASE ~(DataStart <= i /\ i < DataEnd)
      <4>1. Partial
        BY <1>1, <2>1, <2>5, <3>2 DEF Partial, DataStart, DataEnd, Larger, Smaller, End
      <4>2. blk = BlockOnDisk
        BY <4>1 DEF Safe, IInv, LoadedIsFresh
      <4>3. i - at \in 0 .. BlockSize - 1 /\ at + (i - at) = i /\ i < Cap
        BY <1>1, <2>1, <2>5 DEF Addr
      <4>4. blk[i - at] = disk[i]
        BY <4>2, <4>3 DEF BlockOnDisk
      <4> QED
        BY <2>2, <2>5, <3>1, <3>2, <4>4
    <3> QED
      BY <2>2, <2>5, <3>1, <3>2
  <2> QED
    BY <1>1, <2>1, <2>3, <2>4, <2>5
<1>6. disk' = Contract!Overlay(req.off, req.off + k)
  <2>1. req.off + k \in Int
    BY <1>1, <1>4
  <2> HIDE DEF k
  <2> QED
    BY <1>2, <1>5, <2>1, OverlayIs
<1> QED
  BY <1>4, <1>6

\* A failed file operation is a Fail of the contract, with a prefix written.
LEMMA IoErrorRefines ==
  ASSUME Safe, IoError
  PROVE  Contract!Fail
<1>1. /\ req.off \in Nat /\ req.len \in Nat /\ total \in 0 .. req.len
      /\ disk \in [Addr -> Byte] /\ req.op \in {"read", "write"}
      /\ res.st = "pending"
  BY DEF IoError, Safe, IInv, TypeOK, RequestOK
<1>2. \E e \in Contract!Failures : res' = Contract!Err(e)
  BY DEF IoError, Err, Contract!Failures, Contract!Err
<1>3. req.op = "write" =>
        \E k \in 0 .. req.len : disk' = Contract!Overlay(req.off, req.off + k)
  <2> SUFFICES ASSUME req.op = "write"
               PROVE  \E k \in 0 .. req.len : disk' = Contract!Overlay(req.off, req.off + k)
    OBVIOUS
  <2>1. CASE UNCHANGED disk
    <3>1. \A i \in Addr : disk[i] = IF req.off <= i /\ i < req.off + 0 /\ i < End
                                    THEN buf[i - req.off] ELSE disk[i]
      BY <1>1 DEF Addr
    <3>2. disk' = Contract!Overlay(req.off, req.off + 0)
      BY <1>1, <2>1, <3>1, OverlayIs
    <3> QED
      BY <1>1, <3>2
  <2>2. CASE pc = "merge" /\ \E n \in 1 .. BlockSize : disk' = Merged(n)
    BY <2>2, MergedPrefix
  <2>3. CASE /\ Serving("write") /\ pc = "fast"
             /\ \E n \in total + 1 .. req.len : disk' = Overlay(req.off, req.off + n)
    <3>1. PICK n \in total + 1 .. req.len : disk' = Overlay(req.off, req.off + n)
      BY <2>3
    <3>2. n \in total .. req.len /\ n \in 0 .. req.len
      BY <1>1, <3>1
    <3>3. disk' = Contract!Overlay(req.off, req.off + n)
      BY <2>3, <3>1, <3>2, FastPrefix
    <3> QED
      BY <3>2, <3>3
  <2> QED
    BY <2>1, <2>2, <2>3, IoErrorDisk
<1>4. req.op = "read" => UNCHANGED disk
  BY IoErrorDisk DEF Serving, Safe, IInv, LoadedIsFresh
<1> QED
  BY <1>1, <1>2, <1>3, <1>4 DEF IoError, Contract!Fail

\* Every step is a step of the contract or changes none of its variables.
LEMMA StepRefines == Safe /\ [Next]_vars => [Contract!Next]_(Contract!ioVars)
<1> SUFFICES ASSUME Safe, [Next]_vars
             PROVE  Contract!Next \/ UNCHANGED Contract!ioVars
  OBVIOUS
<1>1. ASSUME NEW op \in {"read", "write"}, NEW r \in Requests, Call(op, r[1], r[2])
      PROVE  Contract!Next
  BY <1>1 DEF Call, Submit, Pending, Contract!Next, Contract!Submit, Contract!Pending
<1>2. ASSUME NEW n \in 1 .. req.len, FastRead(n) \/ FastWrite(n)
      PROVE  Contract!Next
  BY <1>2, FastStepRefines
<1>3. CASE FastReadEnd \/ ReadEnd
  BY <1>3, ReadEndRefines DEF Contract!Next
<1>4. CASE FastWriteEnd \/ WriteEnd
  BY <1>4, WriteEndRefines DEF Contract!Next
<1>5. CASE ReadBlock
  <2>1. DataStart \in Int /\ CopyLen \in Int
    BY DeviceAssumption, BlockAssumption
       DEF Safe, IInv, TypeOK, RequestOK, CopyLen, DataStart, DataEnd, Larger, Smaller, End
  <2>2. buf' \in [0 .. req.len - 1 -> Byte]
    BY <1>5, <2>1, FilledType DEF ReadBlock, Safe, IInv
  <2> QED
    BY <1>5, <2>2 DEF ReadBlock, Serving, Contract!Next, Contract!Fetch, Contract!Serving
<1>6. CASE LoadBlock
  BY <1>6 DEF LoadBlock, Contract!ioVars
<1>7. CASE StoreBlock
  BY <1>7, StoreBlockRefines DEF Contract!Next
<1>8. CASE IoError
  BY <1>8, IoErrorRefines DEF Contract!Next
<1>9. CASE UNCHANGED vars
  BY <1>9 DEF vars, Contract!ioVars
<1> QED
  BY <1>1, <1>2, <1>3, <1>4, <1>5, <1>6, <1>7, <1>8, <1>9 DEF Next, Serve

\* The macOS backend keeps the promises the GPT code relies on: whatever the
\* alignment, a write lands as a growing prefix, nothing else changes, and an
\* answered read is what the device holds.
THEOREM BackendRefines == Spec => KeepsContract
<1>1. MacInit => Contract!Init
  BY DEF MacInit, Init, Ok, Addr, Contract!Init, Contract!Ok, Contract!Addr
<1>2. Spec => []Safe
  BY InitSafe, NextSafe, PTL DEF Spec
<1> QED
  BY <1>1, <1>2, StepRefines, PTL DEF Spec, KeepsContract, Contract!Spec

\* A read-modify-write stores whole blocks, yet no byte outside the caller's
\* range ever changes.
THEOREM Untouched == Spec => OutsideUntouched
<1> DEFINE Kept == \A i \in Addr : disk'[i] # disk[i] =>
                     Serving("write") /\ req.off <= i /\ i < End
<1>1. ASSUME NEW k \in 0 .. req.len, disk' = Contract!Overlay(req.off, req.off + k),
             Serving("write")
      PROVE  Kept
  BY <1>1 DEF Contract!Overlay, Contract!Addr, Contract!End, Addr, End
<1>2. ASSUME disk' = Contract!Overlay(req.off, Contract!End), Serving("write")
      PROVE  Kept
  BY <1>2 DEF Contract!Overlay, Contract!Addr, Contract!End, Addr, End
<1>3. Safe /\ [Next]_vars => [Kept]_vars
  <2> SUFFICES ASSUME Safe, [Next]_vars PROVE Kept
    OBVIOUS
  <2>1. CASE UNCHANGED disk
    BY <2>1
  <2>2. CASE Contract!Store
    BY <1>1, <2>2 DEF Contract!Store, Contract!Serving, Serving
  <2>3. CASE Contract!StoreOk
    BY <1>2, <2>3 DEF Contract!StoreOk, Contract!Serving, Serving
  <2>4. CASE Contract!Fail
    <3>1. CASE req.op = "write"
      BY <1>1, <2>4, <3>1 DEF Contract!Fail, Serving
    <3> QED
      BY <2>1, <2>4, <3>1 DEF Contract!Fail
  <2> QED
    BY <2>1, <2>2, <2>3, <2>4, StepRefines
       DEF Contract!Next, Contract!Submit, Contract!Fetch, Contract!FetchOk, Contract!ioVars
<1>4. Spec => []Safe
  BY InitSafe, NextSafe, PTL DEF Spec
<1> QED
  BY <1>3, <1>4, PTL DEF Spec, OutsideUntouched
=============================================================================
