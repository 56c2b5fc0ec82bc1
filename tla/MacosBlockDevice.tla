--------------------------- MODULE MacosBlockDevice ---------------------------
(***************************************************************************)
(* sufur-macos/src/blockdev.rs: MacosBlockDevice over a raw /dev/rdiskN.   *)
(* The device refuses any transfer that is not made of whole blocks, so a  *)
(* request off block boundaries is served block by block: load the block,  *)
(* merge the caller's bytes, store the block back.  Each file operation is *)
(* a step of its own and may fail; a store that fails leaves any prefix of *)
(* what it was given.  The handle has one user: nothing else moves disk.   *)
(***************************************************************************)
EXTENDS BlockDevice

CONSTANTS BlockSize,  \* self.block_size: what query_block_size found, or 512
          DevBlock    \* the transfer unit the device insists on

ASSUME BlockAssumption ==
  /\ BlockSize \in Nat \ {0}
  /\ DevBlock \in Nat \ {0}

VARIABLES pc,     \* "fast" and "block": in the loops; "merge": block_buf ready
          at,     \* block_start of the block the slow path is at
          blk,    \* block_buf
          total   \* bytes the loop has moved to or from the caller's buffer

vars == <<disk, req, buf, res, pc, at, blk, total>>
loop == <<pc, at, blk, total>>

Zeroed == [j \in 0 .. BlockSize - 1 |-> Zero]

\* The caller's bytes that lie in the block at hand.
DataStart == Larger(at, req.off)
DataEnd   == Smaller(at + BlockSize, End)
Partial   == DataEnd - DataStart < BlockSize

\* Mutant: the loop forgets to move on.
NextBlockStuck == at

\* block_idx moves on.
NextBlock == at + BlockSize

\* Mutant: the existing block is not read back.
BlockOnDiskUnread == Zeroed

\* What reading the block at hand gives: zeros past the end of the device.
BlockOnDisk ==
  [j \in 0 .. BlockSize - 1 |-> IF at + j < Cap THEN disk[at + j] ELSE Zero]

\* Mutant: buf_off left out, every block takes the caller's first bytes.
MergedNoBufOff(n) ==
  [i \in Addr |-> IF at <= i /\ i < at + n
                  THEN IF DataStart <= i /\ i < DataEnd THEN buf[i - DataStart]
                                                        ELSE blk[i - at]
                  ELSE disk[i]]

\* disk after the first n bytes of the merged block are stored at `at`.
Merged(n) ==
  [i \in Addr |-> IF at <= i /\ i < at + n
                  THEN IF DataStart <= i /\ i < DataEnd THEN buf[i - req.off]
                                                        ELSE blk[i - at]
                  ELSE disk[i]]

\* A transfer the device answers with EINVAL.
Refused(off, len) == off % DevBlock # 0 \/ len % DevBlock # 0

\* Mutant: the length is not looked at.
FastPathOffsetOnly(off, len) == off % BlockSize = 0

FastPath(off, len) == off % BlockSize = 0 /\ len % BlockSize = 0

Return(r) == /\ res' = r
             /\ pc' = "idle"
             /\ UNCHANGED <<req, at, blk, total>>

MacInit ==
  /\ Init
  /\ pc = "idle" /\ at = 0 /\ blk = Zeroed /\ total = 0

Call(op, off, len) ==
  /\ Submit(op, off, len)
  /\ pc' = IF FastPath(off, len) THEN "fast" ELSE "block"
  /\ at' = (off \div BlockSize) * BlockSize
  /\ blk' = Zeroed
  /\ total' = 0

\* The device moves n bytes, in whole units and inside its capacity.
Transfer(n) ==
  /\ pc = "fast"
  /\ ~Refused(req.off, req.len)
  /\ n \in 1 .. req.len - total
  /\ n % DevBlock = 0
  /\ req.off + total + n <= Cap
  /\ total' = total + n
  /\ UNCHANGED <<req, res, pc, at, blk>>

FastRead(n) ==
  /\ Serving("read")
  /\ Transfer(n)
  /\ buf' = Filled(req.off + total, req.off + total + n)
  /\ UNCHANGED disk

\* The read loop ends when the buffer is full or the file gives no more.
FastReadEnd ==
  /\ Serving("read") /\ pc = "fast"
  /\ ~Refused(req.off, req.len)
  /\ total = req.len \/ req.off + total >= Cap
  /\ Return(Ok(total))
  /\ UNCHANGED <<disk, buf>>

\* One round of write_all.
FastWrite(n) ==
  /\ Serving("write")
  /\ Transfer(n)
  /\ disk' = Overlay(req.off + total, req.off + total + n)
  /\ UNCHANGED buf

FastWriteEnd ==
  /\ Serving("write") /\ pc = "fast"
  /\ total = req.len
  /\ Return(Ok(req.len))
  /\ UNCHANGED <<disk, buf>>

\* Mutants: the request's end, or what the read got, left out of the count.
CopyLenWholeBlock == Larger(0, Smaller(at + BlockSize, Cap) - DataStart)
CopyLenUnclipped == DataEnd - DataStart

CopyLen ==
  Smaller(DataEnd - DataStart, Larger(0, Smaller(at + BlockSize, Cap) - DataStart))

ReadBlock ==
  /\ Serving("read") /\ pc = "block"
  /\ at < End /\ ~Refused(at, BlockSize) /\ CopyLen > 0
  /\ buf' = Filled(DataStart, DataStart + CopyLen)
  /\ total' = total + CopyLen
  /\ at' = NextBlock
  /\ UNCHANGED <<disk, req, res, pc, blk>>

ReadEnd ==
  /\ Serving("read") /\ pc = "block"
  /\ at >= End \/ (~Refused(at, BlockSize) /\ CopyLen = 0)
  /\ Return(Ok(total))
  /\ UNCHANGED <<disk, buf>>

\* Read the existing block, unless the caller overwrites all of it.
LoadBlock ==
  /\ Serving("write") /\ pc = "block"
  /\ at < End
  /\ Partial => ~Refused(at, BlockSize)
  /\ blk' = IF Partial THEN BlockOnDisk ELSE blk
  /\ pc' = "merge"
  /\ UNCHANGED <<disk, req, buf, res, at, total>>

StoreBlock ==
  /\ Serving("write") /\ pc = "merge"
  /\ ~Refused(at, BlockSize) /\ at + BlockSize <= Cap
  /\ disk' = Merged(BlockSize)
  /\ at' = NextBlock
  /\ pc' = "block"
  /\ UNCHANGED <<req, buf, res, blk, total>>

WriteEnd ==
  /\ Serving("write") /\ pc = "block"
  /\ at >= End
  /\ Return(Ok(req.len))
  /\ UNCHANGED <<disk, buf>>

\* The device refuses what the loop asks for next: the caller's range, or a block.
RefusedNow == IF pc = "fast" THEN Refused(req.off, req.len) ELSE Refused(at, BlockSize)

\* A seek, read or write returns an error, which `?` hands to the caller.
IoError ==
  /\ pc # "idle"
  /\ res' = Err(IF RefusedNow THEN "einval" ELSE "io")
  /\ pc' = "idle"
  /\ \/ UNCHANGED disk
     \/ pc = "merge" /\ ~RefusedNow /\ \E n \in 1 .. BlockSize : disk' = Merged(n)
     \/ /\ Serving("write") /\ pc = "fast" /\ ~RefusedNow
        /\ \E n \in total + 1 .. req.len : disk' = Overlay(req.off, req.off + n)
  /\ UNCHANGED <<req, buf, at, blk, total>>

Serve ==
  \/ \E n \in 1 .. req.len : FastRead(n) \/ FastWrite(n)
  \/ FastReadEnd \/ FastWriteEnd
  \/ ReadBlock \/ ReadEnd
  \/ LoadBlock \/ StoreBlock \/ WriteEnd
  \/ IoError

Next ==
  \/ \E op \in {"read", "write"}, r \in Requests : Call(op, r[1], r[2])
  \/ Serve

Spec == MacInit /\ [][Next]_vars

\* Each file operation the loops wait for returns, so the loops keep running.
FairSpec == Spec /\ WF_vars(Serve)

-----------------------------------------------------------------------------
\* The variables have their types and no loop runs past the caller's buffer.
TypeOK ==
  /\ RequestOK
  /\ pc \in {"idle", "fast", "block", "merge"}
  /\ at \in Nat
  /\ blk \in [0 .. BlockSize - 1 -> Byte]
  /\ total \in 0 .. req.len
  /\ pc = "idle" <=> res.st # "pending"

\* The fast loops have moved exactly the first `total` bytes.
FastOK ==
  pc = "fast" =>
    /\ FastPath(req.off, req.len)
    /\ req.off + total <= Cap \/ total = 0
    /\ \A j \in 0 .. total - 1 : disk[req.off + j] = buf[j]

\* The slow loops have done every byte of the request below the block at hand.
SlowOK ==
  pc \in {"block", "merge"} =>
    /\ at % BlockSize = 0 /\ req.off < at + BlockSize
    /\ at <= req.off \/ req.op = "read" \/ at <= Cap
    /\ req.op = "read" =>
         total = Larger(0, Smaller(Smaller(at, End), Cap) - req.off)
    /\ \A i \in Addr : req.off <= i /\ i < at /\ i < End => disk[i] = buf[i - req.off]

\* A block about to be stored holds the device's own bytes wherever the caller
\* has none: what was loaded is still what the device holds.
LoadedIsFresh ==
  pc = "merge" => /\ req.op = "write" /\ at < End
                  /\ Partial => blk = BlockOnDisk

IInv == TypeOK /\ FastOK /\ SlowOK /\ LoadedIsFresh

\* The device never answers EINVAL, however the caller's range is aligned, as long as
\* query_block_size found a block of whole units: the code sends a transfer directly
\* only if offset and length are whole blocks, and else one block after the other.
NeverRefused == BlockSize % DevBlock = 0 => res.st # "einval"

\* No step changes a byte the caller did not ask to write, although every
\* unaligned write stores back bytes that are not its own.
OutsideUntouched ==
  [][\A i \in Addr : disk'[i] # disk[i] =>
       Serving("write") /\ req.off <= i /\ i < End]_vars

\* Reads and writes keep the promises of the BlockDevice trait.
Contract == INSTANCE ByteDevice
KeepsContract == Contract!Spec

\* Every call returns: the block loop reaches its end or an error.
Returns == res.st = "pending" ~> res.st # "pending"
=============================================================================
