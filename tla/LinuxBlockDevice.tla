--------------------------- MODULE LinuxBlockDevice ---------------------------
(***************************************************************************)
(* sufur-linux/src/blockdev.rs: LinuxBlockDevice over a /dev/sdX file.     *)
(* The kernel takes ranges of any alignment, and may move fewer bytes than *)
(* asked: read loops until the buffer is full or the file ends, write_all  *)
(* until the buffer is written.                                            *)
(***************************************************************************)
EXTENDS BlockDevice

VARIABLES total,  \* bytes the loop has moved
          seeked  \* the file offset is where the request starts

vars == <<disk, req, buf, res, total, seeked>>

LinuxInit == Init /\ total = 0 /\ seeked = FALSE

Call(op, off, len) ==
  /\ Submit(op, off, len)
  /\ total' = 0 /\ seeked' = FALSE

\* self.file.seek
SeekTo ==
  /\ res.st = "pending" /\ ~seeked
  /\ seeked' = TRUE
  /\ UNCHANGED <<disk, req, buf, res, total>>

\* Mutant: the call is given the whole buffer's length each time.
MovedPastBuffer(n) ==
  /\ seeked /\ n \in 1 .. req.len
  /\ req.off + total + n <= Cap
  /\ total' = total + n
  /\ UNCHANGED <<req, res, seeked>>

\* A read or write system call moves n of the bytes still to go.
Moved(n) ==
  /\ seeked /\ n \in 1 .. req.len - total
  /\ req.off + total + n <= Cap
  /\ total' = total + n
  /\ UNCHANGED <<req, res, seeked>>

\* Mutant: every read fills the buffer from its start.
MoreReadAtStart(n) ==
  /\ Serving("read") /\ Moved(n)
  /\ buf' = [j \in 0 .. req.len - 1 |->
               IF j < n THEN disk[req.off + total + j] ELSE buf[j]]
  /\ UNCHANGED disk

MoreRead(n) ==
  /\ Serving("read") /\ Moved(n)
  /\ buf' = Filled(req.off + total, req.off + total + n)
  /\ UNCHANGED disk

MoreWrite(n) ==
  /\ Serving("write") /\ Moved(n)
  /\ disk' = Overlay(req.off + total, req.off + total + n)
  /\ UNCHANGED buf

\* Mutant: the loop is left after the first read.
FinishedEarly == total > 0 \/ req.len = 0 \/ req.off >= Cap

\* Mutant: only a full buffer ends the read.
FinishedFull == total = req.len

\* The read loop ends at a full buffer or the end of the device; write_all ends
\* when everything is written.
Finished ==
  \/ total = req.len
  \/ req.op = "read" /\ req.off + total >= Cap

Return ==
  /\ res.st = "pending" /\ seeked /\ Finished
  /\ res' = Ok(total)
  /\ UNCHANGED <<disk, req, buf, total, seeked>>

\* A system call fails, and `?` returns at once.
IoError ==
  /\ res.st = "pending"
  /\ res' = Err("io")
  /\ UNCHANGED <<disk, req, buf, total, seeked>>

\* The system calls that succeed.
Serve ==
  \/ SeekTo \/ Return
  \/ \E n \in 1 .. req.len : MoreRead(n) \/ MoreWrite(n)

Next ==
  \/ \E op \in {"read", "write"}, r \in Requests : Call(op, r[1], r[2])
  \/ Serve \/ IoError

Spec == LinuxInit /\ [][Next]_vars

\* The system calls the loops make return, and a write that reached the end of
\* the device fails.  Nothing obliges a read to fail.
EndOfDevice == Serving("write") /\ seeked /\ req.off + total >= Cap /\ IoError
FairSpec == Spec /\ WF_vars(Serve) /\ WF_vars(EndOfDevice)

-----------------------------------------------------------------------------
\* The variables have their types and no loop runs past the caller's buffer.
TypeOK == RequestOK /\ total \in 0 .. req.len /\ seeked \in BOOLEAN

\* The loop has moved exactly the first `total` bytes, all of them on the device.
PrefixMoved ==
  /\ ~seeked => total = 0
  /\ req.off + total <= Cap \/ total = 0
  /\ res.st = "pending" => \A j \in 0 .. total - 1 : disk[req.off + j] = buf[j]

IInv == TypeOK /\ PrefixMoved

\* Reads and writes keep the promises of the BlockDevice trait.
Contract == INSTANCE ByteDevice
KeepsContract == Contract!Spec

\* Every call returns, a read at or past the end of the device included.
Returns == res.st = "pending" ~> res.st # "pending"
=============================================================================
