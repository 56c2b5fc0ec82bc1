----------------------------- MODULE BlockDevice -----------------------------
(***************************************************************************)
(* The interface of sufur-platform's BlockDevice trait: one caller issues  *)
(* reads and writes at byte offsets and waits for each result.  The        *)
(* modules that extend this one say how a request is served: ByteDevice is *)
(* the contract the GPT code relies on, LinuxBlockDevice and               *)
(* MacosBlockDevice are the two implementations.                           *)
(***************************************************************************)
EXTENDS Integers

CONSTANTS Cap,      \* bytes on the device
          Byte,     \* the values a byte takes
          Zero,     \* the byte a fresh buffer is filled with
          Requests  \* the <<offset, length>> pairs callers ask for

ASSUME DeviceAssumption ==
  /\ Cap \in Nat \ {0}
  /\ Zero \in Byte
  /\ Requests \subseteq Nat \X Nat

VARIABLES disk,  \* contents of the device
          req,   \* the request being served, or the last one served
          buf,   \* the caller's buffer: written from, or read into
          res    \* its outcome; "pending" while it is being served

ioVars == <<disk, req, buf, res>>

Addr     == 0 .. Cap - 1
Failures == {"io", "einval"}

Larger(a, b)  == IF a >= b THEN a ELSE b
Smaller(a, b) == IF a <= b THEN a ELSE b

\* First byte after the requested range.
End == req.off + req.len

\* Bytes of the requested range that exist on the device.
Available == Smaller(req.len, Larger(0, Cap - req.off))

Serving(op) == res.st = "pending" /\ req.op = op
Pending     == [st |-> "pending", n |-> 0]
Ok(n)       == [st |-> "ok", n |-> n]
Err(e)      == [st |-> e, n |-> 0]

\* disk with the bytes lo .. hi-1 of the requested range taken from buf.
Overlay(lo, hi) ==
  [i \in Addr |-> IF lo <= i /\ i < hi /\ req.off <= i /\ i < End
                  THEN buf[i - req.off] ELSE disk[i]]

\* buf with the device's bytes lo .. hi-1 copied to their place in it.
Filled(lo, hi) ==
  [j \in 0 .. req.len - 1 |->
     IF lo <= req.off + j /\ req.off + j < hi /\ req.off + j < Cap
     THEN disk[req.off + j] ELSE buf[j]]

Init ==
  /\ disk \in [Addr -> Byte]
  /\ req = [op |-> "read", off |-> 0, len |-> 0]
  /\ buf = [i \in 0 .. -1 |-> Zero]
  /\ res = Ok(0)

\* The caller passes a buffer to dev.read or dev.write.
Submit(op, off, len) ==
  /\ res.st # "pending"
  /\ <<off, len>> \in Requests
  /\ req' = [op |-> op, off |-> off, len |-> len]
  /\ IF op = "read" THEN buf' = [i \in 0 .. len - 1 |-> Zero]
                    ELSE buf' \in [0 .. len - 1 -> Byte]
  /\ res' = Pending
  /\ UNCHANGED disk

RequestOK ==
  /\ disk \in [Addr -> Byte]
  /\ req \in [op : {"read", "write"}, off : Nat, len : Nat]
  /\ buf \in [0 .. req.len - 1 -> Byte]
  /\ res \in [st : {"pending", "ok"} \cup Failures, n : Nat]
=============================================================================
