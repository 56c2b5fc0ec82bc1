-------------------------------- MODULE Stream --------------------------------
(***************************************************************************)
(* What gptman may assume of the Read + Write + Seek value it is given: a   *)
(* file of fixed size with a position.  A transfer happens at the position *)
(* and moves it past the bytes transferred, a failed one leaves it where   *)
(* it was; a seek lands at the asked distance from its origin, or at the   *)
(* nearest position there is.  There are no offsets to pass and no         *)
(* requests: those are BlockDeviceIo's affair.                             *)
(***************************************************************************)
EXTENDS Integers

CONSTANTS Cap,   \* bytes in the file
          Top,   \* the last position
          Byte

VARIABLES disk,  \* contents of the file
          pos,   \* the position
          call,  \* the transfer in progress: "none", "read" or "write"
          buf,   \* the caller's buffer
          sought,\* the seek its last call was, from where and how far
          reply  \* what the last call returned

streamVars == <<disk, pos, call, buf, sought, reply>>

Positions == 0 .. Top
Length    == CHOOSE n \in 0 .. Top : DOMAIN buf = 0 .. n - 1
Returned(n) == [st |-> "ok", n |-> n]
NoSeek    == [whence |-> "none", n |-> 0]

\* The position closest to n.
Nearest(n) == CHOOSE p \in Positions : \A q \in Positions : (p - n) * (p - n) <= (q - n) * (q - n)

\* The file with the first k bytes of the buffer at the position.
Written(k) == [i \in DOMAIN disk |-> IF i - pos \in 0 .. k - 1 THEN buf[i - pos] ELSE disk[i]]

Init ==
  /\ disk \in [0 .. Cap - 1 -> Byte] /\ pos = 0
  /\ call = "none" /\ buf = [i \in {} |-> 0] /\ sought = NoSeek /\ reply = Returned(0)

Begin(op) ==
  /\ call = "none" /\ call' = op /\ sought' = NoSeek
  /\ \E n \in Positions : buf' \in [0 .. n - 1 -> Byte]
  /\ UNCHANGED <<disk, pos, reply>>

\* Bytes arrive in the file or in the buffer before the call returns.
Progress ==
  \/ /\ call = "write" /\ \E k \in 0 .. Length : disk' = Written(k)
     /\ UNCHANGED <<pos, call, buf, sought, reply>>
  \/ /\ call = "read" /\ buf' \in [DOMAIN buf -> Byte]
     /\ UNCHANGED <<disk, pos, call, sought, reply>>

Return(n) ==
  /\ call' = "none" /\ reply' = Returned(n) /\ pos' = pos + n
  /\ UNCHANGED <<disk, buf, sought>>

\* A read returns the bytes there are, up to the end of the file.
ReadEnd ==
  /\ call = "read"
  /\ \E n \in 0 .. Length :
       /\ n < Length => pos + n >= Cap
       /\ \A j \in 0 .. n - 1 : pos + j < Cap /\ buf[j] = disk[pos + j]
       /\ Return(n)

\* A write returns when the whole buffer is in the file.
WriteEnd ==
  /\ call = "write"
  /\ \A j \in DOMAIN buf : pos + j < Cap /\ disk[pos + j] = buf[j]
  /\ Return(Length)

Fail ==
  /\ call # "none" /\ call' = "none"
  /\ reply' = [st |-> "error", n |-> 0]
  /\ UNCHANGED <<disk, pos, buf, sought>>

Origin(whence) ==
  CASE whence = "start" -> 0 [] whence = "end" -> Cap [] whence = "current" -> pos

\* A seek to the byte n away from its origin.
Seek(whence, n) ==
  /\ call = "none"
  /\ sought' = [whence |-> whence, n |-> n]
  /\ pos' = Nearest(Origin(whence) + n) /\ reply' = Returned(pos')
  /\ UNCHANGED <<disk, call, buf>>

Next ==
  \/ \E op \in {"read", "write"} : Begin(op)
  \/ Progress \/ ReadEnd \/ WriteEnd \/ Fail
  \/ \E whence \in {"start", "end", "current"}, n \in -Top .. Top : Seek(whence, n)

Spec == Init /\ [][Next]_streamVars
=============================================================================
