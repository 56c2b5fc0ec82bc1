---------------------------- MODULE BlockDeviceIo -----------------------------
(***************************************************************************)
(* sufur-core/src/partition.rs: BlockDeviceIo, which gives gptman a Read + *)
(* Write + Seek value over a BlockDevice.  The device is any that keeps    *)
(* the contract of ByteDevice, as both backends do; the adapter adds a     *)
(* position, a u64 here of a smaller width.                                *)
(***************************************************************************)
EXTENDS ByteDevice

CONSTANT Top   \* the largest u64; i64 reaches from -(Top+1)/2 to (Top-1)/2

\* The length of a buffer is a number of 64 bits too.
ASSUME WidthAssumption ==
  /\ Top \in Nat /\ Cap <= Top /\ Top % 2 = 1
  /\ \A r \in Requests : r[2] <= Top

VARIABLES pos,     \* BlockDeviceIo.pos
          calling, \* gptman waits for a read or write to return
          sought,  \* the SeekFrom of its last call, if that was a seek
          reply    \* what its last call returned

adapter == <<pos, calling, sought, reply>>
vars    == <<disk, req, buf, res, pos, calling, sought, reply>>

U64 == 0 .. Top
I64 == -((Top + 1) \div 2) .. (Top - 1) \div 2

Lengths == {r[2] : r \in Requests}

SeekFrom(w, n) == [whence |-> w, n |-> n]
NoSeek == SeekFrom("none", 0)

IoInit == Init /\ pos = 0 /\ calling = FALSE /\ sought = NoSeek /\ reply = Ok(0)

\* read and write pass the caller's buffer on, at the position.
Transfer(op, len) ==
  /\ ~calling /\ calling' = TRUE /\ sought' = NoSeek
  /\ Submit(op, pos, len)
  /\ UNCHANGED <<pos, reply>>

\* The device serves the request.
Device == calling /\ (Store \/ StoreOk \/ Fetch \/ FetchOk \/ Fail) /\ UNCHANGED adapter

\* Mutant: the position moves by the length of the buffer.
AdvancedByBuffer(p) == p + req.len

\* self.pos += n
Advanced(p) == p + res.n

TransferOk ==
  /\ calling /\ res.st = "ok"
  /\ calling' = FALSE /\ pos' = Advanced(pos) /\ reply' = res
  /\ UNCHANGED <<ioVars, sought>>

\* map_err and `?`: the position stays.
TransferErr ==
  /\ calling /\ res.st \in Failures
  /\ calling' = FALSE /\ reply' = Err("error")
  /\ UNCHANGED <<ioVars, pos, sought>>

SaturatingAdd(a, b) == Smaller(a + b, Top)

\* Mutant: a plain `-`, as an optimised build computes it.
WrappingSub(a, b) == (a - b) % (Top + 1)

SaturatingSub(a, b) == Larger(a - b, 0)

\* (-offset) as u64; in an optimised build the least i64 is its own negative.
Magnitude(offset) == (-offset) % (Top + 1)

\* SeekFrom::End and SeekFrom::Current, from the size and from the position.
Moved(from, offset) ==
  IF offset >= 0 THEN SaturatingAdd(from, offset)
                 ELSE SaturatingSub(from, Magnitude(offset))

\* Where a seek leads.
Target(seek) ==
  CASE seek.whence = "start"   -> seek.n
    [] seek.whence = "end"     -> Moved(Cap, seek.n)
    [] seek.whence = "current" -> Moved(pos, seek.n)

Seek(seek) ==
  /\ ~calling
  /\ sought' = seek /\ pos' = Target(seek) /\ reply' = Ok(pos')
  /\ UNCHANGED <<ioVars, calling>>

AdapterNext ==
  \/ \E op \in {"read", "write"}, len \in Lengths : Transfer(op, len)
  \/ Device \/ TransferOk \/ TransferErr
  \/ \E p \in U64 : Seek(SeekFrom("start", p))
  \/ \E offset \in I64, w \in {"end", "current"} : Seek(SeekFrom(w, offset))

AdapterSpec == IoInit /\ [][AdapterNext]_vars

-----------------------------------------------------------------------------
\* The variables have their types: no sum or difference leaves the 64 bits.  While
\* a call is in progress the request is at the position.
TypeOK ==
  /\ RequestOK
  /\ pos \in U64 /\ calling \in BOOLEAN
  /\ reply.st \in {"ok", "error"} /\ reply.n \in U64
  /\ calling => req.off = pos
  /\ sought \in {NoSeek} \cup [whence : {"start"}, n : U64]
                           \cup [whence : {"end", "current"}, n : I64]
  /\ ~calling => res.st # "pending"

\* The adapter over a device that keeps its contract is a file of fixed size with
\* a position: offsets it passes, positions it keeps after partial, failed and
\* complete transfers, and seeks beyond either end are those of one stream.
File == INSTANCE Stream WITH call <- IF calling THEN req.op ELSE "none"
ActsAsFile == File!Spec
=============================================================================
