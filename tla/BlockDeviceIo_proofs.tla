------------------------- MODULE BlockDeviceIo_proofs -------------------------
(***************************************************************************)
(* Proofs about BlockDeviceIo: for every size of the device, width of the  *)
(* position and set of requests it keeps its position in range and is the  *)
(* file gptman takes it for.                                               *)
(***************************************************************************)
EXTENDS BlockDeviceIo, TLAPS

\* What a successful answer of the device says, until the adapter hands it on: how
\* many bytes, and that those of the buffer and of the device agree.
Answered ==
  (calling /\ res.st = "ok") =>
    /\ res.n = (IF req.op = "read" THEN Available ELSE req.len)
    /\ \A j \in 0 .. res.n - 1 : req.off + j < Cap /\ buf[j] = disk[req.off + j]

\* The inductive invariant.
IInv == TypeOK /\ req.len <= Top /\ Answered

-----------------------------------------------------------------------------
\* The numbers are numbers, and the position is at least three values wide.
LEMMA Naturals ==
  ASSUME IInv
  PROVE  /\ Cap \in Nat \ {0} /\ Top \in Nat \ {0} /\ Cap <= Top
         /\ req.off \in Nat /\ req.len \in Nat /\ pos \in 0 .. Top /\ res.n \in Nat
BY DeviceAssumption, WidthAssumption DEF IInv, TypeOK, RequestOK, U64

\* The halves of the signed range.
LEMMA Half ==
  /\ (Top + 1) \div 2 \in Nat /\ (Top + 1) \div 2 <= Top
  /\ (Top - 1) \div 2 \in Nat /\ (Top - 1) \div 2 <= Top
BY DeviceAssumption, WidthAssumption

\* The bytes a read finds are a prefix of the request, up to the end of the device.
LEMMA AvailableRange ==
  ASSUME Cap \in Nat, req.off \in Nat, req.len \in Nat
  PROVE  /\ Available \in 0 .. req.len
         /\ Available > 0 => req.off + Available <= Cap
         /\ Available < req.len => req.off + Available >= Cap
BY DEF Available, Larger, Smaller

\* The position in 0 .. Top that is closest to n: n itself, or the end it is beyond.
Clamp(n) == IF n < 0 THEN 0 ELSE IF n > Top THEN Top ELSE n

\* Whatever saturating_add and saturating_sub do, the sum is clamped.
LEMMA MovedIsClamp ==
  ASSUME NEW from \in U64, NEW offset \in I64
  PROVE  Moved(from, offset) = Clamp(from + offset)
<1>1. Top \in Nat /\ from \in Int /\ from >= 0 /\ from <= Top /\ offset \in Int
  BY WidthAssumption, Half DEF U64, I64
<1>2. CASE offset >= 0
  BY <1>1, <1>2 DEF Moved, SaturatingAdd, Smaller, Clamp
<1>3. CASE offset < 0
  <2>1. -offset \in 0 .. Top
    BY <1>1, <1>3, Half DEF I64
  <2>2. Magnitude(offset) = -offset
    BY <1>1, <2>1 DEF Magnitude
  <2> QED
    BY <1>1, <1>3, <2>2 DEF Moved, SaturatingSub, Larger, Clamp
<1> QED
  BY <1>1, <1>2, <1>3

\* A seek lands on the clamped distance from its origin.
LEMMA TargetIsClamp ==
  ASSUME IInv
  PROVE  /\ \A n \in U64 : Target(SeekFrom("start", n)) = Clamp(n)
         /\ \A n \in I64 : /\ Target(SeekFrom("end", n)) = Clamp(Cap + n)
                           /\ Target(SeekFrom("current", n)) = Clamp(pos + n)
<1>1. Cap \in U64 /\ pos \in U64
  BY Naturals DEF U64
<1>2. ASSUME NEW n \in U64 PROVE Target(SeekFrom("start", n)) = Clamp(n)
  BY WidthAssumption DEF Target, SeekFrom, Clamp, U64
<1>3. ASSUME NEW n \in I64
      PROVE  /\ Target(SeekFrom("end", n)) = Clamp(Cap + n)
             /\ Target(SeekFrom("current", n)) = Clamp(pos + n)
  BY <1>1, MovedIsClamp DEF Target, SeekFrom
<1> QED
  BY <1>2, <1>3

\* A clamped number is a position.
LEMMA ClampRange == ASSUME NEW n \in Int PROVE Clamp(n) \in U64
BY WidthAssumption DEF Clamp, U64

-----------------------------------------------------------------------------
\* Initially nothing is asked.
LEMMA InitSafe == IoInit => IInv
<1> SUFFICES ASSUME IoInit PROVE IInv
  OBVIOUS
<1>1. TypeOK
  <2>1. /\ disk \in [Addr -> Byte] /\ req = [op |-> "read", off |-> 0, len |-> 0]
        /\ buf = [i \in 0 .. -1 |-> Zero] /\ res = [st |-> "ok", n |-> 0]
        /\ pos = 0 /\ sought = NoSeek /\ reply = [st |-> "ok", n |-> 0]
    BY DEF IoInit, Init, Ok
  <2>2. RequestOK
    BY <2>1, DeviceAssumption DEF RequestOK
  <2>3. pos \in U64 /\ reply.n \in U64
    BY <2>1, WidthAssumption DEF U64
  <2>4. calling = FALSE
    BY DEF IoInit
  <2> QED
    BY <2>1, <2>2, <2>3, <2>4, Zenon DEF TypeOK
<1>2. req.len <= Top
  BY WidthAssumption DEF IoInit, Init
<1>3. Answered
  BY DEF IoInit, Answered
<1> QED
  BY <1>1, <1>2, <1>3 DEF IInv

\* A request passed on is one of a length that fits.
LEMMA TransferSafe ==
  ASSUME IInv, NEW op \in {"read", "write"}, NEW len, Transfer(op, len)
  PROVE  IInv'
<1>1. pos \in Nat /\ len \in Nat /\ len <= Top
  BY DeviceAssumption, WidthAssumption, Naturals DEF Transfer, Submit
<1>2. buf' \in [0 .. len - 1 -> Byte]
  BY DeviceAssumption DEF Transfer, Submit
<1>3. TypeOK'
  BY <1>1, <1>2 DEF Transfer, Submit, IInv, TypeOK, RequestOK, Pending
<1>4. req'.len <= Top
  BY <1>1 DEF Transfer, Submit
<1>5. Answered'
  BY DEF Transfer, Submit, Pending, Answered
<1> QED
  BY <1>3, <1>4, <1>5 DEF IInv

\* The device's steps keep the request, and its answer is about the bytes there are.
LEMMA DeviceSafe ==
  ASSUME IInv, Device
  PROVE  IInv'
<1>1. UNCHANGED <<req, pos, calling, sought, reply>> /\ res.st = "pending"
  BY DEF Device, adapter, Store, StoreOk, Fetch, FetchOk, Fail, Serving
<1>2. ASSUME NEW k \in 0 .. req.len PROVE Overlay(req.off, req.off + k) \in [Addr -> Byte]
  BY Naturals DEF Overlay, IInv, TypeOK, RequestOK, Addr, End
<1>3. disk' \in [Addr -> Byte] /\ buf' \in [0 .. req.len - 1 -> Byte]
  BY <1>2, Naturals DEF Device, Store, StoreOk, Fetch, FetchOk, Fail, End,
                        IInv, TypeOK, RequestOK
<1>4. res' \in [st : {"pending", "ok"} \cup Failures, n : Nat]
  BY AvailableRange, Naturals DEF Device, Store, StoreOk, Fetch, FetchOk, Fail, Ok, Err,
                        IInv, TypeOK, RequestOK
<1>5. calling
  BY DEF Device
<1>6. RequestOK'
  BY <1>1, <1>3, <1>4 DEF IInv, TypeOK, RequestOK
<1>7. TypeOK'
  BY <1>1, <1>5, <1>6 DEF IInv, TypeOK, NoSeek
<1>8. ASSUME res'.st = "ok"
      PROVE  /\ res'.n = (IF req.op = "read" THEN Available ELSE req.len)
             /\ \A j \in 0 .. res'.n - 1 : req.off + j < Cap /\ buf'[j] = disk'[req.off + j]
  <2>1. CASE StoreOk
    <3>1. /\ req.op = "write" /\ res'.n = req.len /\ buf' = buf
          /\ disk' = Overlay(req.off, End) /\ (End <= Cap \/ req.len = 0)
      BY <2>1 DEF StoreOk, Serving, Ok
    <3>2. ASSUME NEW j \in 0 .. req.len - 1
          PROVE  req.off + j < Cap /\ buf[j] = disk'[req.off + j]
      <4>1. /\ req.off + j \in Addr /\ req.off <= req.off + j /\ req.off + j < End
            /\ (req.off + j) - req.off = j /\ req.off + j < Cap
        BY <3>1, Naturals DEF Addr, End
      <4> QED
        BY <3>1, <4>1 DEF Overlay
    <3> QED
      BY <3>1, <3>2
  <2>2. CASE FetchOk
    <3>1. /\ req.op = "read" /\ res'.n = Available /\ disk' = disk
          /\ \A j \in 0 .. Available - 1 : buf'[j] = disk[req.off + j]
      BY <2>2 DEF FetchOk, Serving, Ok
    <3>2. ASSUME NEW j \in 0 .. Available - 1 PROVE req.off + j < Cap
      BY AvailableRange, Naturals
    <3> QED
      BY <3>1, <3>2
  <2>3. CASE Store \/ Fetch \/ Fail
    BY <1>1, <1>8, <2>3 DEF Store, Fetch, Fail, Err, Failures
  <2> QED
    BY <2>1, <2>2, <2>3 DEF Device
<1>9. Answered'
  BY <1>1, <1>8 DEF Answered, Available, Larger, Smaller
<1> QED
  BY <1>1, <1>7, <1>9 DEF IInv

\* The position stays on the device's side of Top, or where it was.
LEMMA ReturnSafe ==
  ASSUME IInv, TransferOk \/ TransferErr
  PROVE  IInv'
<1>1. calling' = FALSE /\ UNCHANGED <<disk, req, buf, res, sought>> /\ res.st # "pending"
  BY DEF TransferOk, TransferErr, ioVars, Failures
<1>2. pos' \in U64 /\ reply'.st \in {"ok", "error"} /\ reply'.n \in U64
  <2>1. CASE TransferErr
    BY <2>1, WidthAssumption DEF TransferErr, Err, U64, IInv, TypeOK
  <2>2. CASE TransferOk
    <3>1. calling /\ res.st = "ok" /\ pos' = pos + res.n /\ reply' = res
      BY <2>2 DEF TransferOk, Advanced
    <3>2. req.off = pos /\ \A j \in 0 .. res.n - 1 : req.off + j < Cap
      BY <3>1 DEF IInv, TypeOK, Answered
    <3>3. res.n > 0 => pos + (res.n - 1) < Cap
      BY <3>2, Naturals
    <3> QED
      BY <3>1, <3>3, Naturals DEF U64
  <2> QED
    BY <2>1, <2>2
<1>3. RequestOK'
  BY <1>1 DEF IInv, TypeOK, RequestOK
<1>4. sought' \in {NoSeek} \cup [whence : {"start"}, n : U64]
                           \cup [whence : {"end", "current"}, n : I64]
  BY <1>1 DEF IInv, TypeOK
<1>5. res'.st # "pending" /\ req'.len <= Top
  BY <1>1 DEF IInv
<1>6. TypeOK'
  BY <1>1, <1>2, <1>3, <1>4, <1>5, Zenon DEF TypeOK
<1>7. Answered'
  BY <1>1, Zenon DEF Answered
<1> QED
  BY <1>5, <1>6, <1>7 DEF IInv

\* A seek lands on a position.
LEMMA SeekSafe ==
  ASSUME IInv, NEW seek \in [whence : {"start"}, n : U64]
                              \cup [whence : {"end", "current"}, n : I64],
         Target(seek) \in U64, Seek(seek)
  PROVE  IInv'
<1>1. UNCHANGED <<disk, req, buf, res, calling>> /\ calling = FALSE
  BY DEF Seek, ioVars, IInv, TypeOK
<1>2. pos' \in U64 /\ reply' = [st |-> "ok", n |-> pos'] /\ sought' = seek
  BY DEF Seek, Ok
<1>3. RequestOK'
  BY <1>1 DEF IInv, TypeOK, RequestOK
<1>4. res'.st # "pending" /\ req'.len <= Top
  BY <1>1 DEF IInv, TypeOK
<1>5. reply'.st \in {"ok", "error"} /\ reply'.n \in U64
  BY <1>2
<1>6. TypeOK'
  BY <1>1, <1>2, <1>3, <1>4, <1>5, Zenon DEF TypeOK
<1>7. Answered'
  BY <1>1, Zenon DEF Answered
<1> QED
  BY <1>4, <1>6, <1>7 DEF IInv

\* What a seek may be told, and where it leads.
LEMMA SeekTargets ==
  ASSUME IInv
  PROVE  /\ \A p \in U64 : /\ SeekFrom("start", p) \in [whence : {"start"}, n : U64]
                           /\ Target(SeekFrom("start", p)) \in U64
         /\ \A offset \in I64, w \in {"end", "current"} :
              /\ SeekFrom(w, offset) \in [whence : {"end", "current"}, n : I64]
              /\ Target(SeekFrom(w, offset)) \in U64
<1>1. U64 \subseteq Int /\ I64 \subseteq Int /\ Cap \in Int /\ pos \in Int
  BY Half, Naturals DEF U64, I64
<1>2. ASSUME NEW p \in U64 PROVE Target(SeekFrom("start", p)) \in U64
  BY <1>1, TargetIsClamp, ClampRange
<1>3. ASSUME NEW n \in I64
      PROVE  Target(SeekFrom("end", n)) \in U64 /\ Target(SeekFrom("current", n)) \in U64
  <2>1. Clamp(Cap + n) \in U64 /\ Clamp(pos + n) \in U64
    BY <1>1, ClampRange
  <2> QED
    BY <2>1, TargetIsClamp
<1> QED
  BY <1>2, <1>3 DEF SeekFrom

\* Every step keeps IInv.
LEMMA NextSafe == IInv /\ [AdapterNext]_vars => IInv'
<1> SUFFICES ASSUME IInv, [AdapterNext]_vars PROVE IInv'
  OBVIOUS
<1>1. ASSUME NEW op \in {"read", "write"}, NEW len \in Lengths, Transfer(op, len)
      PROVE  IInv'
  BY <1>1, TransferSafe
<1>2. CASE Device
  BY <1>2, DeviceSafe
<1>3. CASE TransferOk \/ TransferErr
  BY <1>3, ReturnSafe
<1>4. ASSUME NEW p \in U64, Seek(SeekFrom("start", p)) PROVE IInv'
  BY <1>4, SeekTargets, SeekSafe
<1>5. ASSUME NEW offset \in I64, NEW w \in {"end", "current"}, Seek(SeekFrom(w, offset))
      PROVE  IInv'
  BY <1>5, SeekTargets, SeekSafe
<1>6. CASE UNCHANGED vars
  <2>1. /\ UNCHANGED <<disk, req, buf, res>>
        /\ UNCHANGED <<pos, calling, sought, reply>>
    BY <1>6 DEF vars
  <2>2. TypeOK' /\ req'.len <= Top
    BY <2>1 DEF IInv, TypeOK, RequestOK
  <2>3. Answered'
    BY <2>1 DEF IInv, Answered, Available
  <2> QED
    BY <2>2, <2>3 DEF IInv
<1> QED
  BY <1>1, <1>2, <1>3, <1>4, <1>5, <1>6 DEF AdapterNext

\* The adapter's variables have their types, whatever the device answers, and it
\* hands on only answers that tell what is on the device.
THEOREM AdapterSafe == AdapterSpec => []IInv
<1> QED
  BY InitSafe, NextSafe, PTL DEF AdapterSpec

\* The position never leaves the 64 bits, and while a call is in progress its request
\* is at the position.
THEOREM TypesKept == AdapterSpec => []TypeOK
<1>1. IInv => TypeOK
  BY DEF IInv
<1> QED
  BY <1>1, AdapterSafe, PTL
-----------------------------------------------------------------------------
\* A square grows with the number squared.
LEMMA Squares ==
  ASSUME NEW a \in Nat, NEW b \in Nat, a < b
  PROVE  a * a < b * b
<1>1. PICK d \in Nat : b = a + d /\ d > 0
  <2>1. b - a \in Nat /\ b = a + (b - a) /\ b - a > 0
    OBVIOUS
  <2> QED
    BY <2>1
<1>2. b * b = a * a + 2 * (a * d) + d * d
  BY <1>1
<1>3. a * d >= 0 /\ d * d > 0
  BY <1>1
<1> QED
  BY <1>2, <1>3

\* The clamped number is closer than any other position.
LEMMA ClampIsNearer ==
  ASSUME NEW n \in Int, NEW q \in 0 .. Top, q # Clamp(n)
  PROVE  (Clamp(n) - n) * (Clamp(n) - n) < (q - n) * (q - n)
<1>1. Top \in Nat /\ q \in Int
  BY WidthAssumption
<1>2. CASE n < 0
  <2>1. -n \in Nat /\ q - n \in Nat /\ -n < q - n /\ Clamp(n) = 0
    BY <1>1, <1>2 DEF Clamp
  <2>2. (-n) * (-n) < (q - n) * (q - n)
    BY <2>1, Squares
  <2> QED
    BY <2>1, <2>2
<1>3. CASE n > Top
  <2>1. n - Top \in Nat /\ n - q \in Nat /\ n - Top < n - q /\ Clamp(n) = Top
    BY <1>1, <1>3 DEF Clamp
  <2>2. (n - Top) * (n - Top) < (n - q) * (n - q)
    BY <2>1, Squares
  <2>3. /\ (Top - n) * (Top - n) = (n - Top) * (n - Top)
        /\ (q - n) * (q - n) = (n - q) * (n - q)
    BY <1>1
  <2> QED
    BY <2>1, <2>2, <2>3
<1>4. CASE n \in 0 .. Top
  <2>1. Clamp(n) = n /\ q # n
    BY <1>1, <1>4 DEF Clamp
  <2>2. (q - n) * (q - n) > 0
    BY <1>1, <2>1
  <2> QED
    BY <2>1, <2>2
<1> QED
  BY <1>1, <1>2, <1>3, <1>4

\* So it is the nearest position, and the only one.
LEMMA NearestIsClamp == ASSUME NEW n \in Int PROVE File!Nearest(n) = Clamp(n)
<1> DEFINE near(p) == \A q \in 0 .. Top : (p - n) * (p - n) <= (q - n) * (q - n)
<1>1. Clamp(n) \in 0 .. Top /\ Top \in Nat
  BY ClampRange, WidthAssumption DEF U64
<1>2. near(Clamp(n))
  <2> SUFFICES ASSUME NEW q \in 0 .. Top
               PROVE  (Clamp(n) - n) * (Clamp(n) - n) <= (q - n) * (q - n)
    OBVIOUS
  <2>1. CASE q = Clamp(n)
    BY <1>1, <2>1
  <2>2. CASE q # Clamp(n)
    BY <1>1, <2>2, ClampIsNearer
  <2> QED
    BY <2>1, <2>2
<1>3. ASSUME NEW p \in 0 .. Top, near(p) PROVE p = Clamp(n)
  <2> SUFFICES ASSUME p # Clamp(n) PROVE FALSE
    OBVIOUS
  <2>1. (Clamp(n) - n) * (Clamp(n) - n) < (p - n) * (p - n)
    BY ClampIsNearer
  <2>2. (p - n) * (p - n) <= (Clamp(n) - n) * (Clamp(n) - n)
    BY <1>1, <1>3
  <2> QED
    BY <1>1, <2>1, <2>2
<1>4. File!Nearest(n) = CHOOSE p \in 0 .. Top : near(p)
  BY DEF File!Nearest, File!Positions
<1> HIDE DEF near
<1> QED
  BY <1>1, <1>2, <1>3, <1>4

-----------------------------------------------------------------------------
\* What the stream knows of the call in progress.
CallNow == IF calling THEN req.op ELSE "none"

\* The stream's buffer is as long as the request.
LEMMA LengthIsLen == IInv => File!Length = req.len
<1> SUFFICES ASSUME IInv PROVE File!Length = req.len
  OBVIOUS
<1>1. DOMAIN buf = 0 .. req.len - 1 /\ req.len \in 0 .. Top
  BY Naturals DEF IInv, TypeOK, RequestOK
<1>2. ASSUME NEW n \in 0 .. Top, DOMAIN buf = 0 .. n - 1
      PROVE  n = req.len
  <2>1. n \in Nat /\ req.len \in Nat
    BY <1>1, WidthAssumption
  <2>2. \A i \in Int : i \in 0 .. n - 1 <=> i \in 0 .. req.len - 1
    BY <1>1, <1>2
  <2>3. n <= req.len
    <3>1. CASE n = 0
      BY <2>1, <3>1
    <3>2. CASE n # 0
      BY <2>1, <2>2, <3>2
    <3> QED
      BY <3>1, <3>2
  <2>4. req.len <= n
    <3>1. CASE req.len = 0
      BY <2>1, <3>1
    <3>2. CASE req.len # 0
      BY <2>1, <2>2, <3>2
    <3> QED
      BY <3>1, <3>2
  <2> QED
    BY <2>1, <2>3, <2>4
<1> QED
  BY <1>1, <1>2 DEF File!Length

\* Handing a buffer to the device begins a transfer of the stream.
LEMMA TransferRefines ==
  ASSUME IInv, NEW op \in {"read", "write"}, NEW len, Transfer(op, len)
  PROVE  File!Begin(op)
<1>1. len \in 0 .. Top
  BY DeviceAssumption, WidthAssumption, Naturals DEF Transfer, Submit
<1>2. buf' \in [0 .. len - 1 -> Byte]
  BY DeviceAssumption DEF Transfer, Submit
<1>3. ~calling /\ calling' /\ req'.op = op
  BY DEF Transfer, Submit
<1>4. CallNow = "none" /\ CallNow' = op
  BY <1>3, Zenon DEF CallNow
<1>5. sought' = [whence |-> "none", n |-> 0] /\ UNCHANGED <<disk, pos, reply>>
  BY DEF Transfer, Submit, NoSeek, SeekFrom
<1> QED
  BY <1>1, <1>2, <1>4, <1>5 DEF File!Begin, File!Positions, File!NoSeek, CallNow

\* A byte the device stores at its place in the request is a byte of the file
\* written at the position.
LEMMA OverlayIsWritten ==
  ASSUME IInv, calling, NEW k \in 0 .. req.len
  PROVE  Overlay(req.off, req.off + k) = File!Written(k)
<1>1. req.off = pos /\ DOMAIN disk = Addr
  BY DEF IInv, TypeOK, RequestOK
<1>2. ASSUME NEW i \in Addr
      PROVE  (req.off <= i /\ i < req.off + k /\ req.off <= i /\ i < End)
               <=> i - pos \in 0 .. k - 1
  BY <1>1, Naturals DEF Addr, End
<1> QED
  BY <1>1, <1>2 DEF Overlay, File!Written

\* While the device serves, the stream makes progress.
LEMMA DeviceRefines ==
  ASSUME IInv, Device
  PROVE  File!Next \/ UNCHANGED File!streamVars
<1>1. calling /\ UNCHANGED <<req, pos, calling, sought, reply>>
  BY DEF Device, adapter, Store, StoreOk, Fetch, FetchOk, Fail
<1>2. CallNow = req.op /\ CallNow' = req.op
  BY <1>1, Zenon DEF CallNow
<1>3. ASSUME req.op = "write", NEW k \in 0 .. req.len,
             disk' = Overlay(req.off, req.off + k), buf' = buf
      PROVE  File!Progress
  <2>1. disk' = File!Written(k)
    BY <1>1, <1>3, OverlayIsWritten
  <2> QED
    BY <1>1, <1>2, <1>3, <2>1, LengthIsLen DEF File!Progress, CallNow
<1>4. CASE Store
  BY <1>3, <1>4 DEF Store, Serving, File!Next
<1>5. CASE StoreOk
  <2>1. req.op = "write" /\ buf' = buf /\ disk' = Overlay(req.off, req.off + req.len)
    BY <1>5 DEF StoreOk, Serving, End
  <2>2. req.len \in 0 .. req.len
    BY Naturals
  <2> QED
    BY <1>3, <2>1, <2>2 DEF File!Next
<1>6. CASE Fetch \/ FetchOk
  <2>1. req.op = "read" /\ disk' = disk /\ buf' \in [DOMAIN buf -> Byte]
    BY <1>6 DEF Fetch, FetchOk, Serving, IInv, TypeOK, RequestOK
  <2> QED
    BY <1>1, <1>2, <2>1 DEF File!Next, File!Progress, CallNow
<1>7. CASE Fail
  <2>1. CASE req.op = "write"
    BY <1>3, <1>7, <2>1 DEF Fail, File!Next
  <2>2. CASE req.op # "write"
    BY <1>1, <1>2, <1>7, <2>2 DEF Fail, File!streamVars, CallNow
  <2> QED
    BY <2>1, <2>2
<1> QED
  BY <1>4, <1>5, <1>6, <1>7 DEF Device

\* A successful answer ends the stream's call: a read with the bytes there are, a
\* write with all of the buffer in the file.
LEMMA ReturnOkRefines ==
  ASSUME IInv, TransferOk
  PROVE  File!ReadEnd \/ File!WriteEnd
<1>1. /\ calling /\ calling' = FALSE /\ res.st = "ok" /\ pos' = pos + res.n /\ reply' = res
      /\ UNCHANGED <<disk, req, buf, sought>>
  BY DEF TransferOk, Advanced, ioVars
<1>2. CallNow = req.op /\ CallNow' = "none"
  BY <1>1, Zenon DEF CallNow
<1>3. res.n = (IF req.op = "read" THEN Available ELSE req.len)
  BY <1>1 DEF IInv, Answered
<1>4. \A j \in 0 .. res.n - 1 : pos + j < Cap /\ buf[j] = disk[pos + j]
  BY <1>1 DEF IInv, TypeOK, Answered
<1>5. reply' = File!Returned(res.n)
  BY <1>1 DEF IInv, TypeOK, RequestOK, File!Returned
<1>6. File!Return(res.n)
  BY <1>1, <1>2, <1>5 DEF File!Return, CallNow
<1>7. CASE req.op = "read"
  <2>1. res.n \in 0 .. req.len /\ (res.n < req.len => pos + res.n >= Cap)
    BY <1>1, <1>3, <1>7, AvailableRange, Naturals DEF IInv, TypeOK
  <2> QED
    BY <1>2, <1>4, <1>6, <1>7, <2>1, LengthIsLen DEF File!ReadEnd, CallNow
<1>8. CASE req.op = "write"
  <2>1. res.n = req.len /\ DOMAIN buf = 0 .. req.len - 1
    BY <1>3, <1>8 DEF IInv, TypeOK, RequestOK
  <2> QED
    BY <1>2, <1>4, <1>6, <1>8, <2>1, LengthIsLen DEF File!WriteEnd, CallNow
<1> QED
  BY <1>7, <1>8 DEF IInv, TypeOK, RequestOK

\* A failure ends it with the position where it was.
LEMMA ReturnErrRefines ==
  ASSUME IInv, TransferErr
  PROVE  File!Fail
<1>1. /\ calling /\ calling' = FALSE /\ reply' = [st |-> "error", n |-> 0]
      /\ UNCHANGED <<disk, req, buf, pos, sought>>
  BY DEF TransferErr, Err, ioVars
<1>2. CallNow = req.op /\ CallNow' = "none"
  BY <1>1, Zenon DEF CallNow
<1>3. req.op # "none"
  BY DEF IInv, TypeOK, RequestOK
<1> QED
  BY <1>1, <1>2, <1>3 DEF File!Fail, CallNow

\* A seek is the stream's, to the nearest position.
LEMMA SeekRefines ==
  ASSUME IInv, NEW w \in {"start", "end", "current"}, NEW n \in -Top .. Top,
         Target(SeekFrom(w, n)) = Clamp(File!Origin(w) + n), Seek(SeekFrom(w, n))
  PROVE  File!Next
<1>1. /\ calling = FALSE /\ calling' = calling /\ sought' = [whence |-> w, n |-> n]
      /\ pos' = Target(SeekFrom(w, n)) /\ reply' = [st |-> "ok", n |-> pos']
      /\ UNCHANGED <<disk, req, buf>>
  BY DEF Seek, SeekFrom, Ok, ioVars, IInv, TypeOK
<1>2. CallNow = "none" /\ CallNow' = CallNow
  BY <1>1, Zenon DEF CallNow
<1>3. File!Origin(w) + n \in Int
  BY Naturals DEF File!Origin
<1>4. pos' = File!Nearest(File!Origin(w) + n)
  BY <1>1, <1>3, NearestIsClamp
<1>5. File!Seek(w, n)
  BY <1>1, <1>2, <1>4 DEF File!Seek, File!Returned, CallNow
<1> QED
  BY <1>5 DEF File!Next

\* Every step is one of the stream.
LEMMA StepRefines == IInv /\ [AdapterNext]_vars => [File!Next]_File!streamVars
<1> SUFFICES ASSUME IInv, [AdapterNext]_vars
             PROVE  File!Next \/ UNCHANGED File!streamVars
  OBVIOUS
<1>1. ASSUME NEW op \in {"read", "write"}, NEW len \in Lengths, Transfer(op, len)
      PROVE  File!Next
  BY <1>1, TransferRefines DEF File!Next
<1>2. CASE Device
  BY <1>2, DeviceRefines
<1>3. CASE TransferOk
  BY <1>3, ReturnOkRefines DEF File!Next
<1>4. CASE TransferErr
  BY <1>4, ReturnErrRefines DEF File!Next
<1>5. ASSUME NEW p \in U64, Seek(SeekFrom("start", p))
      PROVE  File!Next
  <2>1. p \in -Top .. Top /\ File!Origin("start") + p = p
    BY WidthAssumption DEF U64, File!Origin
  <2> QED
    BY <1>5, <2>1, TargetIsClamp, SeekRefines
<1>6. ASSUME NEW offset \in I64, NEW w \in {"end", "current"}, Seek(SeekFrom(w, offset))
      PROVE  File!Next
  <2>1. offset \in -Top .. Top
    BY WidthAssumption, Half DEF I64
  <2>2. Target(SeekFrom(w, offset)) = Clamp(File!Origin(w) + offset)
    BY TargetIsClamp DEF File!Origin
  <2> QED
    BY <1>6, <2>1, <2>2, SeekRefines
<1>7. CASE UNCHANGED vars
  BY <1>7 DEF vars, File!streamVars
<1> QED
  BY <1>1, <1>2, <1>3, <1>4, <1>5, <1>6, <1>7 DEF AdapterNext

\* BlockDeviceIo over any device that keeps the trait's contract is the file of fixed
\* size gptman takes it for: after partial, failed and complete transfers the position
\* is where a file's would be, and a seek beyond either end of the 64 bits lands on
\* the nearest position.
THEOREM AdapterRefines == AdapterSpec => ActsAsFile
<1>1. IoInit => File!Init
  <2> SUFFICES ASSUME IoInit PROVE File!Init
    OBVIOUS
  <2>1. calling = FALSE
    BY DEF IoInit
  <2>2. CallNow = "none"
    BY <2>1, Zenon DEF CallNow
  <2>3. buf = [i \in {} |-> 0]
    BY DEF IoInit, Init
  <2> QED
    BY <2>2, <2>3 DEF IoInit, Init, File!Init, CallNow, Addr, NoSeek, SeekFrom, Ok,
                      File!NoSeek, File!Returned
<1> QED
  BY <1>1, StepRefines, AdapterSafe, PTL DEF AdapterSpec, ActsAsFile, File!Spec
=============================================================================
