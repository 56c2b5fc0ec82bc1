-------------------------- MODULE WipeCommand_proofs --------------------------
(***************************************************************************)
(* Proofs about `sufur wipe <path>`, for any number of processes, names    *)
(* and sticks: which stick is opened, what size its handle has, what is    *)
(* mounted and who else writes, wherever sticks move in between.           *)
(***************************************************************************)
EXTENDS WipeCommand, FiniteSetTheorems, TLAPS

Idents == Names \cup {Key[s] : s \in Sticks} \cup {Model[s] : s \in Sticks}
Bytes  == {0} \cup {Size[s] : s \in Sticks}

\* What an enumeration has looked at, its id not yet read, and what it lists.
Record(ids) == [name : Names, id : ids, size : SUBSET Bytes, stick : Sticks, since : Nat]
LookedAt == Record({""})
Device   == Record(Idents)

\* TypeOK, with what is looked at, listed and chosen in full.
Typed ==
  /\ TypeOK
  /\ at \in [Procs -> LookedAt \cup {Nobody}]
  /\ list \in [Procs -> Seq(Device)]
  /\ id \in [Procs -> Idents \cup {""}]
  /\ dev \in [Procs -> Device \cup {Nobody}]

\* A stick is in one place, and nothing is mounted where none is.
Machine ==
  /\ \A m, n \in Names : slot[m] = slot[n] /\ slot[m] # NoStick => m = n
  /\ \A n \in Names : slot[n] = NoStick => mounted[n] = "no"

\* As long as its name has not changed hands since, the stick that has it is
\* removable, and the size that was read is its own or 0; on macOS it is that of the
\* stick the record is of, wherever the name is.
Looked(d) ==
  d # Nobody =>
    /\ d.since <= moves[d.name]
    /\ d.since = moves[d.name] =>
         slot[d.name] \in Sticks \ Fixed /\ d.size \subseteq SizesOf(slot[d.name])
    /\ Macos => d.size \subseteq SizesOf(d.stick)

\* Its id is the name, or the key or the model of the stick it was read from.
Identified(d) == d # Nobody => d.id \in {d.name, Key[d.stick], Model[d.stick]}

\* What process p has looked at, listed and chosen.
Read(p) ==
  /\ Looked(at[p]) /\ Looked(dev[p]) /\ Identified(dev[p])
  /\ \A i \in DOMAIN list[p] : Looked(list[p][i]) /\ Identified(list[p][i])

\* What p's stage knows of the choice, the mounts and the handle.
Stage(p) ==
  /\ pc[p] \in {"relist", "unmount", "answered", "open", "write"} => listed[p] \in Sticks
  /\ pc[p] \in {"unmount", "answered", "open", "write"} => dev[p] # Nobody /\ dev[p].id = id[p]
  /\ Macos /\ pc[p] \in {"answered", "open", "write"} => mounted[dev[p].name] # "yes"
  /\ handle[p] # NoStick =>
       /\ pc[p] = "write" /\ slot[dev[p].name] = handle[p]
       /\ ~Macos => mounted[dev[p].name] = "no"
       /\ steady[p] => dev[p].size \subseteq SizesOf(handle[p]) /\ handle[p] \notin Fixed

\* The inductive invariant.
IInv == Typed /\ Machine /\ OneWriter /\ \A p \in Procs : Read(p) /\ Stage(p)

-----------------------------------------------------------------------------
\* The bound on the moves of all names bounds those of each.
LEMMA MovesLeft ==
  ASSUME TypeOK, HotplugLeft
  PROVE  \A n \in Names : moves[n] + 1 \in 0 .. MaxHotplug
<1> DEFINE made == {h \in Names \X (1 .. MaxHotplug) : h[2] <= moves[h[1]]}
<1>1. MaxHotplug \in Nat /\ moves \in [Names -> 0 .. MaxHotplug]
  BY WipeAssumption DEF TypeOK
<1>2. IsFiniteSet(1 .. MaxHotplug) /\ Cardinality(1 .. MaxHotplug) = MaxHotplug
  BY <1>1, FS_Interval
<1>3. IsFiniteSet(Names \X (1 .. MaxHotplug))
  BY <1>2, FS_Product, WipeAssumption
<1>4. IsFiniteSet(made)
  BY <1>3, FS_Subset
<1>5. ASSUME NEW n \in Names, moves[n] = MaxHotplug PROVE FALSE
  <2>1. IsFiniteSet({n}) /\ Cardinality({n}) = 1
    BY FS_Singleton
  <2>2. Cardinality({n} \X (1 .. MaxHotplug)) = MaxHotplug
    <3>1. Cardinality({n} \X (1 .. MaxHotplug)) = Cardinality({n}) * Cardinality(1 .. MaxHotplug)
      BY <1>2, <2>1, FS_Product
    <3> QED
      BY <1>1, <1>2, <2>1, <3>1
  <2>3. {n} \X (1 .. MaxHotplug) \subseteq made
    BY <1>1, <1>5
  <2>4. Cardinality({n} \X (1 .. MaxHotplug)) <= Cardinality(made)
    BY <1>4, <2>3, FS_Subset
  <2>5. Cardinality(made) < MaxHotplug
    BY DEF HotplugLeft
  <2>6. Cardinality(made) \in Nat
    BY <1>4, FS_CardinalityType
  <2> QED
    BY <1>1, <2>2, <2>4, <2>5, <2>6
<1> QED
  BY <1>1, <1>5

\* A set of naturals that has a member has a least one.
LEMMA Least ==
  ASSUME NEW T \in SUBSET Nat, T # {}
  PROVE  \E n \in T : \A m \in T : n <= m
<1> DEFINE Less == {ss \in Nat \X Nat : ss[1] < ss[2]}
<1>1. Less = OpToRel(<, Nat)
  BY DEF OpToRel
<1>2. IsWellFoundedOn(Less, Nat)
  BY <1>1, NatLessThanWellFounded
<1>3. PICK x \in T : \A y \in T : <<y, x>> \notin Less
  <2> HIDE DEF Less
  <2> QED
    BY <1>2, WFMin
<1>4. ASSUME NEW y \in T PROVE x <= y
  <2>1. <<y, x>> \notin Less /\ x \in Nat /\ y \in Nat
    BY <1>3
  <2> QED
    BY <2>1
<1> QED
  BY <1>3, <1>4

\* What find() finds in a list is one of its devices.
LEMMA FirstIsOne ==
  ASSUME NEW S, NEW devices \in Seq(S), NEW hits \in SUBSET DOMAIN devices, hits # {}
  PROVE  (CHOOSE i \in hits : \A j \in hits : i <= j) \in hits
<1>1. hits \in SUBSET Nat
  OBVIOUS
<1>2. \E i \in hits : \A j \in hits : i <= j
  BY <1>1, Least
<1> QED
  BY <1>2

\* The device cmd_wipe picks has the path asked for.
LEMMA Picked ==
  ASSUME Typed, NEW p \in Procs
  PROVE  LET found == First(list[p], {i \in DOMAIN list[p] : list[p][i].name = arg[p]})
         IN  found # Nobody =>
               \E i \in DOMAIN list[p] : found = list[p][i] /\ found.name = arg[p]
<1> DEFINE hits == {i \in DOMAIN list[p] : list[p][i].name = arg[p]}
<1>1. list[p] \in Seq(Device)
  BY DEF Typed
<1>2. hits # {} => (CHOOSE i \in hits : \A j \in hits : i <= j) \in hits
  <2> HIDE DEF hits
  <2>1. hits \in SUBSET DOMAIN list[p]
    BY DEF hits
  <2> QED
    BY <1>1, <2>1, FirstIsOne
<1>3. First(list[p], {i \in DOMAIN list[p] : list[p][i].name = arg[p]})
        = IF hits = {} THEN Nobody ELSE list[p][CHOOSE i \in hits : \A j \in hits : i <= j]
  BY DEF First
<1> QED
  BY <1>2, <1>3

\* The device open_device finds has the id it looks for.
LEMMA Founded ==
  ASSUME Typed, NEW p \in Procs
  PROVE  LET found == First(list[p], {i \in DOMAIN list[p] : Wanted(list[p][i], p)})
         IN  found # Nobody =>
               \E i \in DOMAIN list[p] : found = list[p][i] /\ found.id = id[p]
<1> DEFINE hits == {i \in DOMAIN list[p] : Wanted(list[p][i], p)}
<1>1. list[p] \in Seq(Device)
  BY DEF Typed
<1>2. hits # {} => (CHOOSE i \in hits : \A j \in hits : i <= j) \in hits
  <2> HIDE DEF hits
  <2>1. hits \in SUBSET DOMAIN list[p]
    BY DEF hits
  <2> QED
    BY <1>1, <2>1, FirstIsOne
<1>3. First(list[p], {i \in DOMAIN list[p] : Wanted(list[p][i], p)})
        = IF hits = {} THEN Nobody ELSE list[p][CHOOSE i \in hits : \A j \in hits : i <= j]
  BY DEF First
<1>4. hits # {} => Wanted(list[p][CHOOSE i \in hits : \A j \in hits : i <= j], p)
  BY <1>2
<1> QED
  BY <1>2, <1>3, <1>4 DEF Wanted

\* What is looked at or listed is somebody, with a name and a stick.
LEMMA Somebody ==
  /\ \A d \in LookedAt \cup Device : d # Nobody /\ d.name \in Names /\ d.stick \in Sticks
  /\ \A d \in Device : d.id \in Idents /\ d.id # NoStick
<1>1. ASSUME NEW ids, NEW d \in Record(ids)
      PROVE  d.name \in Names /\ d.id \in ids /\ d.stick \in Sticks
  BY <1>1 DEF Record
<1>2. Nobody.stick = NoStick
  BY DEF Nobody
<1>3. NoStick \notin Idents
  BY WipeAssumption DEF Idents
<1>4. \A d \in LookedAt \cup Device : d.name \in Names /\ d.stick \in Sticks
  BY <1>1 DEF LookedAt, Device
<1>5. \A d \in LookedAt \cup Device : d # Nobody
  BY <1>2, <1>4, WipeAssumption
<1>6. \A d \in Device : d.id \in Idents /\ d.id # NoStick
  BY <1>1, <1>3 DEF Device
<1> QED
  BY <1>4, <1>5, <1>6

-----------------------------------------------------------------------------
\* Nobody but p changes.
Only(p) ==
  \A q \in Procs \ {p} :
    /\ pc'[q] = pc[q] /\ at'[q] = at[q] /\ list'[q] = list[q] /\ id'[q] = id[q]
    /\ dev'[q] = dev[q] /\ handle'[q] = handle[q] /\ listed'[q] = listed[q]
    /\ steady'[q] = steady[q]

\* The processes' variables are functions of them.
LEMMA Functional ==
  ASSUME Typed
  PROVE  /\ DOMAIN pc = Procs /\ DOMAIN at = Procs /\ DOMAIN list = Procs /\ DOMAIN id = Procs
         /\ DOMAIN dev = Procs /\ DOMAIN handle = Procs /\ DOMAIN listed = Procs
         /\ DOMAIN steady = Procs /\ DOMAIN result = Procs /\ DOMAIN arg = Procs
         /\ DOMAIN todo = Procs
BY DEF Typed, TypeOK

\* When a command ends, that concerns nobody else, and leaves nothing.
LEMMA Ended ==
  ASSUME Typed, NEW p \in Procs, NEW r, End(p, r)
  PROVE  /\ Only(p)
         /\ pc'[p] = "done" /\ result'[p] = r /\ handle'[p] = NoStick /\ list'[p] = <<>>
         /\ arg'[p] = "" /\ id'[p] = "" /\ dev'[p] = Nobody /\ at'[p] = at[p]
         /\ listed'[p] = NoStick /\ ~steady'[p] /\ todo'[p] = {}
<1>1. DOMAIN steady = Procs /\ steady' = [steady EXCEPT ![p] = FALSE]
  BY Functional DEF End
<1>2. ~steady'[p] /\ \A q \in Procs \ {p} : steady'[q] = steady[q]
  BY <1>1
<1>3. /\ pc'[p] = "done" /\ result'[p] = r /\ handle'[p] = NoStick /\ list'[p] = <<>>
      /\ arg'[p] = "" /\ id'[p] = "" /\ dev'[p] = Nobody /\ at'[p] = at[p]
      /\ listed'[p] = NoStick /\ todo'[p] = {}
  BY Functional DEF End, ScanEnds
<1>4. \A q \in Procs \ {p} :
        /\ pc'[q] = pc[q] /\ at'[q] = at[q] /\ list'[q] = list[q] /\ id'[q] = id[q]
        /\ dev'[q] = dev[q] /\ handle'[q] = handle[q] /\ listed'[q] = listed[q]
  BY Functional DEF End, ScanEnds
<1> QED
  BY <1>2, <1>3, <1>4 DEF Only

\* cmd_wipe stops, or goes on with the id of a listed device.
LEMMA PickForm ==
  ASSUME Typed, NEW p \in Procs, Pick(p)
  PROVE  \/ End(p, "DEVICE_NOT_FOUND")
         \/ \E i \in DOMAIN list[p] :
              /\ id' = [id EXCEPT ![p] = list[p][i].id]
              /\ listed' = [listed EXCEPT ![p] = list[p][i].stick]
              /\ pc' = [pc EXCEPT ![p] = "relist"]
              /\ todo' = [todo EXCEPT ![p] = Names] /\ list' = [list EXCEPT ![p] = <<>>]
              /\ UNCHANGED <<at, arg, dev, handle, steady, result>>
<1> DEFINE found == First(list[p], {i \in DOMAIN list[p] : list[p][i].name = arg[p]})
<1> HIDE DEF found
<1>1. CASE found = Nobody
  BY <1>1 DEF Pick, found
<1>2. CASE found # Nobody
  <2>1. PICK i \in DOMAIN list[p] : found = list[p][i]
    BY <1>2, Picked DEF found
  <2>2. /\ id' = [id EXCEPT ![p] = found.id] /\ listed' = [listed EXCEPT ![p] = found.stick]
        /\ pc' = [pc EXCEPT ![p] = "relist"]
        /\ todo' = [todo EXCEPT ![p] = Names] /\ list' = [list EXCEPT ![p] = <<>>]
        /\ UNCHANGED <<at, arg, dev, handle, steady, result>>
    BY <1>2 DEF Pick, Scan, Goto, found
  <2> QED
    BY <2>1, <2>2
<1> QED
  BY <1>1, <1>2

\* open_device stops, or goes on with a listed device that has the id.
LEMMA FindForm ==
  ASSUME Typed, NEW p \in Procs, Find(p)
  PROVE  \/ End(p, "DEVICE_NOT_FOUND")
         \/ \E i \in DOMAIN list[p] :
              /\ dev' = [dev EXCEPT ![p] = list[p][i]] /\ list[p][i].id = id[p]
              /\ pc' = [pc EXCEPT ![p] = IF Macos THEN "unmount" ELSE "open"]
              /\ todo' = [todo EXCEPT ![p] = {}] /\ list' = [list EXCEPT ![p] = <<>>]
              /\ UNCHANGED <<at, arg, id, handle, listed, steady, result>>
<1> DEFINE found == First(list[p], {i \in DOMAIN list[p] : Wanted(list[p][i], p)})
<1> HIDE DEF found
<1>1. CASE found = Nobody
  BY <1>1 DEF Find, found
<1>2. CASE found # Nobody
  <2>1. PICK i \in DOMAIN list[p] : found = list[p][i] /\ found.id = id[p]
    BY <1>2, Founded DEF found
  <2>2. /\ dev' = [dev EXCEPT ![p] = found]
        /\ pc' = [pc EXCEPT ![p] = IF Macos THEN "unmount" ELSE "open"]
        /\ todo' = [todo EXCEPT ![p] = {}] /\ list' = [list EXCEPT ![p] = <<>>]
        /\ UNCHANGED <<at, arg, id, handle, listed, steady, result>>
    BY <1>2 DEF Find, Found, AfterFind, ScanEnds, Goto, ghost, found
  <2> QED
    BY <2>1, <2>2
<1> QED
  BY <1>1, <1>2

\* unmount_disk stops, or leaves nothing of the disk mounted.
LEMMA UnmountForm ==
  ASSUME NEW p \in Procs, Unmount(p)
  PROVE  \/ \E r \in {"DEVICE_NOT_FOUND", "DEVICE_BUSY", "INTERNAL"} :
              End(p, r) /\ mounted' = mounted
         \/ /\ slot[dev[p].name] # NoStick
            /\ mounted' = [mounted EXCEPT ![dev[p].name] = "no"]
            /\ pc' = [pc EXCEPT ![p] = "answered"]
            /\ UNCHANGED <<arg, todo, at, list, id, dev, handle, listed, steady, result>>
BY DEF Unmount, Goto, scan, ghost

\* open_device is refused, or opens what has the name now.
LEMMA OpenForm ==
  ASSUME NEW p \in Procs, Open(p)
  PROVE  \/ \E r \in {"PERMISSION_DENIED", "DEVICE_BUSY"} : End(p, r)
         \/ /\ slot[dev[p].name] # NoStick /\ ~Claimed(dev[p].name)
            /\ handle' = [handle EXCEPT ![p] = slot[dev[p].name]]
            /\ steady' = [steady EXCEPT ![p] = moves[dev[p].name] = dev[p].since]
            /\ pc' = [pc EXCEPT ![p] = "write"]
            /\ UNCHANGED <<arg, todo, at, list, id, dev, listed, result>>
BY DEF Open, Refusal, Goto, scan

\* A step of p is p's alone.
LEMMA StepIsOnes ==
  ASSUME Typed, NEW p \in Procs, Step(p)
  PROVE  Only(p)
<1> USE DEF Goto, Scan, ScanEnds, scan, ghost, world
<1>1. CASE Start(p) \/ Describe(p) \/ Unmounted(p)
  <2>1. CASE Start(p)
    BY <2>1, Functional DEF Start, Only
  <2>2. CASE Describe(p)
    BY <2>2, Functional DEF Describe, Only
  <2>3. CASE Unmounted(p)
    BY <2>3, Functional DEF Unmounted, Only
  <2> QED
    BY <1>1, <2>1, <2>2, <2>3
<1>2. CASE \E r : End(p, r)
  BY <1>2, Ended
<1>3. CASE Pick(p)
  BY <1>2, <1>3, Functional, PickForm DEF Only
<1>4. CASE Find(p)
  BY <1>2, <1>4, Functional, FindForm DEF Only
<1>5. CASE Open(p)
  BY <1>2, <1>5, Functional, OpenForm DEF Only
<1>6. CASE Unmount(p)
  BY <1>2, <1>6, Functional, UnmountForm DEF Only
<1>7. CASE Write(p) \/ ScanFails(p)
  BY <1>2, <1>7 DEF Write, ScanFails
<1>8. ASSUME NEW n \in Names, Examine(p, n) PROVE Only(p)
  BY <1>8, Functional DEF Examine, Only
<1> QED
  BY <1>1, <1>3, <1>4, <1>5, <1>6, <1>7, <1>8 DEF Step

\* Whoever does nothing knows what it knew, as long as the machine stays as it is, or
\* a disk is unmounted.
LEMMA OthersKeep ==
  ASSUME Typed, NEW p \in Procs, Only(p), NEW q \in Procs \ {p}, Read(q), Stage(q),
         UNCHANGED <<platform, slot, moves>>,
         \A n \in Names : mounted'[n] = mounted[n] \/ mounted'[n] = "no"
  PROVE  Read(q)' /\ Stage(q)'
<1>1. /\ pc'[q] = pc[q] /\ at'[q] = at[q] /\ list'[q] = list[q] /\ id'[q] = id[q]
      /\ dev'[q] = dev[q] /\ handle'[q] = handle[q] /\ listed'[q] = listed[q]
      /\ steady'[q] = steady[q]
  BY DEF Only
<1>2. dev[q] # Nobody => dev[q].name \in Names
  BY Somebody DEF Typed
<1>3. Read(q)'
  <2>1. /\ \A d : Looked(d)' <=> Looked(d)
        /\ \A d : Identified(d)' <=> Identified(d)
    BY DEF Looked, Identified, Macos
  <2> QED
    BY <1>1, <2>1, Zenon DEF Read
<1>4. Stage(q)'
  BY <1>1, <1>2 DEF Stage, Macos
<1> QED
  BY <1>3, <1>4

-----------------------------------------------------------------------------
Results == {"none", "ok", "DEVICE_NOT_FOUND", "DEVICE_BUSY", "PERMISSION_DENIED", "INTERNAL",
            "IO_ERROR"}

\* The types, without what follows from the others.
Plain ==
  /\ platform \in {"linux", "macos"}
  /\ slot \in [Names -> Sticks \cup {NoStick}]
  /\ mounted \in [Names -> {"no", "yes", "late"}] /\ moves \in [Names -> 0 .. MaxHotplug]
  /\ pc \in [Procs -> {"idle", "list", "relist", "unmount", "answered", "open", "write", "done"}]
  /\ arg \in [Procs -> Names \cup {""}] /\ todo \in [Procs -> SUBSET Names]
  /\ result \in [Procs -> Results]
  /\ handle \in [Procs -> Sticks \cup {NoStick}]
  /\ listed \in [Procs -> Sticks \cup {NoStick}] /\ steady \in [Procs -> BOOLEAN]
  /\ at \in [Procs -> LookedAt \cup {Nobody}]
  /\ list \in [Procs -> Seq(Device)]
  /\ id \in [Procs -> Idents \cup {""}]
  /\ dev \in [Procs -> Device \cup {Nobody}]

\* They are all there is to it.
LEMMA TypedIsPlain == Typed <=> Plain
<1>1. ASSUME Plain PROVE Typed
  <2>1. ASSUME NEW p \in Procs, at[p] # Nobody PROVE at[p].name \in Names /\ at[p].stick \in Sticks
    BY <1>1, <2>1, Somebody DEF Plain
  <2>2. ASSUME NEW p \in Procs, NEW i \in DOMAIN list[p]
        PROVE  list[p][i].name \in Names /\ list[p][i].stick \in Sticks /\ list[p][i].id # NoStick
    <3>1. list[p] \in Seq(Device)
      BY <1>1 DEF Plain
    <3>2. list[p][i] \in Device
      BY <3>1
    <3> QED
      BY <3>2, Somebody
  <2> QED
    BY <1>1, <2>1, <2>2 DEF Typed, TypeOK, Plain, Results
<1>2. ASSUME Typed PROVE Plain
  BY <1>2 DEF Typed, TypeOK, Plain, Results
<1> QED
  BY <1>1, <1>2

\* A name is somebody's or nobody's, and has changed hands so many times.
LEMMA Counted ==
  ASSUME Typed, NEW n \in Names
  PROVE  slot[n] \in Sticks \cup {NoStick} /\ moves[n] \in Nat
<1>1. moves[n] \in 0 .. MaxHotplug
  BY DEF Typed, TypeOK
<1>2. slot[n] \in Sticks \cup {NoStick}
  BY DEF Typed, TypeOK
<1> QED
  BY <1>1, <1>2, WipeAssumption

\* No device is a list of devices, too.
LEMMA NoList == <<>> \in Seq(Device)
OBVIOUS

\* When a command ends the types are in order.
LEMMA EndType ==
  ASSUME Typed, NEW p \in Procs, NEW r \in Results, End(p, r), UNCHANGED world
  PROVE  Plain'
<1>1. steady' \in [Procs -> BOOLEAN]
  BY TypedIsPlain DEF End, Plain
<1>2. list' \in [Procs -> Seq(Device)]
  BY TypedIsPlain, NoList DEF End, ScanEnds, Plain
<1>3. UNCHANGED <<platform, slot, mounted, moves>>
  BY DEF world
<1> QED
  BY <1>1, <1>2, <1>3, TypedIsPlain DEF End, ScanEnds, Plain

\* When an enumeration begins, comes to a device or describes it, they are, too.
LEMMA ScanType ==
  ASSUME Typed, NEW p \in Procs,
         Start(p) \/ Describe(p) \/ \E n \in Names : Examine(p, n)
  PROVE  Plain'
<1>1. Plain
  BY TypedIsPlain
<1>2. CASE Start(p)
  <2>1. PICK n \in Names :
          /\ arg' = [arg EXCEPT ![p] = n] /\ pc' = [pc EXCEPT ![p] = "list"]
          /\ todo' = [todo EXCEPT ![p] = {n}] /\ list' = [list EXCEPT ![p] = <<>>]
          /\ UNCHANGED <<at, result>>
    BY <1>2 DEF Start, Scan, Goto
  <2>2. /\ UNCHANGED <<platform, slot, mounted, moves, id, dev, handle>>
        /\ UNCHANGED <<listed, steady>>
    BY <1>2 DEF Start, world, ghost
  <2> QED
    BY <1>1, <2>1, <2>2, NoList DEF Plain
<1>3. ASSUME NEW n \in Names, Examine(p, n) PROVE Plain'
  <2>1. Removable(slot[n]) =>
          [name |-> n, id |-> "", size |-> SizesOf(slot[n]), stick |-> slot[n],
           since |-> moves[n]] \in LookedAt
    <3>1. slot[n] \in Sticks \cup {NoStick} /\ moves[n] \in Nat
      BY Counted
    <3>2. Removable(slot[n]) => slot[n] \in Sticks /\ SizesOf(slot[n]) \subseteq Bytes
      BY <3>1 DEF Removable, SizesOf, Bytes
    <3> QED
      BY <3>1, <3>2 DEF LookedAt, Record
  <2>2. at' \in [Procs -> LookedAt \cup {Nobody}]
    BY <1>1, <1>3, <2>1 DEF Examine, Plain
  <2> QED
    BY <1>1, <1>3, <2>2 DEF Examine, world, ghost, Plain
<1>4. CASE Describe(p)
  <2> DEFINE n == at[p].name
             now == IF Macos /\ slot[n] # at[p].stick THEN NoStick ELSE slot[n]
  <2> DEFINE z == IF Macos THEN at[p].size ELSE at[p].size \cup SizesOf(now)
  <2>1. PICK i \in Ids(n, now) :
          list' = [list EXCEPT ![p] = Append(@,
            [at[p] EXCEPT !.id = i, !.size = z, !.stick = IF now = NoStick THEN @ ELSE now])]
    BY <1>4 DEF Describe
  <2>2. at[p] \in LookedAt /\ n \in Names
    BY <1>1, <1>4, Somebody DEF Describe, Plain
  <2>3. now \in Sticks \cup {NoStick}
    BY <1>1, <2>2 DEF Plain
  <2>4. i \in Idents
    BY <2>2, <2>3 DEF Ids, Idents
  <2>5. z \in SUBSET Bytes
    <3>1. SizesOf(now) \subseteq Bytes
      BY <2>3 DEF SizesOf, Bytes
    <3>2. at[p].size \subseteq Bytes
      BY <2>2 DEF LookedAt, Record
    <3> HIDE DEF now
    <3> QED
      BY <3>1, <3>2
  <2>6. [at[p] EXCEPT !.id = i, !.size = z, !.stick = IF now = NoStick THEN @ ELSE now] \in Device
    <3> HIDE DEF now, n, z
    <3> QED
      BY <2>2, <2>3, <2>4, <2>5 DEF LookedAt, Device, Record
  <2>7. list' \in [Procs -> Seq(Device)]
    <3> HIDE DEF now, n, z
    <3>1. \A q \in Procs : list[q] \in Seq(Device)
      BY <1>1 DEF Plain
    <3>2. \A e \in Device : Append(list[p], e) \in Seq(Device)
      BY <3>1
    <3> QED
      BY <1>1, <2>1, <2>6, <3>1, <3>2 DEF Plain
  <2>8. at' \in [Procs -> LookedAt \cup {Nobody}]
    BY <1>1, <1>4 DEF Describe, Plain
  <2>9. /\ UNCHANGED <<platform, slot, mounted, moves, pc, arg, todo, id, dev, handle, result>>
        /\ UNCHANGED <<listed, steady>>
    BY <1>4 DEF Describe, world, ghost
  <2> QED
    BY <1>1, <2>7, <2>8, <2>9 DEF Plain
<1> QED
  BY <1>2, <1>3, <1>4

\* Whatever a process does keeps the types.
LEMMA StepType ==
  ASSUME Typed, \A q \in Procs : Stage(q), NEW p \in Procs, Step(p)
  PROVE  Plain'
<1>1. Plain
  BY TypedIsPlain
<1>2. ASSUME NEW r \in Results, End(p, r), UNCHANGED world PROVE Plain'
  BY <1>2, EndType
<1>3. CASE ScanFails(p) \/ Write(p)
  BY <1>2, <1>3 DEF ScanFails, Write, Results
<1>4. ASSUME NEW i \in DOMAIN list[p] PROVE list[p][i] \in Device
  <2>1. list[p] \in Seq(Device)
    BY <1>1 DEF Plain
  <2> QED
    BY <2>1
<1>5. CASE Pick(p)
  <2>1. UNCHANGED world
    BY <1>5 DEF Pick
  <2>2. CASE End(p, "DEVICE_NOT_FOUND")
    BY <1>2, <2>1, <2>2 DEF Results
  <2>3. ASSUME ~End(p, "DEVICE_NOT_FOUND") PROVE Plain'
    <3>1. PICK i \in DOMAIN list[p] :
              /\ id' = [id EXCEPT ![p] = list[p][i].id]
              /\ listed' = [listed EXCEPT ![p] = list[p][i].stick]
              /\ pc' = [pc EXCEPT ![p] = "relist"]
              /\ todo' = [todo EXCEPT ![p] = Names] /\ list' = [list EXCEPT ![p] = <<>>]
              /\ UNCHANGED <<at, arg, dev, handle, steady, result>>
      BY <1>5, <2>3, PickForm
    <3>2. list[p][i].id \in Idents /\ list[p][i].stick \in Sticks
      BY <1>4, Somebody
    <3> QED
      BY <1>1, <2>1, <3>1, <3>2, NoList DEF Plain, world
  <2> QED
    BY <2>2, <2>3
<1>6. CASE Find(p)
  <2>1. UNCHANGED world
    BY <1>6 DEF Find
  <2>2. CASE End(p, "DEVICE_NOT_FOUND")
    BY <1>2, <2>1, <2>2 DEF Results
  <2>3. ASSUME ~End(p, "DEVICE_NOT_FOUND") PROVE Plain'
    <3>1. PICK i \in DOMAIN list[p] :
              /\ dev' = [dev EXCEPT ![p] = list[p][i]]
              /\ pc' = [pc EXCEPT ![p] = IF Macos THEN "unmount" ELSE "open"]
              /\ todo' = [todo EXCEPT ![p] = {}] /\ list' = [list EXCEPT ![p] = <<>>]
              /\ UNCHANGED <<at, arg, id, handle, listed, steady, result>>
      BY <1>6, <2>3, FindForm
    <3>2. list[p][i] \in Device
      BY <1>4
    <3> QED
      BY <1>1, <2>1, <3>1, <3>2, NoList DEF Plain, world
  <2> QED
    BY <2>2, <2>3
<1>7. CASE Open(p)
  <2>1. UNCHANGED world
    BY <1>7 DEF Open
  <2>2. ASSUME NEW r \in {"PERMISSION_DENIED", "DEVICE_BUSY"}, End(p, r) PROVE Plain'
    BY <1>2, <2>1, <2>2 DEF Results
  <2>3. ASSUME \A r \in {"PERMISSION_DENIED", "DEVICE_BUSY"} : ~End(p, r) PROVE Plain'
    <3>1. dev[p].name \in Names
      <4>1. dev[p] # Nobody
        BY <1>7 DEF Open, Stage
      <4> QED
        BY <1>1, <4>1, Somebody DEF Plain
    <3>2. /\ handle' = [handle EXCEPT ![p] = slot[dev[p].name]]
          /\ pc' = [pc EXCEPT ![p] = "write"]
          /\ UNCHANGED <<arg, todo, at, list, id, dev, listed, result>>
      BY <1>7, <2>3, OpenForm
    <3>3. steady' \in [Procs -> BOOLEAN]
      <4>1. steady' = [steady EXCEPT ![p] = moves[dev[p].name] = dev[p].since]
        BY <1>7, <2>3, OpenForm
      <4> QED
        BY <1>1, <4>1 DEF Plain
    <3> QED
      BY <1>1, <2>1, <3>1, <3>2, <3>3 DEF Plain, world
  <2> QED
    BY <2>2, <2>3
<1>8. CASE Unmount(p)
  <2>1. UNCHANGED <<platform, slot, moves>>
    BY <1>8 DEF Unmount
  <2>2. ASSUME NEW r \in {"DEVICE_NOT_FOUND", "DEVICE_BUSY", "INTERNAL"}, End(p, r),
               mounted' = mounted
        PROVE  Plain'
    BY <1>2, <2>1, <2>2 DEF Results, world
  <2>3. ASSUME \A r \in {"DEVICE_NOT_FOUND", "DEVICE_BUSY", "INTERNAL"} :
                 ~(End(p, r) /\ mounted' = mounted)
        PROVE  Plain'
    <3>1. /\ mounted' = [mounted EXCEPT ![dev[p].name] = "no"]
          /\ pc' = [pc EXCEPT ![p] = "answered"]
          /\ UNCHANGED <<arg, todo, at, list, id, dev, handle, listed, steady, result>>
      BY <1>8, <2>3, UnmountForm
    <3> QED
      BY <1>1, <2>1, <3>1 DEF Plain
  <2> QED
    BY <2>2, <2>3
<1>9. CASE Unmounted(p)
  BY <1>1, <1>9 DEF Unmounted, Goto, world, scan, ghost, Plain
<1> QED
  BY <1>3, <1>5, <1>6, <1>7, <1>8, <1>9, ScanType DEF Step

-----------------------------------------------------------------------------
\* What p has read stays what it was when p begins, ends, chooses, unmounts, opens or
\* writes: it only ever forgets or copies it.
LEMMA ReadCopied ==
  ASSUME IInv, NEW p \in Procs, UNCHANGED <<platform, slot, moves>>,
         at'[p] = at[p], list'[p] \in {<<>>, list[p]},
         dev'[p] \in {Nobody, dev[p]} \cup {list[p][i] : i \in DOMAIN list[p]}
  PROVE  Read(p)'
<1>1. Read(p)
  BY DEF IInv
<1>2. Looked(at[p])'
  BY <1>1 DEF Read, Looked, Macos
<1>3. Looked(dev[p])' /\ Identified(dev[p])'
  BY <1>1 DEF Read, Looked, Macos, Identified
<1>4. \A i \in DOMAIN list'[p] : list'[p][i] = list[p][i] /\ i \in DOMAIN list[p]
  OBVIOUS
<1>5. ASSUME NEW i \in DOMAIN list'[p] PROVE Looked(list[p][i])' /\ Identified(list[p][i])'
  BY <1>1, <1>4 DEF Read, Looked, Macos, Identified
<1> QED
  BY <1>2, <1>3, <1>5 DEF Read, Looked, Macos, Identified

\* A name enumerate() comes to now is its stick's.
LEMMA ExamineRead ==
  ASSUME IInv, NEW p \in Procs, NEW n \in Names, Examine(p, n)
  PROVE  Read(p)'
<1>1. Read(p) /\ Typed
  BY DEF IInv
<1>2. /\ UNCHANGED <<platform, slot, moves, list, dev>>
      /\ at'[p] = IF Removable(slot[n])
                    THEN [name |-> n, id |-> "", size |-> SizesOf(slot[n]),
                          stick |-> slot[n], since |-> moves[n]]
                    ELSE Nobody
  BY <1>1, Functional DEF Examine, world
<1>3. slot[n] \in Sticks \cup {NoStick} /\ moves[n] \in Nat
  BY <1>1, Counted
<1>4. Removable(slot[n]) => slot[n] \in Sticks \ Fixed
  BY <1>3 DEF Removable
<1>5. Looked(at[p])'
  <2>1. CASE Removable(slot[n])
    <3> DEFINE d == [name |-> n, id |-> "", size |-> SizesOf(slot[n]), stick |-> slot[n],
                     since |-> moves[n]]
    <3>1. d.name = n /\ d.size = SizesOf(slot[n]) /\ d.since = moves[n] /\ d.stick = slot[n]
      OBVIOUS
    <3>2. at'[p] = d
      BY <1>2, <2>1
    <3> HIDE DEF d
    <3>3. slot' = slot /\ moves' = moves
      BY <1>2
    <3> QED
      BY <1>3, <1>4, <2>1, <3>1, <3>2, <3>3 DEF Looked
  <2>2. CASE ~Removable(slot[n])
    BY <1>2, <2>2 DEF Looked
  <2> QED
    BY <2>1, <2>2
<1> QED
  BY <1>1, <1>2, <1>5 DEF Read, Looked, Identified, Macos

\* The stick listed is looked at before, and identified now.
LEMMA DescribeRead ==
  ASSUME IInv, NEW p \in Procs, Describe(p)
  PROVE  Read(p)'
<1> DEFINE n == at[p].name
           now == IF Macos /\ slot[n] # at[p].stick THEN NoStick ELSE slot[n]
<1>1. Read(p) /\ Typed
  BY DEF IInv
<1>2. at[p] \in LookedAt /\ n \in Names
  BY <1>1, Somebody DEF Describe, Typed
<1>3. now \in Sticks \cup {NoStick} /\ now \in {slot[n], NoStick} /\ (~Macos => now = slot[n])
  BY <1>1, <1>2, Counted
<1> DEFINE z == IF Macos THEN at[p].size ELSE at[p].size \cup SizesOf(now)
<1>4. PICK i \in Ids(n, now) :
        list' = [list EXCEPT ![p] = Append(@,
          [at[p] EXCEPT !.id = i, !.size = z, !.stick = IF now = NoStick THEN @ ELSE now])]
  BY DEF Describe
<1> DEFINE d == [at[p] EXCEPT !.id = i, !.size = z, !.stick = IF now = NoStick THEN @ ELSE now]
<1> HIDE DEF now, z
<1>5. /\ d.name = n /\ d.id = i /\ d.size = z /\ d.since = at[p].since
      /\ d.stick = IF now = NoStick THEN at[p].stick ELSE now
  BY <1>2 DEF LookedAt, Record
<1>6. UNCHANGED <<platform, slot, moves, dev>> /\ at'[p] = Nobody /\ list'[p] = Append(list[p], d)
  BY <1>1, <1>4, Functional DEF Describe, world
<1>7. at[p] # Nobody
  BY DEF Describe
<1>8. at[p].since = moves[n] => slot[n] \in Sticks \ Fixed /\ at[p].size \subseteq SizesOf(slot[n])
  BY <1>1, <1>7 DEF Read, Looked
<1>9. at[p].since <= moves[n]
  BY <1>1, <1>7 DEF Read, Looked
<1>10. Macos => at[p].size \subseteq SizesOf(at[p].stick) /\ (now # NoStick => now = at[p].stick)
  BY <1>1, <1>7 DEF Read, Looked, now
<1>11. /\ d.since = moves[n] => d.size \subseteq SizesOf(slot[n])
       /\ Macos => d.size \subseteq SizesOf(d.stick)
  <2>1. CASE Macos
    BY <1>5, <1>8, <1>10, <2>1 DEF z
  <2>2. CASE ~Macos
    BY <1>3, <1>5, <1>8, <2>2 DEF z
  <2> QED
    BY <2>1, <2>2
<1>12. d.id \in {d.name, Key[d.stick], Model[d.stick]}
  BY <1>4, <1>5 DEF Ids
<1> HIDE DEF d, n
<1>13. Looked(d) /\ Identified(d)
  BY <1>5, <1>8, <1>9, <1>11, <1>12 DEF Looked, Identified
<1>14. list[p] \in Seq(Device)
  BY <1>1 DEF Typed
<1>15. \A j \in DOMAIN list'[p] : list'[p][j] = d \/ (j \in DOMAIN list[p] /\ list'[p][j] = list[p][j])
  BY <1>6, <1>14
<1>16. ASSUME NEW j \in DOMAIN list'[p]
       PROVE  Looked(list'[p][j]) /\ Identified(list'[p][j])
  BY <1>1, <1>13, <1>15 DEF Read
<1>17. Looked(dev[p]) /\ Identified(dev[p])
  BY <1>1 DEF Read
<1> QED
  BY <1>6, <1>16, <1>17 DEF Read, Looked, Identified, Macos

\* Whatever p does, it knows what it has read.
LEMMA StepRead ==
  ASSUME IInv, NEW p \in Procs, Step(p)
  PROVE  Read(p)'
<1>1. Typed /\ UNCHANGED <<platform, slot, moves>>
  BY DEF IInv, Step, Start, ScanFails, Describe, Pick, Find, Open, Write, Examine, Unmount,
         Unmounted, world
<1>2. ASSUME NEW r, End(p, r) PROVE Read(p)'
  BY <1>1, <1>2, Ended, ReadCopied
<1>3. ASSUME UNCHANGED <<at, list, dev>> PROVE Read(p)'
  BY <1>1, <1>3, ReadCopied
<1>4. CASE Start(p)
  <2>1. UNCHANGED <<at, dev>> /\ list'[p] = <<>>
    BY <1>1, <1>4, Functional DEF Start, Scan
  <2> QED
    BY <1>1, <2>1, ReadCopied
<1>5. CASE Pick(p)
  <2>1. ASSUME ~End(p, "DEVICE_NOT_FOUND") PROVE UNCHANGED <<at, dev>> /\ list'[p] = <<>>
    BY <1>1, <1>5, <2>1, PickForm, Functional
  <2> QED
    BY <1>1, <1>2, <2>1, ReadCopied
<1>6. CASE Find(p)
  <2>1. ASSUME ~End(p, "DEVICE_NOT_FOUND")
        PROVE  at' = at /\ list'[p] = <<>> /\ \E i \in DOMAIN list[p] : dev'[p] = list[p][i]
    BY <1>1, <1>6, <2>1, FindForm, Functional
  <2> QED
    BY <1>1, <1>2, <2>1, ReadCopied
<1>7. CASE Open(p) \/ Unmount(p) \/ Unmounted(p)
  BY <1>2, <1>3, <1>7, OpenForm, UnmountForm DEF Unmounted, scan
<1>8. CASE ScanFails(p) \/ Write(p)
  BY <1>2, <1>8 DEF ScanFails, Write
<1>9. CASE Describe(p) \/ \E n \in Names : Examine(p, n)
  BY <1>9, DescribeRead, ExamineRead
<1> QED
  BY <1>4, <1>5, <1>6, <1>7, <1>8, <1>9 DEF Step

\* An unmounted disk is mounted nowhere; no other step of a process mounts anything.
LEMMA StepMounts ==
  ASSUME Typed, NEW p \in Procs, Step(p)
  PROVE  /\ UNCHANGED <<platform, slot, moves>>
         /\ \A n \in Names : mounted'[n] = mounted[n] \/ mounted'[n] = "no"
<1>1. UNCHANGED <<platform, slot, moves>>
  BY DEF Step, Start, ScanFails, Describe, Pick, Find, Open, Write, Examine, Unmount, Unmounted,
         world
<1>2. mounted' = mounted \/ mounted' = [mounted EXCEPT ![dev[p].name] = "no"]
  <2>1. CASE Unmount(p)
    BY <2>1 DEF Unmount
  <2>2. CASE ~Unmount(p)
    BY <2>2 DEF Step, Start, ScanFails, Describe, Pick, Find, Open, Write, Examine, Unmounted,
                world
  <2> QED
    BY <2>1, <2>2
<1>3. mounted \in [Names -> {"no", "yes", "late"}]
  BY DEF Typed, TypeOK
<1> QED
  BY <1>1, <1>2, <1>3

\* Whatever p does, its next stage knows what it needs to know.
LEMMA StepStage ==
  ASSUME IInv, NEW p \in Procs, Step(p)
  PROVE  Stage(p)'
<1>1. Typed /\ Stage(p) /\ Read(p) /\ (~Macos => Macos' = Macos)
  BY StepMounts DEF IInv, Macos
<1>2. UNCHANGED <<platform, slot, moves>> /\ Macos' = Macos
  BY <1>1, StepMounts DEF Macos
<1>3. ASSUME NEW r, End(p, r) PROVE Stage(p)'
  <2>1. pc'[p] = "done" /\ handle'[p] = NoStick
    BY <1>1, <1>3, Ended
  <2> QED
    BY <2>1 DEF Stage
<1>4. CASE Start(p)
  <2>1. pc[p] = "idle" /\ pc'[p] = "list" /\ handle'[p] = handle[p]
    BY <1>1, <1>4, Functional DEF Start, Scan, Goto
  <2> QED
    BY <1>1, <2>1 DEF Stage
<1>5. CASE Describe(p) \/ \E n \in Names : Examine(p, n)
  <2>1. UNCHANGED <<platform, slot, mounted, moves, pc, id, dev, handle, listed, steady>>
    BY <1>5 DEF Describe, Examine, world, ghost
  <2> QED
    BY <1>1, <2>1 DEF Stage, Macos
<1>6. CASE Pick(p)
  <2>1. CASE ~End(p, "DEVICE_NOT_FOUND")
    <3>1. PICK i \in DOMAIN list[p] :
              /\ listed'[p] = list[p][i].stick /\ pc'[p] = "relist" /\ handle'[p] = handle[p]
      BY <1>1, <1>6, <2>1, PickForm, Functional
    <3>2. list[p][i].stick \in Sticks
      BY <1>1 DEF Typed, TypeOK
    <3>3. handle[p] = NoStick
      BY <1>1, <1>6 DEF Pick, Stage
    <3> QED
      BY <3>1, <3>2, <3>3 DEF Stage
  <2> QED
    BY <1>3, <2>1
<1>7. CASE Find(p)
  <2>1. CASE ~End(p, "DEVICE_NOT_FOUND")
    <3>1. PICK i \in DOMAIN list[p] :
              /\ dev'[p] = list[p][i] /\ list[p][i].id = id[p] /\ pc'[p] \in {"unmount", "open"}
              /\ (Macos => pc'[p] = "unmount")
              /\ id'[p] = id[p] /\ handle'[p] = handle[p] /\ listed'[p] = listed[p]
      BY <1>1, <1>7, <2>1, FindForm, Functional
    <3>2. list[p][i] # Nobody
      <4>1. list[p] \in Seq(Device)
        BY <1>1 DEF Typed
      <4> QED
        BY <4>1, Somebody
    <3>3. handle[p] = NoStick /\ listed[p] \in Sticks
      BY <1>1, <1>7 DEF Find, Stage
    <3> QED
      BY <1>2, <3>1, <3>2, <3>3 DEF Stage
  <2> QED
    BY <1>3, <2>1
<1>8. CASE ScanFails(p) \/ Write(p)
  BY <1>3, <1>8 DEF ScanFails, Write
<1>9. CASE Unmount(p)
  <2>1. CASE \A r \in {"DEVICE_NOT_FOUND", "DEVICE_BUSY", "INTERNAL"} :
               ~(End(p, r) /\ mounted' = mounted)
    <3>1. /\ mounted' = [mounted EXCEPT ![dev[p].name] = "no"]
          /\ pc' = [pc EXCEPT ![p] = "answered"]
          /\ UNCHANGED <<arg, todo, at, list, id, dev, handle, listed, steady, result>>
      BY <1>9, <2>1, UnmountForm
    <3>2. dev[p] # Nobody /\ pc[p] = "unmount"
      BY <1>1, <1>9 DEF Unmount, Stage
    <3>3. dev[p].name \in Names
      BY <1>1, <3>2, Somebody DEF Typed
    <3>4. pc'[p] = "answered" /\ mounted'[dev[p].name] = "no"
      BY <1>1, <3>1, <3>3, Functional DEF Typed, TypeOK
    <3> QED
      BY <1>1, <3>1, <3>2, <3>4 DEF Stage
  <2> QED
    BY <1>3, <2>1
<1>10. CASE Unmounted(p)
  <2>1. /\ pc[p] = "answered" /\ pc'[p] = "open"
        /\ UNCHANGED <<platform, slot, mounted, id, dev, handle, listed, steady>>
    BY <1>1, <1>10, Functional DEF Unmounted, Goto, world, scan, ghost
  <2> QED
    BY <1>1, <1>2, <2>1 DEF Stage
<1>11. CASE Open(p)
  <2>1. CASE \A r \in {"PERMISSION_DENIED", "DEVICE_BUSY"} : ~End(p, r)
    <3>1. /\ slot[dev[p].name] # NoStick /\ ~Claimed(dev[p].name) /\ pc[p] = "open"
          /\ handle'[p] = slot[dev[p].name] /\ pc'[p] = "write"
          /\ UNCHANGED <<id, dev, listed>> /\ mounted' = mounted
      BY <1>1, <1>11, <2>1, OpenForm, Functional DEF Open, world
    <3>2. steady'[p] <=> moves[dev[p].name] = dev[p].since
      <4>1. steady' = [steady EXCEPT ![p] = moves[dev[p].name] = dev[p].since]
        BY <1>11, <2>1, OpenForm
      <4> QED
        BY <1>1, <4>1, Functional
    <3>3. dev[p] # Nobody /\ dev[p].id = id[p] /\ listed[p] \in Sticks
      BY <1>1, <3>1 DEF Stage
    <3>4. steady'[p] => dev[p].size \subseteq SizesOf(slot[dev[p].name]) /\ slot[dev[p].name] \notin Fixed
      BY <1>1, <3>2, <3>3 DEF Read, Looked
    <3>5. ~Macos => mounted[dev[p].name] = "no"
      BY <3>1 DEF Claimed
    <3>6. Macos => mounted[dev[p].name] # "yes"
      BY <1>1, <3>1 DEF Stage
    <3> QED
      BY <1>2, <3>1, <3>3, <3>4, <3>5, <3>6 DEF Stage
  <2> QED
    BY <1>3, <2>1
<1> QED
  BY <1>4, <1>5, <1>6, <1>7, <1>8, <1>9, <1>10, <1>11 DEF Step

\* On Linux p gets no handle on what somebody else has open.
LEMMA StepWriter ==
  ASSUME IInv, NEW p \in Procs, Step(p)
  PROVE  OneWriter'
<1>1. Typed /\ OneWriter /\ Only(p) /\ Macos' = Macos
  BY StepIsOnes, StepMounts DEF IInv, Macos
<1>2. ASSUME NEW r, End(p, r) PROVE handle'[p] = NoStick
  BY <1>1, <1>2, Ended
<1>3. CASE Open(p)
  <2>1. CASE \A r \in {"PERMISSION_DENIED", "DEVICE_BUSY"} : ~End(p, r)
    <3>1. handle'[p] = slot[dev[p].name] /\ ~Claimed(dev[p].name)
      BY <1>1, <1>3, <2>1, OpenForm, Functional
    <3>2. ~Macos => \A q \in Procs : handle[q] # handle'[p]
      BY <3>1 DEF Claimed
    <3> QED
      BY <1>1, <3>2 DEF OneWriter, Only
  <2> QED
    BY <1>1, <1>2, <2>1 DEF OneWriter, Only
<1>4. CASE ~Open(p)
  <2>1. handle'[p] \in {handle[p], NoStick}
    BY <1>1, <1>2, <1>4, PickForm, FindForm, UnmountForm
    DEF Step, Start, Describe, Examine, ScanFails, Write, Unmounted
  <2> QED
    BY <1>1, <2>1 DEF OneWriter, Only
<1> QED
  BY <1>3, <1>4

\* Whatever a process does keeps the inductive invariant.
LEMMA StepSafe ==
  ASSUME IInv, NEW p \in Procs, Step(p)
  PROVE  IInv'
<1>1. Plain'
  BY StepType DEF IInv
<1>2. Typed'
  BY <1>1, TypedIsPlain, PTL
<1>3. Machine'
  BY StepMounts DEF IInv, Machine
<1>4. ASSUME NEW q \in Procs \ {p} PROVE Read(q)' /\ Stage(q)'
  BY StepIsOnes, StepMounts, OthersKeep DEF IInv
<1> QED
  BY <1>2, <1>3, <1>4, StepRead, StepStage, StepWriter DEF IInv

-----------------------------------------------------------------------------
\* What was read of a name that changes hands is out of date.
LEMMA MoveRead ==
  ASSUME IInv, NEW n \in Names, NEW s \in Sticks \cup {NoStick}, Moved(n, s),
         UNCHANGED <<platform, at, list, dev>>, NEW q \in Procs
  PROVE  Read(q)'
<1>1. Typed /\ Read(q)
  BY DEF IInv
<1>2. /\ slot' = [slot EXCEPT ![n] = s] /\ moves' = [moves EXCEPT ![n] = @ + 1]
  BY DEF Moved
<1>3. DOMAIN slot = Names /\ DOMAIN moves = Names
  BY <1>1 DEF Typed, TypeOK
<1>4. /\ moves'[n] = moves[n] + 1
      /\ \A m \in Names \ {n} : slot'[m] = slot[m] /\ moves'[m] = moves[m]
  BY <1>2, <1>3
<1>5. ASSUME NEW d \in LookedAt \cup Device, Looked(d)
      PROVE  /\ d.since <= moves'[d.name]
             /\ d.since = moves'[d.name] =>
                  slot'[d.name] \in Sticks \ Fixed /\ d.size \subseteq SizesOf(slot'[d.name])
             /\ Macos => d.size \subseteq SizesOf(d.stick)
  <2>1. /\ d.name \in Names /\ d.since <= moves[d.name]
        /\ d.since = moves[d.name] =>
             slot[d.name] \in Sticks \ Fixed /\ d.size \subseteq SizesOf(slot[d.name])
        /\ Macos => d.size \subseteq SizesOf(d.stick)
    BY <1>5, Somebody DEF Looked
  <2>2. d.since \in Nat /\ moves[n] \in Nat
    BY <1>1, Counted DEF LookedAt, Device, Record
  <2>3. CASE d.name = n
    BY <1>4, <2>1, <2>2, <2>3
  <2>4. CASE d.name # n
    BY <1>4, <2>1, <2>4
  <2> QED
    BY <2>3, <2>4
<1>6. Looked(at[q])'
  BY <1>1, <1>5 DEF Typed, Read, Looked, Macos
<1>7. Looked(dev[q])' /\ Identified(dev[q])'
  BY <1>1, <1>5 DEF Typed, Read, Looked, Identified, Macos
<1>8. ASSUME NEW i \in DOMAIN list[q] PROVE Looked(list[q][i])' /\ Identified(list[q][i])'
  <2>1. list[q] \in Seq(Device)
    BY <1>1 DEF Typed
  <2>2. list[q][i] \in Device
    BY <2>1
  <2> QED
    BY <1>1, <1>5, <2>2 DEF Read, Looked, Identified, Macos
<1> QED
  BY <1>6, <1>7, <1>8 DEF Read

\* A name that changes hands does so within the bound.
LEMMA MoveType ==
  ASSUME Typed, NEW n \in Names, NEW s \in Sticks \cup {NoStick}, Moved(n, s)
  PROVE  /\ slot' \in [Names -> Sticks \cup {NoStick}] /\ moves' \in [Names -> 0 .. MaxHotplug]
         /\ slot'[n] = s /\ \A m \in Names \ {n} : slot'[m] = slot[m]
<1>1. moves[n] + 1 \in 0 .. MaxHotplug
  BY MovesLeft DEF Moved, Typed
<1>2. slot \in [Names -> Sticks \cup {NoStick}] /\ moves \in [Names -> 0 .. MaxHotplug]
  BY DEF Typed, TypeOK
<1> QED
  BY <1>1, <1>2 DEF Moved

\* A stick is plugged in.
LEMMA PlugSafe ==
  ASSUME IInv, NEW s \in Sticks, NEW n \in Names, Plug(s, n)
  PROVE  IInv'
<1>1. Typed /\ Plain /\ Moved(n, s) /\ slot[n] = NoStick /\ ~Present(s)
  BY TypedIsPlain DEF IInv, Plug
<1>2. /\ UNCHANGED <<platform, mounted, pc, arg, todo, at, list, id, dev, handle, result>>
      /\ UNCHANGED <<listed, steady>>
  BY DEF Plug, scan, ghost
<1>3. /\ slot' \in [Names -> Sticks \cup {NoStick}] /\ moves' \in [Names -> 0 .. MaxHotplug]
      /\ slot'[n] = s /\ \A m \in Names \ {n} : slot'[m] = slot[m]
  BY <1>1, MoveType
<1>4. Plain'
  BY <1>1, <1>2, <1>3 DEF Plain
<1>5. Typed'
  BY <1>4, TypedIsPlain, PTL
<1>6. Machine'
  <2>1. \A m \in Names : slot[m] # s
    BY <1>1 DEF Present
  <2>2. Machine /\ s # NoStick
    BY WipeAssumption DEF IInv
  <2> QED
    BY <1>2, <1>3, <2>1, <2>2 DEF Machine
<1>7. OneWriter'
  BY <1>2 DEF IInv, OneWriter, Macos
<1>8. ASSUME NEW q \in Procs PROVE Read(q)' /\ Stage(q)'
  <2>1. Read(q)'
    BY <1>1, <1>2, MoveRead
  <2>2. Stage(q)
    BY DEF IInv
  <2>3. handle[q] # NoStick => dev[q].name \in Names \ {n}
    <3>1. dev[q] # Nobody => dev[q].name \in Names
      BY <1>1, Somebody DEF Typed
    <3> QED
      BY <1>1, <2>2, <3>1 DEF Stage
  <2>4. handle[q] # NoStick => slot'[dev[q].name] = handle[q]
    BY <1>3, <2>2, <2>3 DEF Stage
  <2> QED
    BY <1>2, <2>1, <2>2, <2>4 DEF Stage, Macos
<1> QED
  BY <1>5, <1>6, <1>7, <1>8 DEF IInv

\* A stick is pulled.
LEMMA UnplugSafe ==
  ASSUME IInv, NEW n \in Names, Unplug(n)
  PROVE  IInv'
<1>1. Typed /\ Plain /\ Moved(n, NoStick) /\ slot[n] # NoStick
  BY TypedIsPlain DEF IInv, Unplug
<1>2. /\ UNCHANGED <<platform, pc, arg, todo, at, list, id, dev, result>>
      /\ UNCHANGED <<listed, steady>>
      /\ mounted' = [mounted EXCEPT ![n] = "no"]
      /\ handle' = [p \in Procs |-> IF handle[p] = slot[n] THEN NoStick ELSE handle[p]]
  BY DEF Unplug, scan, ghost
<1>3. /\ slot' \in [Names -> Sticks \cup {NoStick}] /\ moves' \in [Names -> 0 .. MaxHotplug]
      /\ slot'[n] = NoStick /\ \A m \in Names \ {n} : slot'[m] = slot[m]
  BY <1>1, MoveType
<1>4. mounted'[n] = "no" /\ \A m \in Names \ {n} : mounted'[m] = mounted[m]
  BY <1>1, <1>2 DEF Plain
<1>5. Plain'
  BY <1>1, <1>2, <1>3 DEF Plain
<1>6. Typed'
  BY <1>5, TypedIsPlain, PTL
<1>7. Machine'
  BY <1>3, <1>4 DEF IInv, Machine
<1>8. OneWriter'
  BY <1>2 DEF IInv, OneWriter, Macos
<1>9. ASSUME NEW q \in Procs PROVE Read(q)' /\ Stage(q)'
  <2>1. Read(q)'
    BY <1>1, <1>2, MoveRead
  <2>2. Stage(q)
    BY DEF IInv
  <2>3. handle'[q] # NoStick => handle'[q] = handle[q] /\ handle[q] # slot[n]
    BY <1>2
  <2>4. dev[q] # Nobody => dev[q].name \in Names
    BY <1>1, Somebody DEF Typed
  <2>5. handle'[q] # NoStick => dev[q].name \in Names \ {n}
    BY <2>2, <2>3, <2>4 DEF Stage
  <2>6. dev[q] # Nobody /\ mounted[dev[q].name] # "yes" => mounted'[dev[q].name] # "yes"
    BY <1>4, <2>4
  <2>7. handle'[q] # NoStick =>
          /\ pc[q] = "write" /\ slot'[dev[q].name] = handle'[q]
          /\ ~Macos => mounted'[dev[q].name] = "no"
          /\ steady[q] => dev[q].size \subseteq SizesOf(handle'[q]) /\ handle'[q] \notin Fixed
    BY <1>3, <1>4, <2>2, <2>3, <2>5 DEF Stage
  <2> QED
    BY <1>2, <2>1, <2>2, <2>6, <2>7 DEF Stage, Macos
<1> QED
  BY <1>6, <1>7, <1>8, <1>9 DEF IInv

\* The desktop mounts a volume.
LEMMA MountSafe ==
  ASSUME IInv, NEW n \in Names, Mount(n)
  PROVE  IInv'
<1>1. Typed /\ Plain /\ slot[n] # NoStick
  BY TypedIsPlain DEF IInv, Mount
<1>2. /\ UNCHANGED <<platform, slot, moves, pc, arg, todo, at, list, id, dev, handle, result>>
      /\ UNCHANGED <<listed, steady>>
  BY DEF Mount, scan, ghost
<1>3. /\ mounted'[n] \in {"late", "yes"} /\ \A m \in Names \ {n} : mounted'[m] = mounted[m]
      /\ mounted' \in [Names -> {"no", "yes", "late"}]
  BY <1>1 DEF Plain, Mount
<1>4. \A q \in Procs : Macos /\ pc[q] \in {"answered", "open", "write"} /\ dev[q].name = n =>
        mounted'[n] = "late"
  BY <1>1 DEF Plain, Mount
<1>5. Plain'
  BY <1>1, <1>2, <1>3 DEF Plain
<1>6. Typed'
  BY <1>5, TypedIsPlain, PTL
<1>7. Machine'
  BY <1>1, <1>2, <1>3 DEF IInv, Machine
<1>8. OneWriter'
  BY <1>2 DEF IInv, OneWriter, Macos
<1>9. ASSUME NEW q \in Procs PROVE Read(q)' /\ Stage(q)'
  <2>1. Read(q) /\ Stage(q)
    BY DEF IInv
  <2>2. Read(q)'
    BY <1>2, <2>1 DEF Read, Looked, Identified, Macos
  <2>3. dev[q] # Nobody => dev[q].name \in Names
    BY <1>1, Somebody DEF Typed
  <2>4. Macos /\ pc[q] \in {"answered", "open", "write"} => mounted'[dev[q].name] # "yes"
    BY <1>3, <1>4, <2>1, <2>3 DEF Stage
  <2>5. ~Macos /\ handle[q] # NoStick => mounted'[dev[q].name] = "no"
    <3>1. ~Macos => handle[q] # slot[n]
      BY DEF Mount
    <3> QED
      BY <1>3, <2>1, <2>3, <3>1 DEF Stage
  <2> QED
    BY <1>2, <2>1, <2>2, <2>4, <2>5 DEF Stage, Macos
<1> QED
  BY <1>6, <1>7, <1>8, <1>9 DEF IInv

-----------------------------------------------------------------------------
\* Initially nobody knows anything.
LEMMA InitSafe == Init => IInv
<1> SUFFICES ASSUME Init PROVE IInv
  OBVIOUS
<1>1. /\ at = [p \in Procs |-> Nobody] /\ list = [p \in Procs |-> <<>>]
      /\ dev = [p \in Procs |-> Nobody] /\ handle = [p \in Procs |-> NoStick]
      /\ pc = [p \in Procs |-> "idle"] /\ mounted = [n \in Names |-> "no"]
  BY DEF Init
<1>2. steady \in [Procs -> BOOLEAN]
  BY DEF Init
<1>3. moves \in [Names -> 0 .. MaxHotplug]
  <2>1. 0 \in 0 .. MaxHotplug
    BY WipeAssumption
  <2>2. moves = [n \in Names |-> 0]
    BY DEF Init
  <2> QED
    BY <2>1, <2>2
<1>4. Plain
  BY <1>2, <1>3, NoList DEF Init, Plain, Results
<1>5. Machine
  BY DEF Init, Machine
<1>6. OneWriter
  BY <1>1 DEF OneWriter
<1>7. ASSUME NEW p \in Procs PROVE Read(p) /\ Stage(p)
  BY <1>1 DEF Read, Looked, Identified, Stage
<1> QED
  BY <1>4, <1>5, <1>6, <1>7, TypedIsPlain DEF IInv

\* Every step keeps the inductive invariant.
LEMMA NextSafe == IInv /\ [Next]_vars => IInv'
<1> SUFFICES ASSUME IInv, [Next]_vars PROVE IInv'
  OBVIOUS
<1>1. CASE Next
  BY <1>1, StepSafe, PlugSafe, UnplugSafe, MountSafe DEF Next
<1>2. CASE UNCHANGED vars
  <2>1. /\ UNCHANGED <<platform, slot, mounted, moves, pc, arg, todo, at, list, id, dev>>
        /\ UNCHANGED <<handle, result, listed, steady>>
    BY <1>2 DEF vars, world, scan, ghost
  <2>2. Typed /\ Plain
    BY TypedIsPlain DEF IInv
  <2>3. Plain'
    BY <2>1, <2>2 DEF Plain
  <2>4. Typed'
    BY <2>3, TypedIsPlain, PTL
  <2>5. Machine' /\ OneWriter'
    BY <2>1 DEF IInv, Machine, OneWriter, Macos
  <2>6. ASSUME NEW q \in Procs PROVE Read(q)' /\ Stage(q)'
    <3>1. /\ \A d : Looked(d)' <=> Looked(d)
          /\ \A d : Identified(d)' <=> Identified(d)
      BY <2>1 DEF Looked, Identified, Macos
    <3>2. Read(q)'
      BY <2>1, <3>1, Zenon DEF IInv, Read
    <3>3. Stage(q)'
      BY <2>1 DEF IInv, Stage, Macos
    <3> QED
      BY <3>2, <3>3
  <2> QED
    BY <2>4, <2>5, <2>6 DEF IInv
<1> QED
  BY <1>1, <1>2

\* However many processes, names and sticks there are, and wherever the sticks move,
\* each process has read what IInv says and each stage knows what it needs.
THEOREM CommandSafe == Spec => []IInv
<1>1. Init => IInv
  BY InitSafe
<1>2. IInv /\ [Next]_vars => IInv'
  BY NextSafe
<1> QED
  BY <1>1, <1>2, PTL DEF Spec

\* The variables have their types, and a list holds only devices that were read.
THEOREM TypesKept == Spec => []TypeOK
<1>1. IInv => TypeOK
  BY DEF IInv, Typed
<1> QED
  BY <1>1, CommandSafe, PTL

\* The stick open_device opens is the one cmd_wipe listed at the path, however sticks
\* move, if it was listed with a serial number no other has and is not swapped after
\* open_device has read its id.
THEOREM RightStick == Spec => []WipesListedStick
<1>1. IInv => WipesListedStick
  <2> SUFFICES ASSUME IInv, NEW p \in Procs, handle[p] # NoStick, NotSwapped(p),
                      Unique(listed[p]), id[p] = Key[listed[p]]
               PROVE  handle[p] = listed[p]
    BY DEF WipesListedStick
  <2>1. pc[p] = "write" /\ handle[p] = dev[p].stick /\ handle[p] \in Sticks
    <3>1. handle[p] \in Sticks \cup {NoStick} /\ Stage(p)
      BY DEF IInv, Typed, TypeOK
    <3> QED
      BY <3>1 DEF Stage, NotSwapped
  <2>2. listed[p] \in Sticks /\ dev[p] # Nobody /\ dev[p].id = Key[listed[p]]
    BY <2>1 DEF IInv, Stage
  <2>3. dev[p].name \in Names
    BY <2>2, Somebody DEF IInv, Typed
  <2>4. Key[listed[p]] \in {dev[p].name, Key[handle[p]], Model[handle[p]]}
    BY <2>1, <2>2 DEF IInv, Read, Identified
  <2>5. Key[listed[p]] # dev[p].name /\ Key[listed[p]] # Model[handle[p]]
    BY <2>1, <2>2, <2>3, WipeAssumption DEF Unique
  <2> QED
    BY <2>1, <2>4, <2>5 DEF Unique
<1> QED
  BY <1>1, CommandSafe, PTL

\* A disk that is not removable is never opened, unless it took the name after
\* open_device's enumeration looked at it.
THEOREM DisksSpared == Spec => []NeverFixed
<1>1. IInv => NeverFixed
  BY WipeAssumption DEF IInv, Stage, NeverFixed
<1> QED
  BY <1>1, CommandSafe, PTL

\* Nothing is written under a mounted volume; on macOS, unless it was mounted after
\* the unmount.
THEOREM MountsSpared == Spec => []NeverOverMounted
<1>1. IInv => NeverOverMounted
  <2> SUFFICES ASSUME IInv, NEW p \in Procs, NEW n \in Names,
                      pc[p] = "write", slot[n] = handle[p]
               PROVE  mounted[n] = "no" \/ (Macos /\ mounted[n] = "late")
    BY DEF NeverOverMounted
  <2>1. CASE handle[p] = NoStick
    BY <2>1 DEF IInv, Machine
  <2>2. CASE handle[p] # NoStick
    <3>1. slot[dev[p].name] = slot[n] /\ dev[p] # Nobody
      BY <2>2 DEF IInv, Stage
    <3>2. dev[p].name = n
      BY <2>2, <3>1, Somebody DEF IInv, Machine, Typed
    <3>3. ~Macos => mounted[n] = "no"
      BY <2>2, <3>2 DEF IInv, Stage
    <3>4. Macos => mounted[n] # "yes"
      BY <3>2 DEF IInv, Stage
    <3>5. mounted[n] \in {"no", "yes", "late"}
      BY DEF IInv, Typed, TypeOK
    <3> QED
      BY <3>3, <3>4, <3>5
  <2> QED
    BY <2>1, <2>2
<1> QED
  BY <1>1, CommandSafe, PTL

\* On Linux O_EXCL keeps two sufur processes from holding the same stick.
THEOREM WritersApart == Spec => []OneWriter
<1>1. IInv => OneWriter
  BY DEF IInv
<1> QED
  BY <1>1, CommandSafe, PTL

\* The size that places the backup table is that of the stick that is open, or 0: on
\* macOS if it is the one the id was read from, on Linux if the name has not changed
\* hands since the enumeration came to it.
THEOREM SizeRight == Spec => []HandleSizeIsRight
<1>1. IInv => HandleSizeIsRight
  <2> SUFFICES ASSUME IInv, NEW p \in Procs, handle[p] # NoStick,
                      IF Macos THEN NotSwapped(p) ELSE steady[p]
               PROVE  dev[p].size \subseteq SizesOf(handle[p])
    BY DEF HandleSizeIsRight
  <2>1. pc[p] = "write" /\ dev[p] # Nobody
    BY DEF IInv, Stage
  <2>2. CASE Macos
    BY <2>1, <2>2 DEF IInv, Read, Looked, NotSwapped
  <2>3. CASE ~Macos
    BY <2>3 DEF IInv, Stage
  <2> QED
    BY <2>2, <2>3
<1> QED
  BY <1>1, CommandSafe, PTL
=============================================================================
