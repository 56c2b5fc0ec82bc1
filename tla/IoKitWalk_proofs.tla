--------------------------- MODULE IoKitWalk_proofs ---------------------------
(***************************************************************************)
(* Proofs about the macOS enumeration, for every registry and every depth: *)
(* no reference is lost or given back twice, the metadata is merged as     *)
(* promised, and the USB device found is the nearest.                      *)
(***************************************************************************)
EXTENDS IoKitWalk, FiniteSetTheorems, TLAPS

Climbing == {"names", "registry", "descriptor"}

\* The types of everything but the counters, and where each step of enumerate is in
\* the registry: away from the media only on a walk or at the ancestor it returned.
Shape ==
  /\ pc \in {"next", "filter", "names", "registry", "properties", "descriptor",
             "plugin", "query", "ids", "strings", "push", "done"}
  /\ left \subseteq Media /\ media \in Media \cup {NoEntry} /\ cur \in Entries \cup {NoEntry}
  /\ depth \in 0 .. MaxDepth /\ uuids \in BOOLEAN
  /\ names \subseteq Names /\ registry \subseteq Fields
  /\ asked \in 0 .. 3 /\ desc \subseteq Fields
  /\ info \in [Fields -> {"none", "registry", "descriptor"}]
  /\ pc \notin {"next", "done"} => media \in Media /\ cur \in Entries
  /\ pc \in {"filter", "query", "ids", "strings", "push"} => cur = media
  /\ pc \in {"properties", "plugin"} => cur # media
  /\ pc \in Climbing => (depth = 0 <=> cur = media)
  /\ pc \notin Climbing => depth = 0

\* The number of references enumerate knows of.
Owned(e) == IF pc \in {"next", "done"} THEN 0 ELSE IF e = media \/ e = cur THEN 1 ELSE 0
Held     == IF pc \in {"query", "ids", "strings"} THEN 1 ELSE 0

\* Whatever a missing UUID makes it forget, nothing is given back that is not owned.
Enough ==
  /\ refs \in [Entries -> Nat] /\ coms \in Nat
  /\ \A e \in Entries : refs[e] >= Owned(e)
  /\ coms >= Held

Exact == (\A e \in Entries : refs[e] = Owned(e)) /\ coms = Held

\* Until the registry has been asked, nothing is known; then what it had is marked.
Sourced ==
  /\ pc \in {"filter", "names", "registry", "properties"} => registry = {} /\ info = NoInfo
  /\ pc \in {"descriptor", "plugin", "query", "ids", "strings", "push"} =>
       (registry \ {"product"} # {} => \A f \in Fields : f \in registry <=> info[f] = "registry")

-----------------------------------------------------------------------------
\* The order the strings are asked for in.
LEMMA StringsAre ==
  /\ Len(Strings) = 3
  /\ \A i \in 0 .. 2 : Strings[i + 1] \in Fields
BY DEF Strings, Fields

\* An entry's parent, if it has one, is an entry and not a disk.
LEMMA ParentOf ==
  ASSUME NEW e \in Entries, Parent[e] # NoEntry
  PROVE  Parent[e] \in Entries /\ Parent[e] \notin Media
BY RegistryAssumption

\* Initially no entry is held.
LEMMA InitSafe == Init => Shape /\ Enough /\ Exact /\ Sourced
<1> SUFFICES ASSUME Init PROVE Shape /\ Enough /\ Exact /\ Sourced
  OBVIOUS
<1>1. Shape
  BY RegistryAssumption DEF Init, Shape, Climbing, NoInfo
<1>2. Enough /\ Exact
  BY DEF Init, Enough, Exact, Owned, Held
<1>3. Sourced
  BY DEF Init, Sourced
<1> QED
  BY <1>1, <1>2, <1>3

\* Every step keeps the shape.
LEMMA NextShape == Shape /\ [Next]_vars => Shape'
<1> SUFFICES ASSUME Shape, [Next]_vars PROVE Shape'
  OBVIOUS
<1> USE RegistryAssumption, ParentOf DEF Shape, Climbing
<1>1. CASE NextMedia
  BY <1>1 DEF NextMedia, usb, NoInfo
<1>2. CASE LastMedia \/ Skip \/ Keep \/ Push
  BY <1>2 DEF LastMedia, Skip, Keep, Push, usb
<1>3. CASE ReadNames
  BY <1>3 DEF ReadNames, Loops, Climb, GiveUp, usb, Names
<1>4. CASE NamesExhausted
  BY <1>4 DEF NamesExhausted, GiveUp, usb
<1>5. CASE FoundUsb
  BY <1>5 DEF FoundUsb, Walking, WithAncestor, usb
<1>6. CASE ClimbToUsb
  BY <1>6 DEF ClimbToUsb, Walking, Loops, Climb, usb
<1>7. CASE NoUsb
  BY <1>7 DEF NoUsb, Walking, GiveUp, WithoutAncestor, usb
<1>8. CASE ReadProperties
  BY <1>8 DEF ReadProperties, usb
<1>9. CASE NoUuid \/ CreatePlugin \/ QueryDevice
  BY <1>9 DEF NoUuid, CreatePlugin, QueryDevice, usb
<1>10. CASE ReadIds
  BY <1>10 DEF ReadIds, Fields
<1>11. CASE ReadString
  <2>1. asked \in 0 .. 2
    BY <1>11, StringsAre DEF ReadString
  <2>2. Strings[asked + 1] \in Fields
    BY <2>1, StringsAre
  <2> QED
    BY <1>11, <2>1, <2>2 DEF ReadString
<1>12. CASE ReleaseDevice
  BY <1>12 DEF ReleaseDevice, Merge
<1>13. CASE UNCHANGED vars
  BY <1>13 DEF vars
<1> QED
  BY <1>1, <1>2, <1>3, <1>4, <1>5, <1>6, <1>7, <1>8, <1>9, <1>10, <1>11, <1>12, <1>13 DEF Next

-----------------------------------------------------------------------------
\* A step moves the reference of each entry by as much as what enumerate knows of.
Moves(r, e) == r[e] - refs[e] = Owned(e)' - Owned(e)

\* Climbing: the parent is taken, and the entry left is given back unless it is the
\* media.
LEMMA ClimbMoves ==
  ASSUME Shape, Enough, pc \in Climbing, Climb, pc' = pc, media' = media
  PROVE  refs' \in [Entries -> Int] /\ \A e \in Entries : Moves(refs', e)
<1>1. /\ media \in Entries /\ cur \in Entries /\ Parent[cur] \in Entries
      /\ Parent[cur] # media /\ cur' = Parent[cur] /\ media \in Media
  BY RegistryAssumption, ParentOf DEF Shape, Climbing, Climb
<1>2. refs' = UnlessMedia(Retained(refs, Parent[cur]), cur)
  BY DEF Climb
<1>3. refs \in [Entries -> Nat]
  BY DEF Enough
<1>4. pc \notin {"next", "done"}
  BY DEF Climbing
<1>5. CASE cur = media
  <2>1. refs' = [refs EXCEPT ![Parent[cur]] = @ + 1]
    BY <1>2, <1>5 DEF UnlessMedia, Retained
  <2> QED
    BY <1>1, <1>3, <1>4, <1>5, <2>1 DEF Moves, Owned
<1>6. CASE cur # media
  <2>1. refs' = [[refs EXCEPT ![Parent[cur]] = @ + 1] EXCEPT ![cur] = @ - 1]
    BY <1>2, <1>6 DEF UnlessMedia, Retained, Released
  <2> QED
    BY <1>1, <1>3, <1>4, <1>6, <2>1 DEF Moves, Owned
<1> QED
  BY <1>5, <1>6

\* A walk that ends with nothing gives up the entry it had climbed to.
LEMMA GiveUpMoves ==
  ASSUME Shape, Enough, pc \in Climbing, GiveUp, pc' \notin {"next", "done"},
         media' = media
  PROVE  refs' \in [Entries -> Int] /\ \A e \in Entries : Moves(refs', e)
<1>1. media \in Entries /\ cur \in Entries /\ cur' = media
  BY RegistryAssumption DEF Shape, Climbing, GiveUp
<1>2. refs' = IF cur = media THEN refs ELSE [refs EXCEPT ![cur] = @ - 1]
  BY DEF GiveUp, UnlessMedia, Released
<1>3. refs \in [Entries -> Nat]
  BY DEF Enough
<1>4. pc \notin {"next", "done"}
  BY DEF Climbing
<1> QED
  BY <1>1, <1>2, <1>3, <1>4 DEF Moves, Owned

\* The other steps that take or give back a reference.
LEMMA OtherMoves ==
  ASSUME Shape, Enough,
         NextMedia \/ Skip \/ Push \/ Keep \/ ReadProperties \/ CreatePlugin
  PROVE  refs' \in [Entries -> Int] /\ \A e \in Entries : Moves(refs', e)
<1>1. refs \in [Entries -> Nat] /\ Media \subseteq Entries
  BY RegistryAssumption DEF Enough
<1>2. CASE NextMedia
  <2>1. PICK m \in left : media' = m /\ cur' = m /\ refs' = [refs EXCEPT ![m] = @ + 1]
    BY <1>2 DEF NextMedia, Retained
  <2>2. pc = "next" /\ pc' = "filter" /\ m \in Entries
    BY <1>1, <1>2 DEF NextMedia, Shape
  <2> QED
    BY <1>1, <2>1, <2>2 DEF Moves, Owned
<1>3. CASE Skip \/ Push
  <2>1. /\ pc \in {"filter", "push"} /\ pc' = "next" /\ media \in Entries /\ cur = media
        /\ refs' = [refs EXCEPT ![media] = @ - 1]
    BY <1>1, <1>3 DEF Skip, Push, Released, Shape
  <2> QED
    BY <1>1, <2>1 DEF Moves, Owned
<1>4. CASE Keep
  <2>1. /\ pc = "filter" /\ pc' = "names" /\ UNCHANGED <<media, cur>>
        /\ Parent[media] \in Entries
        /\ refs' = [[refs EXCEPT ![Parent[media]] = @ + 1] EXCEPT ![Parent[media]] = @ - 1]
    BY <1>4, RegistryAssumption DEF Keep, Released, Retained
  <2> QED
    BY <1>1, <2>1 DEF Moves, Owned
<1>5. CASE ReadProperties \/ CreatePlugin
  <2>1. /\ pc \in {"properties", "plugin"} /\ pc' \in {"descriptor", "push", "query"}
        /\ media' = media /\ cur' = media /\ cur \in Entries /\ cur # media
        /\ refs' = [refs EXCEPT ![cur] = @ - 1]
    BY <1>5 DEF ReadProperties, CreatePlugin, Released, Shape
  <2> QED
    BY <1>1, <2>1 DEF Moves, Owned
<1> QED
  BY <1>2, <1>3, <1>4, <1>5

\* The steps that touch no reference leave the count as it is, unless a UUID is missing.
LEMMA StillMoves ==
  ASSUME Shape, Enough,
         \/ LastMedia \/ FoundUsb \/ QueryDevice \/ ReadIds \/ ReadString \/ ReleaseDevice
         \/ UNCHANGED vars
  PROVE  refs' \in [Entries -> Int] /\ \A e \in Entries : Moves(refs', e)
<1>1. refs' = refs /\ UNCHANGED <<media, cur>> /\ refs \in [Entries -> Nat]
  BY DEF LastMedia, FoundUsb, QueryDevice, ReadIds, ReadString, ReleaseDevice, vars, Enough
<1>2. pc \in {"next", "done"} <=> pc' \in {"next", "done"}
  BY DEF LastMedia, FoundUsb, QueryDevice, ReadIds, ReadString, ReleaseDevice, vars,
         Walking, WithAncestor
<1> QED
  BY <1>1, <1>2 DEF Moves, Owned

\* So every step but the one that leaves for want of a UUID.
LEMMA StepMoves ==
  ASSUME Shape, Enough, [Next]_vars, ~NoUuid
  PROVE  refs' \in [Entries -> Int] /\ \A e \in Entries : Moves(refs', e)
<1>1. CASE ReadNames
  <2>1. pc = "names" /\ media' = media /\ pc \in Climbing
    BY <1>1 DEF ReadNames, Climbing
  <2>2. (Climb /\ pc' = pc) \/ (GiveUp /\ pc' = "registry")
    BY <1>1 DEF ReadNames
  <2>3. pc' \notin {"next", "done"}
    BY <2>1, <2>2
  <2> QED
    BY <2>1, <2>2, <2>3, ClimbMoves, GiveUpMoves
<1>2. CASE NamesExhausted \/ NoUsb
  <2>1. pc \in Climbing /\ media' = media /\ GiveUp /\ pc' \in {"registry", "descriptor", "push"}
    BY <1>2 DEF NamesExhausted, NoUsb, Walking, WithoutAncestor, Climbing
  <2> QED
    BY <2>1, GiveUpMoves
<1>3. CASE ClimbToUsb
  <2>1. pc \in Climbing /\ media' = media /\ Climb /\ pc' = pc
    BY <1>3 DEF ClimbToUsb, Walking, Climbing
  <2> QED
    BY <2>1, ClimbMoves
<1> QED
  BY <1>1, <1>2, <1>3, OtherMoves, StillMoves DEF Next

\* The COM interfaces: made by one step, given up by two.
LEMMA StepHolds ==
  ASSUME Shape, Enough, [Next]_vars, ~NoUuid
  PROVE  coms' \in Int /\ coms' - coms = Held' - Held
<1>1. coms \in Nat
  BY DEF Enough
<1>2. CASE NextMedia \/ LastMedia \/ Skip \/ Keep \/ Push
  BY <1>1, <1>2 DEF NextMedia, LastMedia, Skip, Keep, Push, Held
<1>3. CASE ReadNames \/ NamesExhausted
  BY <1>1, <1>3 DEF ReadNames, NamesExhausted, Held
<1>4. CASE FoundUsb \/ ClimbToUsb \/ NoUsb
  BY <1>1, <1>4 DEF FoundUsb, ClimbToUsb, NoUsb, Walking, WithAncestor, WithoutAncestor, Held
<1>5. CASE ReadProperties \/ CreatePlugin \/ QueryDevice \/ ReadIds \/ ReadString \/ ReleaseDevice
  BY <1>1, <1>5 DEF ReadProperties, CreatePlugin, QueryDevice, ReadIds, ReadString,
                    ReleaseDevice, Held
<1>6. CASE UNCHANGED vars
  BY <1>1, <1>6 DEF vars, Held
<1> QED
  BY <1>2, <1>3, <1>4, <1>5, <1>6 DEF Next

\* Two counts that move together stay in order, and equal.
LEMMA Shifted ==
  ASSUME NEW a \in Int, NEW b \in Int, NEW c \in Int, NEW d \in Nat,
         b - a = d - c, a >= c
  PROVE  b \in Nat /\ b >= d /\ (a = c => b = d)
OBVIOUS

\* No step but that one leaves a reference behind, and none gives one back twice.
LEMMA NextCounts ==
  ASSUME Shape, Enough, [Next]_vars
  PROVE  Enough' /\ (~NoUuid /\ Exact => Exact')
<1>1. CASE NoUuid
  <2>1. /\ refs' = refs /\ coms' = coms /\ media' = media /\ cur' = media
        /\ pc \in {"plugin", "query"} /\ pc' = "push"
    BY <1>1 DEF NoUuid
  <2> QED
    BY <1>1, <2>1 DEF Enough, Owned, Held
<1>2. CASE ~NoUuid
  <2>1. ASSUME NEW e \in Entries
        PROVE  refs'[e] \in Int /\ refs'[e] - refs[e] = Owned(e)' - Owned(e)
    BY <1>2, StepMoves DEF Moves
  <2>2. ASSUME NEW e \in Entries PROVE refs[e] \in Nat /\ Owned(e) \in 0 .. 1 /\ Owned(e)' \in 0 .. 1
    BY DEF Enough, Owned
  <2>3. coms' \in Int /\ coms' - coms = Held' - Held /\ coms \in Nat
    BY <1>2, StepHolds DEF Enough
  <2>4. ASSUME NEW e \in Entries PROVE refs'[e] \in Nat /\ refs'[e] >= Owned(e)'
    BY <2>1, <2>2 DEF Enough
  <2>5. Held \in 0 .. 1 /\ Held' \in 0 .. 1
    BY DEF Held
  <2>6. refs' \in [Entries -> Nat]
    BY <1>2, <2>4, StepMoves
  <2>7. coms' \in Nat /\ coms' >= Held' /\ (coms = Held => coms' = Held')
    <3>1. coms >= Held
      BY DEF Enough
    <3>2. Held \in Int /\ Held' \in Nat
      BY DEF Held
    <3> QED
      BY <2>3, <3>1, <3>2, Shifted
  <2>8. ASSUME NEW e \in Entries, refs[e] = Owned(e) PROVE refs'[e] = Owned(e)'
    BY <2>1, <2>2, <2>8
  <2>9. Enough'
    BY <2>4, <2>6, <2>7, Zenon DEF Enough
  <2>10. Exact => Exact'
    BY <2>7, <2>8, Zenon DEF Exact
  <2> QED
    BY <2>9, <2>10
<1> QED
  BY <1>1, <1>2

-----------------------------------------------------------------------------
\* The fields of the registry stay what they were marked as: later steps only fill gaps.
LEMMA NextSourced == Shape /\ Sourced /\ [Next]_vars => Sourced'
<1> SUFFICES ASSUME Shape, Sourced, [Next]_vars PROVE Sourced'
  OBVIOUS
<1>1. CASE NextMedia
  BY <1>1 DEF NextMedia, Sourced
<1>2. CASE LastMedia \/ Skip \/ Keep \/ Push
  BY <1>2 DEF LastMedia, Skip, Keep, Push, Sourced
<1>3. CASE ReadNames \/ NamesExhausted
  BY <1>3 DEF ReadNames, NamesExhausted, Sourced
<1>4. CASE FoundUsb \/ ClimbToUsb \/ NoUsb
  BY <1>4 DEF FoundUsb, ClimbToUsb, NoUsb, Walking, WithAncestor, WithoutAncestor, Sourced
<1>5. CASE ReadProperties
  <2>1. PICK got \in SUBSET Fields :
          /\ registry' = got
          /\ info' = [f \in Fields |-> IF Useful(got) /\ f \in got THEN "registry" ELSE "none"]
    BY <1>5 DEF ReadProperties
  <2>2. pc' \in {"descriptor", "push"}
    BY <1>5 DEF ReadProperties
  <2>3. Useful(got) <=> got \ {"product"} # {}
    BY DEF Useful, Fields
  <2>4. ASSUME got \ {"product"} # {}, NEW f \in Fields
        PROVE  f \in got <=> info'[f] = "registry"
    BY <2>1, <2>3, <2>4
  <2> QED
    BY <2>1, <2>2, <2>4 DEF Sourced
<1>6. CASE ReleaseDevice
  <2>1. ASSUME NEW f \in Fields PROVE info'[f] = "registry" <=> info[f] = "registry"
    BY <1>6 DEF ReleaseDevice, Merge
  <2> QED
    BY <1>6, <2>1 DEF ReleaseDevice, Sourced
<1>7. CASE NoUuid \/ CreatePlugin \/ QueryDevice \/ ReadIds \/ ReadString
  BY <1>7 DEF NoUuid, CreatePlugin, QueryDevice, ReadIds, ReadString, Sourced
<1>8. CASE UNCHANGED vars
  BY <1>8 DEF vars, Sourced
<1> QED
  BY <1>1, <1>2, <1>3, <1>4, <1>5, <1>6, <1>7, <1>8 DEF Next

\* Whether the UUIDs can be had does not change, and without them only one step matters.
LEMMA Uuids == [Next]_vars => uuids' = uuids /\ (uuids => ~NoUuid)
BY DEF Next, NextMedia, LastMedia, Skip, Keep, ReadNames, NamesExhausted, FoundUsb, ClimbToUsb,
       NoUsb, ReadProperties, NoUuid, CreatePlugin, QueryDevice, ReadIds, ReadString,
       ReleaseDevice, Push, vars

\* The inductive invariant.
IInv == Shape /\ Enough /\ Sourced /\ (uuids => Exact)

\* Every step keeps it.
LEMMA NextSafe == IInv /\ [Next]_vars => IInv'
<1> SUFFICES ASSUME IInv, [Next]_vars PROVE IInv'
  OBVIOUS
<1>1. Shape /\ Enough /\ Sourced /\ (uuids => Exact)
  BY Zenon DEF IInv
<1>2. Shape' /\ Sourced' /\ Enough' /\ (~NoUuid /\ Exact => Exact')
  BY <1>1, NextShape, NextSourced, NextCounts
<1>3. uuids' = uuids /\ (uuids => ~NoUuid)
  BY Uuids
<1> QED
  BY <1>1, <1>2, <1>3, Zenon DEF IInv

\* Whatever a walk meets and wherever it stops, every variable keeps its type and what
\* enumerate owns is accounted for.
THEOREM WalkSafe == Spec => []IInv
<1>1. Init => IInv
  BY InitSafe, Zenon DEF IInv
<1> QED
  BY <1>1, NextSafe, PTL DEF Spec

\* The guard and the walk own one reference each, and never both the same.
LEMMA OwnersOwned ==
  ASSUME Shape, NEW e \in Entries
  PROVE  Cardinality(Owners(e)) = Owned(e)
<1>1. CASE pc \in {"next", "done"}
  BY <1>1, FS_EmptySet DEF Owners, Owned
<1>2. CASE pc \notin {"next", "done"} /\ e = media
  <2>1. Owners(e) = {"guard"}
    BY <1>2 DEF Owners
  <2> QED
    BY <1>2, <2>1, FS_Singleton DEF Owned
<1>3. CASE pc \notin {"next", "done"} /\ e # media /\ e = cur
  <2>1. Owners(e) = {"walk"}
    BY <1>3 DEF Owners
  <2> QED
    BY <1>3, <2>1, FS_Singleton DEF Owned
<1>4. CASE pc \notin {"next", "done"} /\ e # media /\ e # cur
  <2>1. Owners(e) = {}
    BY <1>4 DEF Owners
  <2> QED
    BY <1>4, <2>1, FS_EmptySet DEF Owned
<1> QED
  BY <1>1, <1>2, <1>3, <1>4

\* Every variable has its type; no release ever outruns its retain, with or without
\* the UUIDs: a count below zero would be no natural number.
THEOREM TypesKept == Spec => []TypeOK
<1>1. IInv => TypeOK
  <2> SUFFICES ASSUME IInv PROVE TypeOK
    OBVIOUS
  <2>1. Shape /\ Enough
    BY Zenon DEF IInv
  <2>2. asked \in 0 .. Len(Strings)
    BY <2>1, StringsAre DEF Shape
  <2> QED
    BY <2>1, <2>2 DEF TypeOK, Shape, Enough
<1> QED
  BY <1>1, WalkSafe, PTL

\* In every registry, at every moment: the process owns exactly the references that
\* enumerate's guard and its walk are to give back, and the interface it has open.
THEOREM ReferencesBalanced == Spec => []ReferencesBalance
<1>1. IInv => ReferencesBalance
  <2> SUFFICES ASSUME Shape, uuids => Exact PROVE ReferencesBalance
    BY Zenon DEF IInv
  <2>1. ASSUME Exact
        PROVE  /\ \A e \in Entries : refs[e] = Cardinality(Owners(e))
               /\ coms = IF pc \in {"query", "ids", "strings"} THEN 1 ELSE 0
    BY <2>1, OwnersOwned DEF Exact, Held
  <2> QED
    BY <2>1, Zenon DEF ReferencesBalance
<1> QED
  BY <1>1, WalkSafe, PTL

\* What the stick's registry entry says is never overruled by its descriptors.
THEOREM RegistryFirst == Spec => []RegistryTakesPriority
<1>1. IInv => RegistryTakesPriority
  BY DEF IInv, Sourced, RegistryTakesPriority
<1> QED
  BY <1>1, WalkSafe, PTL

-----------------------------------------------------------------------------
\* A set of naturals that has a member has a least one.
LEMMA Least ==
  ASSUME NEW T \in SUBSET Nat, T # {}
  PROVE  \E n \in T : \A m \in T : n <= m
<1> DEFINE Less == {ss \in Nat \X Nat : ss[1] < ss[2]}
<1>1. Less = OpToRel(<, Nat)
  BY DEF OpToRel
<1>2. IsWellFoundedOn(Less, Nat)
  BY <1>1, NatLessThanWellFounded
<1>3. PICK x \in T : \A y \in T : <<y, x>> \notin Less
  <2> HIDE DEF Less
  <2> QED
    BY <1>2, WFMin
<1>4. ASSUME NEW y \in T PROVE x <= y
  <2>1. <<y, x>> \notin Less /\ x \in Nat /\ y \in Nat
    BY <1>3
  <2> QED
    BY <2>1
<1> QED
  BY <1>3, <1>4

\* One level of ancestors above those of `below`.
Above(below) == [e \in Entries |-> IF below[e] = NoEntry THEN NoEntry ELSE Parent[below[e]]]

\* f holds the ancestors of the first n levels.
Levels(f, n) ==
  f = [k \in 0 .. n |-> IF k = 0 THEN [e \in Entries |-> e] ELSE Above(f[k - 1])]

\* One more level.
LEMMA OneMoreLevel ==
  ASSUME NEW n \in Nat, n # 0, NEW f, Levels(f, n - 1)
  PROVE  \E g : Levels(g, n)
<1> DEFINE g == [k \in 0 .. n |-> IF k < n THEN f[k] ELSE Above(f[n - 1])]
<1>1. ASSUME NEW k \in 0 .. n, k < n PROVE g[k] = f[k]
  BY <1>1
<1>2. g[n] = Above(f[n - 1])
  OBVIOUS
<1>3. g = [k \in 0 .. n |-> g[k]]
  OBVIOUS
<1> HIDE DEF g
<1>4. ASSUME NEW k \in 0 .. n
      PROVE  g[k] = IF k = 0 THEN [e \in Entries |-> e] ELSE Above(g[k - 1])
  <2>1. CASE k = 0
    <3>1. g[0] = f[0] /\ 0 \in 0 .. n - 1
      BY <1>1, <2>1
    <3> QED
      BY <2>1, <3>1 DEF Levels
  <2>2. CASE k # 0 /\ k < n
    <3>1. k \in 0 .. n - 1 /\ k - 1 \in 0 .. n /\ k - 1 < n
      BY <2>2
    <3>2. g[k] = f[k] /\ g[k - 1] = f[k - 1]
      BY <1>1, <2>2, <3>1
    <3>3. f[k] = Above(f[k - 1])
      BY <2>2, <3>1 DEF Levels
    <3> QED
      BY <2>2, <3>2, <3>3
  <2>3. CASE k # 0 /\ k = n
    <3>1. n - 1 \in 0 .. n /\ n - 1 < n
      BY <2>3
    <3>2. g[n - 1] = f[n - 1]
      BY <1>1, <3>1
    <3> QED
      BY <1>2, <2>3, <3>2
  <2> QED
    BY <2>1, <2>2, <2>3
<1>5. [k \in 0 .. n |-> g[k]] =
        [k \in 0 .. n |-> IF k = 0 THEN [e \in Entries |-> e] ELSE Above(g[k - 1])]
  BY <1>4
<1>6. Levels(g, n)
  BY <1>3, <1>5 DEF Levels
<1> QED
  BY <1>6

\* By induction, there are ancestors of any number of levels: otherwise there would be
\* a least number of which there are none.
LEMMA LevelsExist == \A n \in Nat : \E f : Levels(f, n)
<1> DEFINE Bad == {n \in Nat : ~\E f : Levels(f, n)}
<1> SUFFICES ASSUME Bad # {} PROVE FALSE
  OBVIOUS
<1>1. PICK n \in Bad : \A m \in Bad : n <= m
  BY Least
<1>2. n # 0
  <2>1. Levels([k \in 0 .. 0 |-> [e \in Entries |-> e]], 0)
    BY DEF Levels
  <2> QED
    BY <2>1
<1>3. n - 1 \in Nat /\ n - 1 \notin Bad
  BY <1>1, <1>2
<1>4. PICK f : Levels(f, n - 1)
  BY <1>3
<1> QED
  BY <1>2, <1>4, OneMoreLevel

\* So the recursive definition of Ancestor is what its equations say.
LEMMA AncestorLevels == Levels(Ancestor, MaxDepth)
<1>1. PICK f : Levels(f, MaxDepth)
  BY LevelsExist, RegistryAssumption
<1>2. ASSUME NEW f1
      PROVE  Levels(f1, MaxDepth) <=>
               f1 = [k \in 0 .. MaxDepth |-> [e \in Entries |->
                       IF k = 0 THEN e
                       ELSE IF f1[k - 1][e] = NoEntry THEN NoEntry ELSE Parent[f1[k - 1][e]]]]
  BY DEF Levels, Above
<1>3. Ancestor = CHOOSE f1 : Levels(f1, MaxDepth)
  BY <1>2 DEF Ancestor
<1> QED
  BY <1>1, <1>3

\* The levels one by one.
LEMMA AncestorOf ==
  ASSUME NEW e \in Entries
  PROVE  /\ Ancestor[0][e] = e
         /\ \A k \in 1 .. MaxDepth :
              Ancestor[k][e] = IF Ancestor[k - 1][e] = NoEntry THEN NoEntry
                               ELSE Parent[Ancestor[k - 1][e]]
<1> DEFINE A == Ancestor
<1>1. A = [k \in 0 .. MaxDepth |-> IF k = 0 THEN [x \in Entries |-> x] ELSE Above(A[k - 1])]
  BY AncestorLevels DEF Levels
<1> HIDE DEF A
<1>2. A[0] = [x \in Entries |-> x]
  BY <1>1, RegistryAssumption
<1>3. ASSUME NEW k \in 1 .. MaxDepth PROVE A[k] = Above(A[k - 1])
  <2>1. k \in 0 .. MaxDepth /\ k # 0
    BY RegistryAssumption
  <2> QED
    BY <1>1, <2>1
<1>4. ASSUME NEW k \in 1 .. MaxDepth
      PROVE  A[k][e] = IF A[k - 1][e] = NoEntry THEN NoEntry ELSE Parent[A[k - 1][e]]
  <2>1. ASSUME NEW below
        PROVE  Above(below)[e] = IF below[e] = NoEntry THEN NoEntry ELSE Parent[below[e]]
    BY DEF Above
  <2>2. Above(A[k - 1])[e] = IF A[k - 1][e] = NoEntry THEN NoEntry ELSE Parent[A[k - 1][e]]
    BY <2>1
  <2> QED
    BY <1>3, <2>2
<1>5. A[0][e] = e
  BY <1>2
<1> QED
  BY <1>4, <1>5 DEF A

\* Above an entry without a parent there is nothing, however far up.
LEMMA NothingAbove ==
  ASSUME NEW e \in Entries, NEW d \in 0 .. MaxDepth, Ancestor[d][e] \in Entries,
         Parent[Ancestor[d][e]] = NoEntry
  PROVE  \A k \in d + 1 .. MaxDepth : Ancestor[k][e] = NoEntry
<1> DEFINE Bad == {k \in d + 1 .. MaxDepth : Ancestor[k][e] # NoEntry}
<1> SUFFICES ASSUME Bad # {} PROVE FALSE
  OBVIOUS
<1>1. d \in Nat /\ MaxDepth \in Nat /\ Ancestor[d][e] # NoEntry
  BY RegistryAssumption
<1>2. Bad \in SUBSET Nat
  BY <1>1
<1>3. PICK k \in Bad : \A m \in Bad : k <= m
  <2> HIDE DEF Bad
  <2> QED
    BY <1>2, Least
<1>4. k \in d + 1 .. MaxDepth /\ k \in 1 .. MaxDepth /\ Ancestor[k][e] # NoEntry
  BY <1>1, <1>3
<1>5. Ancestor[k][e] = IF Ancestor[k - 1][e] = NoEntry THEN NoEntry ELSE Parent[Ancestor[k - 1][e]]
  BY <1>4, AncestorOf
<1>6. CASE k = d + 1
  <2>1. k - 1 = d
    BY <1>1, <1>6
  <2> QED
    BY <1>1, <1>4, <1>5, <2>1
<1>7. CASE k # d + 1
  <2>1. k - 1 \in d + 1 .. MaxDepth /\ ~(k <= k - 1)
    BY <1>1, <1>4, <1>7
  <2>2. k - 1 \notin Bad
    BY <1>3, <2>1
  <2>3. Ancestor[k - 1][e] = NoEntry
    BY <2>1, <2>2
  <2> QED
    BY <1>4, <1>5, <2>3
<1> QED
  BY <1>6, <1>7

-----------------------------------------------------------------------------
\* A walk is at the ancestor it has climbed to, and passed no USB device; an ancestor
\* handed to the caller is the nearest one.
Found ==
  \E k \in 1 .. MaxDepth - 1 :
    /\ cur = Ancestor[k][media] /\ UsbAncestorAt(k)
    /\ \A j \in 1 .. k - 1 : ~UsbAncestorAt(j)

Walked ==
  /\ pc \in {"registry", "descriptor"} =>
       /\ cur = Ancestor[depth][media]
       /\ \A j \in 0 .. depth - 1 : ~UsbAncestorAt(j)
  /\ pc \in {"properties", "plugin"} => Found

\* A walk starts at the media.
LEMMA WalkStarts ==
  ASSUME Shape, pc' \notin {"properties", "plugin"}, cur' = media', depth' = 0,
         media' \in Entries
  PROVE  Walked'
<1>1. Ancestor[0][media'] = media'
  BY AncestorOf
<1>2. \A j \in 0 .. depth' - 1 : FALSE
  OBVIOUS
<1> QED
  BY <1>1, <1>2 DEF Walked

\* One entry further up.
LEMMA WalkClimbs ==
  ASSUME Shape, Walked, ClimbToUsb
  PROVE  Walked'
<1>1. /\ pc \in {"registry", "descriptor"} /\ pc' = pc /\ media' = media
      /\ depth < MaxDepth /\ depth' = depth + 1 /\ cur' = Parent[cur]
      /\ cur \notin LegacyUsb \cup HostUsb /\ media \in Entries /\ cur \in Entries
  BY RegistryAssumption DEF ClimbToUsb, Walking, Loops, IsUsb, Climb, Shape
<1>2. depth \in Nat /\ MaxDepth \in Nat /\ depth + 1 \in 1 .. MaxDepth /\ (depth + 1) - 1 = depth
  BY <1>1, RegistryAssumption DEF Shape
<1>3. cur = Ancestor[depth][media] /\ \A j \in 0 .. depth - 1 : ~UsbAncestorAt(j)
  BY <1>1 DEF Walked
<1>4. Ancestor[depth + 1][media] = Parent[cur]
  <2>1. cur # NoEntry
    BY <1>1, RegistryAssumption
  <2> QED
    BY <1>1, <1>2, <1>3, <2>1, AncestorOf
<1>5. ASSUME NEW j \in 0 .. depth' - 1 PROVE ~UsbAncestorAt(j)
  <2>1. j \in 0 .. depth - 1 \/ j = depth
    BY <1>1, <1>2
  <2>2. ~UsbAncestorAt(depth)
    BY <1>1, <1>3 DEF UsbAncestorAt
  <2> QED
    BY <1>3, <2>1, <2>2
<1> QED
  BY <1>1, <1>4, <1>5 DEF Walked, UsbAncestorAt

\* The ancestor a walk returns is not the media itself.
LEMMA WalkFinds ==
  ASSUME Shape, Walked, FoundUsb
  PROVE  Walked'
<1>1. /\ pc \in {"registry", "descriptor"} /\ pc' \in {"properties", "plugin"}
      /\ UNCHANGED <<media, cur>> /\ depth < MaxDepth /\ cur # media
      /\ cur \in LegacyUsb \cup HostUsb /\ depth # 0
  BY DEF FoundUsb, Walking, WithAncestor, Loops, IsUsb, Shape, Climbing
<1>2. cur = Ancestor[depth][media] /\ \A j \in 0 .. depth - 1 : ~UsbAncestorAt(j)
  BY <1>1 DEF Walked
<1>3. depth \in 1 .. MaxDepth - 1 /\ \A j \in 1 .. depth - 1 : j \in 0 .. depth - 1
  BY <1>1, RegistryAssumption DEF Shape
<1>4. Found
  BY <1>1, <1>2, <1>3 DEF Found, UsbAncestorAt
<1>5. Found'
  BY <1>1, <1>4 DEF Found, UsbAncestorAt
<1> QED
  BY <1>1, <1>5 DEF Walked

\* Every step keeps the walk's account.
LEMMA NextWalked == Shape /\ Walked /\ [Next]_vars => Walked'
<1> SUFFICES ASSUME Shape, Walked, [Next]_vars PROVE Walked'
  OBVIOUS
<1>1. Shape'
  BY NextShape
<1>2. Media \subseteq Entries
  BY RegistryAssumption
<1>3. CASE NextMedia \/ Skip \/ Keep \/ Push \/ LastMedia
  BY <1>3 DEF NextMedia, Skip, Keep, Push, LastMedia, Walked
<1>4. CASE ReadNames
  <2>1. CASE pc' = "names"
    BY <2>1 DEF Walked
  <2>2. CASE pc' = "registry"
    <3>1. cur' = media /\ depth' = 0 /\ media' = media /\ media \in Entries
      BY <1>2, <1>4, <2>2 DEF ReadNames, GiveUp, Shape
    <3> QED
      BY <2>2, <3>1, WalkStarts
  <2> QED
    BY <1>4, <2>1, <2>2 DEF ReadNames
<1>5. CASE NamesExhausted \/ NoUsb
  <2>1. /\ cur' = media /\ depth' = 0 /\ media' = media /\ media \in Entries
        /\ pc' \in {"registry", "descriptor", "push"}
    BY <1>2, <1>5 DEF NamesExhausted, NoUsb, Walking, WithoutAncestor, GiveUp, Shape
  <2> QED
    BY <2>1, WalkStarts
<1>6. CASE FoundUsb
  BY <1>6, WalkFinds
<1>7. CASE ClimbToUsb
  BY <1>7, WalkClimbs
<1>8. CASE ReadProperties
  <2>1. /\ cur' = media /\ depth' = 0 /\ media' = media /\ media \in Entries
        /\ pc' \in {"descriptor", "push"}
    BY <1>2, <1>8 DEF ReadProperties, Shape, Climbing
  <2> QED
    BY <2>1, WalkStarts
<1>9. CASE NoUuid \/ CreatePlugin \/ QueryDevice \/ ReadIds \/ ReadString \/ ReleaseDevice
  BY <1>9 DEF NoUuid, CreatePlugin, QueryDevice, ReadIds, ReadString, ReleaseDevice, Walked
<1>10. CASE UNCHANGED vars
  BY <1>10 DEF vars, Walked, Found, UsbAncestorAt
<1> QED
  BY <1>3, <1>4, <1>5, <1>6, <1>7, <1>8, <1>9, <1>10 DEF Next

\* In every registry: the USB device whose names a stick gets is the nearest above it
\* and never its own disk or the hub further up.
THEOREM NearestFound == Spec => []NearestUsb
<1>1. Init => Shape /\ Walked
  BY InitSafe DEF Init, Walked
<1>2. Shape /\ Walked /\ [Next]_vars => Shape' /\ Walked'
  BY NextShape, NextWalked
<1>3. Walked => NearestUsb
  BY DEF Walked, Found, NearestUsb
<1> QED
  BY <1>1, <1>2, <1>3, PTL DEF Spec

\* A walk that ends with nothing, and for no failed lookup, has seen all there is
\* within its reach: no USB device is there.
THEOREM NothingMeansNothing == Spec => NoneMeansNone
<1> DEFINE Ends == /\ Walking /\ pc' = WithoutAncestor
                   /\ depth = MaxDepth \/ Parent[cur] = NoEntry
           None == \A k \in 1 .. (MaxDepth - 1) : ~UsbAncestorAt(k)
<1>1. Init => Shape /\ Walked
  BY InitSafe DEF Init, Walked
<1>2. Shape /\ Walked /\ [Next]_vars => Shape' /\ Walked'
  BY NextShape, NextWalked
<1>3. ASSUME Shape, Walked, Next, Ends PROVE None
  <2>1. pc \in {"registry", "descriptor"} /\ media \in Entries /\ cur \in Entries
    BY <1>3, RegistryAssumption DEF Walking, Shape
  <2>2. cur = Ancestor[depth][media] /\ \A j \in 0 .. depth - 1 : ~UsbAncestorAt(j)
    BY <1>3, <2>1 DEF Walked
  <2>3. depth \in 0 .. MaxDepth /\ MaxDepth \in Nat
    BY <1>3, RegistryAssumption DEF Shape
  <2>4. NoUsb
    BY <1>3, <2>1 DEF Next, NextMedia, LastMedia, Skip, Keep, ReadNames, NamesExhausted,
          FoundUsb, ClimbToUsb, ReadProperties, NoUuid, CreatePlugin, QueryDevice, ReadIds,
          ReadString, ReleaseDevice, Push, Walking, WithAncestor, WithoutAncestor
  <2>5. CASE depth = MaxDepth
    BY <2>2, <2>3, <2>5
  <2>6. CASE depth # MaxDepth
    <3>1. Parent[cur] = NoEntry /\ depth < MaxDepth
      BY <1>3, <2>3, <2>6
    <3>2. ~UsbAncestorAt(depth)
      <4>1. cur \notin LegacyUsb \cup HostUsb \/ cur = media
        BY <2>4, <3>1 DEF NoUsb, Loops, IsUsb
      <4>2. media \notin LegacyUsb \cup HostUsb
        BY <1>3, <2>1, RegistryAssumption DEF Shape
      <4> QED
        BY <2>2, <4>1, <4>2 DEF UsbAncestorAt
    <3>3. ASSUME NEW k \in depth + 1 .. MaxDepth PROVE ~UsbAncestorAt(k)
      <4>1. Ancestor[k][media] = NoEntry
        BY <2>1, <2>2, <2>3, <3>1, NothingAbove
      <4> QED
        BY <4>1, RegistryAssumption DEF UsbAncestorAt
    <3>4. ASSUME NEW k \in 1 .. (MaxDepth - 1) PROVE ~UsbAncestorAt(k)
      <4>1. k \in 0 .. depth - 1 \/ k = depth \/ k \in depth + 1 .. MaxDepth
        BY <2>3
      <4> QED
        BY <2>2, <3>2, <3>3, <4>1
    <3> QED
      BY <3>4
  <2> QED
    BY <2>5, <2>6
<1>4. Shape /\ Walked /\ [Next]_vars => [Ends => None]_vars
  BY <1>3
<1> QED
  BY <1>1, <1>2, <1>4, PTL DEF Spec, NoneMeansNone
=============================================================================
