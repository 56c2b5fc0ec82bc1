----------------------------- MODULE IoKitWalk -----------------------------
(***************************************************************************)
(* The macOS enumeration (sufur-macos/src/iokit.rs and usb.rs): for every   *)
(* IOMedia object it climbs the IOService plane up to three times, and      *)
(* every entry the kernel hands out carries a reference that the code must  *)
(* give back by hand.  The strings themselves are left out; what is kept is *)
(* which of them were found, where, and who owns which reference.           *)
(***************************************************************************)
EXTENDS Naturals, FiniteSets, Sequences

CONSTANTS
    Entries,        \* registry entries
    Media,          \* the removable whole IOMedia objects among them
    Parent,         \* Parent[e]: its parent in the plane, or NoEntry
    NoEntry,
    Drivers,        \* entries of class IOBlockStorageDriver
    LegacyUsb,      \* entries of class IOUSBDevice
    HostUsb,        \* entries of class IOUSBHostDevice
    MaxDepth        \* MAX_DEPTH and MAX_PARENT_DEPTH, both 32 in the code

ASSUME RegistryAssumption ==
    /\ NoEntry \notin Entries
    /\ Media \subseteq Entries
    /\ Parent \in [Entries -> Entries \cup {NoEntry}]
    /\ \A e \in Entries : Parent[e] \notin Media
    /\ Drivers \subseteq Entries
    /\ LegacyUsb \cup HostUsb \subseteq Entries \ Media
    /\ MaxDepth \in Nat \ {0}

Fields == {"vendor_id", "product_id", "manufacturer", "product", "serial"}
Names == {"vendor", "model"}

VARIABLES
    pc,         \* where enumerate is
    left,       \* the objects the iterator has not produced yet
    media,      \* the one at hand
    cur,        \* `current` of the walk, or the entry it returned
    depth,      \* iterations of the walk so far
    refs,       \* refs[e]: references to e this process owns
    coms,       \* COM interfaces (plug-in, device) not yet released
    names,      \* which of vendor and model the first walk found
    registry,   \* the fields the USB ancestor had in the registry
    info,       \* UsbInfo: where each field came from
    asked,      \* control transfers descriptor_usb_info has made
    desc,       \* the fields it has got so far
    uuids       \* can CFUUID::constant_uuid_with_bytes be relied on?

vars == <<uuids, pc, left, media, cur, depth, refs, coms, names, registry, info,
          asked, desc>>
usb == <<asked, desc>>  \* what only the descriptors' steps touch

NoInfo == [f \in Fields |-> "none"]

Init ==
    /\ pc = "next"
    /\ left = Media
    /\ media = NoEntry /\ cur = NoEntry /\ depth = 0
    /\ refs = [e \in Entries |-> 0]
    /\ coms = 0
    /\ names = {} /\ registry = {} /\ info = NoInfo
    /\ asked = 0 /\ desc = {}
    /\ uuids \in BOOLEAN

------------------------------------------------------------------------
(* References.                                                             *)

Retained(r, e) == [r EXCEPT ![e] = @ + 1]

\* Mutant: the reference is never given back.
ReleasedNever(r, e) == r
Released(r, e) == [r EXCEPT ![e] = @ - 1]

\* Mutant: the media is given back as well.
UnlessMediaAlways(r, e) == Released(r, e)
\* `if current != media`: the caller's guard owns the media itself.
UnlessMedia(r, e) == IF e = media THEN r ELSE Released(r, e)

\* IORegistryEntryGetParentEntry succeeded: the walk owns the parent now and
\* gives up the entry it came from.
Climb ==
    /\ Parent[cur] # NoEntry
    /\ refs' = UnlessMedia(Retained(refs, Parent[cur]), cur)
    /\ cur' = Parent[cur]
    /\ depth' = depth + 1

\* The walk ends with nothing: the last entry is given up.  A parent lookup
\* may fail at any time, the stick can be pulled while it is listed.
GiveUp ==
    /\ refs' = UnlessMedia(refs, cur)
    /\ cur' = media
    /\ depth' = 0

\* The head of both `for` loops.
Loops == depth < MaxDepth

------------------------------------------------------------------------
(* enumerate: one object of the iterator, with its guard.                  *)

NextMedia ==
    /\ pc = "next"
    /\ \E m \in left :
        /\ left' = left \ {m}
        /\ media' = m
        /\ cur' = m
        /\ refs' = Retained(refs, m)
    /\ pc' = "filter"
    /\ depth' = 0
    /\ names' = {} /\ registry' = {} /\ info' = NoInfo
    /\ UNCHANGED <<uuids, coms, usb>>

LastMedia ==
    /\ pc = "next" /\ left = {}
    /\ pc' = "done"
    /\ UNCHANGED <<uuids, left, media, cur, depth, refs, coms, names, registry, info, usb>>

\* `continue`: a property is missing, or the parent is not a block storage
\* driver; the guard drops the media.
Skip ==
    /\ pc = "filter"
    /\ pc' = "next"
    /\ refs' = Released(refs, media)
    /\ UNCHANGED <<uuids, left, media, cur, depth, coms, names, registry, info, usb>>

\* has_block_storage_parent: the parent is taken, asked and given back.
Keep ==
    /\ pc = "filter"
    /\ Parent[media] \in Drivers
    /\ refs' = Released(Retained(refs, Parent[media]), Parent[media])
    /\ pc' = "names"
    /\ UNCHANGED <<uuids, left, media, cur, depth, coms, names, registry, info, usb>>

\* vendor_and_model, one iteration.
ReadNames ==
    /\ pc = "names" /\ Loops
    /\ \E found \in SUBSET Names : names' = names \cup found
    /\ \/ names' # Names /\ Climb /\ UNCHANGED pc
       \/ GiveUp /\ pc' = "registry"
    /\ UNCHANGED <<uuids, left, media, coms, registry, info, usb>>

NamesExhausted ==
    /\ pc = "names" /\ ~Loops
    /\ GiveUp
    /\ pc' = "registry"
    /\ UNCHANGED <<uuids, left, media, coms, names, registry, info, usb>>

------------------------------------------------------------------------
(* find_usb_ancestor, called by registry_usb_info and descriptor_usb_info. *)

\* Mutants: one of the two classes is forgotten.
IsUsbLegacy(e) == e \in LegacyUsb
IsUsbHost(e) == e \in HostUsb
IsUsb(e) == e \in LegacyUsb \/ e \in HostUsb

\* Where the caller goes on with the ancestor it was handed, and without one.
WithAncestor == IF pc = "registry" THEN "properties" ELSE "plugin"
WithoutAncestor == IF pc = "registry" THEN "descriptor" ELSE "push"

Walking == pc \in {"registry", "descriptor"}

FoundUsb ==
    /\ Walking /\ Loops
    /\ IsUsb(cur) /\ cur # media
    /\ pc' = WithAncestor
    /\ depth' = 0
    /\ UNCHANGED <<uuids, left, media, cur, refs, coms, names, registry, info, usb>>

ClimbToUsb ==
    /\ Walking /\ Loops
    /\ ~IsUsb(cur)
    /\ Climb
    /\ UNCHANGED <<uuids, pc, left, media, coms, names, registry, info, usb>>

\* The entry itself is USB, a lookup failed, or the depth is used up.
NoUsb ==
    /\ Walking
    /\ ~(Loops /\ IsUsb(cur) /\ cur # media)
    /\ GiveUp
    /\ pc' = WithoutAncestor
    /\ UNCHANGED <<uuids, left, media, coms, names, registry, info, usb>>

------------------------------------------------------------------------
(* The USB metadata of the ancestor.                                       *)

\* What registry_usb_info asks for before it calls its findings useful.
Useful(got) == got \cap {"vendor_id", "product_id", "manufacturer", "serial"} # {}

NeedsFallback(i) == \E f \in {"manufacturer", "product", "serial"} : i[f] = "none"

\* registry_usb_info, after the walk.
ReadProperties ==
    /\ pc = "properties"
    /\ \E got \in SUBSET Fields :
        /\ registry' = got
        /\ info' = [f \in Fields |->
                      IF Useful(got) /\ f \in got THEN "registry" ELSE "none"]
    /\ refs' = Released(refs, cur)
    /\ cur' = media
    /\ pc' = IF NeedsFallback(info') THEN "descriptor" ELSE "push"
    /\ UNCHANGED <<uuids, left, media, depth, coms, names, usb>>

\* descriptor_usb_info: a `?` on a UUID leaves at once, with what is held.
NoUuid ==
    /\ ~uuids
    /\ pc \in {"plugin", "query"}
    /\ pc' = "push"
    /\ cur' = media
    /\ UNCHANGED <<uuids, left, media, depth, refs, coms, names, registry, info, usb>>

\* IOCreatePlugInInterfaceForService, then the service is released.
CreatePlugin ==
    /\ pc = "plugin"
    /\ refs' = Released(refs, cur)
    /\ cur' = media
    /\ \/ coms' = coms + 1 /\ pc' = "query"
       \/ coms' = coms /\ pc' = "push"
    /\ UNCHANGED <<uuids, left, media, depth, names, registry, info, usb>>

\* QueryInterface, then IODestroyPlugInInterface whether it worked or not.
QueryDevice ==
    /\ pc = "query"
    /\ \/ coms' = (coms + 1) - 1 /\ pc' = "ids"
       \/ coms' = coms - 1 /\ pc' = "push"
    /\ UNCHANGED <<uuids, left, media, cur, depth, refs, names, registry, info, usb>>

\* GetDeviceVendor and GetDeviceProduct: an id that stays 0 is missing.
ReadIds ==
    /\ pc = "ids"
    /\ \E got \in SUBSET {"vendor_id", "product_id"} : desc' = got
    /\ asked' = 0
    /\ pc' = "strings"
    /\ UNCHANGED <<uuids, left, media, cur, depth, refs, coms, names, registry, info>>

\* The strings asked for, in this order.
Strings == <<"manufacturer", "product", "serial">>

\* get_usb_string and the control transfer under it.  The string is missing when
\* its index is 0, a call fails, nothing follows the header, or it is blank; the
\* other strings are asked for all the same.
ReadString ==
    /\ pc = "strings" /\ asked < Len(Strings)
    /\ asked' = asked + 1
    /\ \E got \in SUBSET {Strings[asked + 1]} : desc' = desc \cup got
    /\ UNCHANGED <<uuids, pc, left, media, cur, depth, refs, coms, names, registry, info>>

\* Mutant: the descriptors, which come later, win.
MergeLatest(i, got) ==
    [f \in Fields |-> IF f \in got THEN "descriptor" ELSE i[f]]

\* get_usb_info: the descriptors fill the gaps.
Merge(i, got) ==
    [f \in Fields |-> IF i[f] = "none" /\ f \in got THEN "descriptor" ELSE i[f]]

\* Release of the device, and the merge.
ReleaseDevice ==
    /\ pc = "strings" /\ asked = Len(Strings)
    /\ coms' = coms - 1
    /\ info' = Merge(info, desc)
    /\ desc' = {} /\ asked' = 0
    /\ pc' = "push"
    /\ UNCHANGED <<uuids, left, media, cur, depth, refs, names, registry>>

\* The Device is pushed and the guard drops the media.
Push ==
    /\ pc = "push"
    /\ pc' = "next"
    /\ refs' = Released(refs, media)
    /\ UNCHANGED <<uuids, left, media, cur, depth, coms, names, registry, info, usb>>

Next ==
    \/ NextMedia \/ LastMedia \/ Skip \/ Keep
    \/ ReadNames \/ NamesExhausted
    \/ FoundUsb \/ ClimbToUsb \/ NoUsb
    \/ ReadProperties \/ NoUuid \/ CreatePlugin \/ QueryDevice
    \/ ReadIds \/ ReadString \/ ReleaseDevice
    \/ Push

Spec == Init /\ [][Next]_vars

------------------------------------------------------------------------
(* Properties.                                                             *)

\* Every variable has its type.
TypeOK ==
    /\ pc \in {"next", "filter", "names", "registry", "properties", "descriptor",
               "plugin", "query", "ids", "strings", "push", "done"}
    /\ left \subseteq Media
    /\ media \in Media \cup {NoEntry}
    /\ cur \in Entries \cup {NoEntry}
    /\ depth \in 0..MaxDepth
    /\ refs \in [Entries -> Nat]
    /\ coms \in Nat
    /\ names \subseteq Names
    /\ registry \subseteq Fields
    /\ uuids \in BOOLEAN
    /\ asked \in 0..Len(Strings)
    /\ desc \subseteq Fields
    /\ info \in [Fields -> {"none", "registry", "descriptor"}]

\* At every moment the process owns exactly the references the code still knows
\* of: the guard's and, away from the media, the walk's; so the entry a walk is at
\* is never one that was given back, and none is forgotten ("caller must release
\* it", usb.rs:113).  A UUID that cannot be had does make descriptor_usb_info
\* forget what it holds.
Owners(e) ==
    IF pc \in {"next", "done"} THEN {}
    ELSE {o \in {"guard", "walk"} : IF o = "guard" THEN e = media ELSE e = cur /\ cur # media}

ReferencesBalance ==
    uuids =>
        /\ \A e \in Entries : refs[e] = Cardinality(Owners(e))
        /\ coms = IF pc \in {"query", "ids", "strings"} THEN 1 ELSE 0

\* The k-th ancestor, for the reference definition below.
Ancestor[k \in 0..MaxDepth] ==
    [e \in Entries |->
        IF k = 0 THEN e
        ELSE LET below == Ancestor[k - 1][e]
             IN  IF below = NoEntry THEN NoEntry ELSE Parent[below]]

UsbAncestorAt(k) == Ancestor[k][media] \in LegacyUsb \cup HostUsb

\* The ancestor whose vendor, product and serial name the stick is the nearest
\* USB device above it: not the hub above that one, nor a disk.
NearestUsb ==
    pc \in {"properties", "plugin"} =>
        \E k \in 1..(MaxDepth - 1) :
            /\ cur = Ancestor[k][media]
            /\ UsbAncestorAt(k)
            /\ \A j \in 1..(k - 1) : ~UsbAncestorAt(j)

\* When a walk ends with nothing although no lookup failed (it came to the top
\* of the plane, or used up its depth), no USB device was within its reach.
NoneMeansNone ==
    [][/\ Walking /\ pc' = WithoutAncestor
       /\ depth = MaxDepth \/ Parent[cur] = NoEntry
       => \A k \in 1..(MaxDepth - 1) : ~UsbAncestorAt(k)]_vars

\* "Merge: registry takes priority, fill gaps from descriptors" (usb.rs:410): the
\* fields the stick's registry entry has, and no others, are the registry's in the
\* result, whichever walks and transfers succeed afterwards; unless a product name
\* is all it has, which registry_usb_info does not count (usb.rs:184).
RegistryTakesPriority ==
    pc = "push" /\ registry \ {"product"} # {} =>
        \A f \in Fields : f \in registry <=> info[f] = "registry"
=============================================================================
