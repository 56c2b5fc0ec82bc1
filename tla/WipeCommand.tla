----------------------------- MODULE WipeCommand -----------------------------
(***************************************************************************)
(* `sufur wipe <path>` from the command line to the opened device: cmd_wipe *)
(* lists the devices and turns the path into a DeviceId, open_device lists *)
(* them again and turns the id into a path, which it opens.  Sticks come   *)
(* and go, names are reused, volumes are mounted, and other sufur          *)
(* processes run, between any two steps, those of one enumeration          *)
(* included.  How the opened device is written is GptWipe; how macOS       *)
(* unmounts it is DiskUnmount.                                             *)
(***************************************************************************)
EXTENDS Integers, Sequences, FiniteSets

CONSTANTS Procs,       \* sufur processes
          Names,       \* kernel names: /dev/sdb, /dev/disk4
          Sticks, NoStick,
          Fixed,       \* the ones that are not removable, disks in fact
          Key, Model,  \* with and without the serial number: ID_SERIAL, composite_id()
          Size,        \* Size[s]: bytes
          MaxHotplug   \* bound: how often sticks are moved

\* A serial number, where there is one, is part of the key and of no model; a key
\* is no kernel name.
ASSUME WipeAssumption ==
  /\ IsFiniteSet(Names) /\ NoStick \notin Sticks \cup Names /\ Fixed \subseteq Sticks
  /\ \A s \in Sticks : Key[s] \notin Names \cup {NoStick} /\ Model[s] # NoStick
  /\ \A s, t \in Sticks : Key[s] # Model[s] => Key[s] # Model[t]
  /\ MaxHotplug \in Nat

VARIABLES platform,              \* "linux" or "macos"
          slot, mounted, moves,  \* the machine: who has a name, who is mounted, and
                                 \* how often a name was given or taken away
          pc, arg,               \* per process: the path asked for
          todo, at, list,        \* the enumeration in progress, the name it is at
          id, dev,               \* DeviceId asked for, device open_device found
          handle, result,
          listed, steady         \* ghosts: the stick listed at arg; the name that was
                                 \* opened had been its stick's all the time

world == <<platform, slot, mounted, moves>>
scan  == <<todo, at, list>>
ghost == <<listed, steady>>
vars  == <<world, pc, arg, scan, id, dev, handle, result, ghost>>

Macos == platform = "macos"
Present(s) == \E n \in Names : slot[n] = s

\* A Device.  Nothing here depends on its size, so `size` is the set of all that may
\* have been read; `stick` (whose id it is) and `since` (how often the name had changed
\* hands when it was first looked at) are not in the code.
Nobody == [name |-> "", id |-> "", size |-> {}, stick |-> NoStick, since |-> 0]

\* Mutant: disks are listed too.
RemovableAny(s) == s # NoStick

\* The filters of the enumerations: virtual names, `removable`, whole disks.
Removable(s) == s # NoStick /\ s \notin Fixed

\* Mutant: no fallback for a stick without a key.
IdsByKey(n, s) == {IF s = NoStick THEN NoStick ELSE Key[s]}

\* The ids an enumeration may give stick s at n: its key; on macOS the key without
\* the serial number, if only that cannot be read; or the kernel's name, if the USB
\* device does not answer, if udev has no entry yet or no more, or if udev fails
\* altogether and list_devices falls back to sysfs, which knows no other.
Ids(n, s) ==
  {n} \cup (IF s = NoStick THEN {} ELSE {Key[s]} \cup (IF Macos THEN {Model[s]} ELSE {}))

\* What may be read as the size of s: unwrap_or(0) when there is nothing to read, or
\* it cannot be read or parsed.
SizesOf(s) == {0} \cup (IF s = NoStick THEN {} ELSE {Size[s]})

\* Iterator::find: of the devices at these places in the list the first, if there is one.
First(devices, hits) ==
  IF hits = {} THEN Nobody ELSE devices[CHOOSE i \in hits : \A j \in hits : i <= j]

Init ==
  /\ platform \in {"linux", "macos"}
  /\ slot \in {f \in [Names -> Sticks \cup {NoStick}] :
                 \A m, n \in Names : m # n /\ f[m] = f[n] => f[m] = NoStick}
  /\ mounted = [n \in Names |-> "no"] /\ moves = [n \in Names |-> 0]
  /\ pc = [p \in Procs |-> "idle"]
  /\ arg = [p \in Procs |-> ""]
  /\ todo = [p \in Procs |-> {}] /\ at = [p \in Procs |-> Nobody]
  /\ list = [p \in Procs |-> <<>>]
  /\ id = [p \in Procs |-> ""] /\ dev = [p \in Procs |-> Nobody]
  /\ handle = [p \in Procs |-> NoStick] /\ result = [p \in Procs |-> "none"]
  /\ listed = [p \in Procs |-> NoStick] /\ steady = [p \in Procs |-> FALSE]

\* The enumeration is done with, and its list dropped.
ScanEnds(p) ==
  /\ todo' = [todo EXCEPT ![p] = {}] /\ list' = [list EXCEPT ![p] = <<>>]
  /\ UNCHANGED at

\* The command ends; its variables go, and a handle it holds is closed.
End(p, r) ==
  /\ pc' = [pc EXCEPT ![p] = "done"] /\ result' = [result EXCEPT ![p] = r]
  /\ handle' = [handle EXCEPT ![p] = NoStick]
  /\ ScanEnds(p)
  /\ arg' = [arg EXCEPT ![p] = ""]
  /\ id' = [id EXCEPT ![p] = ""] /\ dev' = [dev EXCEPT ![p] = Nobody]
  /\ listed' = [listed EXCEPT ![p] = NoStick] /\ steady' = [steady EXCEPT ![p] = FALSE]

Goto(p, l) == pc' = [pc EXCEPT ![p] = l] /\ UNCHANGED result

\* list_devices begins; `names` are the ones whose devices matter to the caller.
Scan(p, l, names) ==
  /\ Goto(p, l)
  /\ todo' = [todo EXCEPT ![p] = names]
  /\ list' = [list EXCEPT ![p] = <<>>] /\ UNCHANGED at

\* cmd_wipe is given a path; of the list it wants nothing but the device there.
Start(p) ==
  /\ pc[p] = "idle"
  /\ \E n \in Names : arg' = [arg EXCEPT ![p] = n] /\ Scan(p, "list", {n})
  /\ UNCHANGED <<world, id, dev, handle, ghost>>

\* There is nothing to enumerate with: an error from IOKit, and on Linux, where
\* sysfs makes up for udev, an empty list.
ScanFails(p) ==
  /\ pc[p] \in {"list", "relist"} /\ list[p] = <<>> /\ at[p] = Nobody
  /\ End(p, IF Macos THEN "INTERNAL" ELSE "DEVICE_NOT_FOUND")
  /\ UNCHANGED world

\* enumerate() comes to a device, in the system's order, and passes it over or goes
\* on to read it.
Examine(p, n) ==
  /\ n \in todo[p] /\ at[p] = Nobody
  /\ todo' = [todo EXCEPT ![p] = @ \ {n}]
  /\ at' = [at EXCEPT ![p] = IF Removable(slot[n])
              THEN [name |-> n, id |-> "", size |-> SizesOf(slot[n]),
                    stick |-> slot[n], since |-> moves[n]]
              ELSE Nobody]
  /\ UNCHANGED <<world, pc, arg, list, id, dev, handle, result, ghost>>

\* The attributes are read one by one, on Linux by name: what took the name meanwhile
\* may give the size and the id, or the id alone.  A registry entry stays the
\* stick's, but its USB device cannot be asked once the stick is gone.
Describe(p) ==
  LET n == at[p].name
      now == IF Macos /\ slot[n] # at[p].stick THEN NoStick ELSE slot[n] IN
  /\ at[p] # Nobody
  /\ \E i \in Ids(n, now) :
       list' = [list EXCEPT ![p] = Append(@,
         [at[p] EXCEPT !.id = i,
                       !.size = IF Macos THEN @ ELSE @ \cup SizesOf(now),
                       !.stick = IF now = NoStick THEN @ ELSE now])]
  /\ at' = [at EXCEPT ![p] = Nobody]
  /\ UNCHANGED <<world, pc, arg, todo, id, dev, handle, result, ghost>>

ListRead(p) == todo[p] = {} /\ at[p] = Nobody

\* cmd_wipe: the listed device with the path asked for.
Pick(p) ==
  LET found == First(list[p], {i \in DOMAIN list[p] : list[p][i].name = arg[p]}) IN
  /\ pc[p] = "list" /\ ListRead(p)
  /\ IF found = Nobody
       THEN End(p, "DEVICE_NOT_FOUND")
       ELSE /\ id' = [id EXCEPT ![p] = found.id]
            /\ listed' = [listed EXCEPT ![p] = found.stick]
            /\ Scan(p, "relist", Names) /\ UNCHANGED <<arg, dev, handle, steady>>
  /\ UNCHANGED world

\* Mutant: the handle keeps the size of the device listed first.
FoundFirst(found, p) == [found EXCEPT !.size = Head(list[p]).size]

\* The device open_device settles for: the first with the id.
Found(found, p) == found

\* Mutant: macOS opens the raw device without unmounting it.
AfterFindStraight == "open"

AfterFind == IF Macos THEN "unmount" ELSE "open"

\* Mutant: the device at the path the user gave.
WantedByName(d, p) == d.name = arg[p]

\* What open_device looks for.
Wanted(d, p) == d.id = id[p]

Find(p) ==
  LET found == First(list[p], {i \in DOMAIN list[p] : Wanted(list[p][i], p)}) IN
  /\ pc[p] = "relist" /\ ListRead(p)
  /\ IF found = Nobody
       THEN End(p, "DEVICE_NOT_FOUND")
       ELSE /\ dev' = [dev EXCEPT ![p] = Found(found, p)]
            /\ Goto(p, AfterFind) /\ ScanEnds(p)
            /\ UNCHANGED <<arg, id, handle, ghost>>
  /\ UNCHANGED world

\* unmount_disk: nothing of the disk is mounted any more, or somebody dissents, or
\* there is no such disk, or no session for it or no answer.
Unmount(p) ==
  LET n == dev[p].name IN
  /\ pc[p] = "unmount"
  /\ \/ /\ slot[n] # NoStick
        /\ mounted' = [mounted EXCEPT ![n] = "no"]
        /\ Goto(p, "answered") /\ UNCHANGED <<arg, scan, id, dev, handle, ghost>>
     \/ slot[n] = NoStick /\ End(p, "DEVICE_NOT_FOUND") /\ UNCHANGED mounted
     \/ \E r \in {"DEVICE_BUSY", "INTERNAL"} : End(p, r) /\ UNCHANGED mounted
  /\ UNCHANGED <<platform, slot, moves>>

\* The callback's answer reaches unmount_disk's caller.
Unmounted(p) ==
  /\ pc[p] = "answered"
  /\ Goto(p, "open")
  /\ UNCHANGED <<world, arg, scan, id, dev, handle, ghost>>

\* Mutant: the file is opened without O_EXCL.
ClaimedNever(n) == FALSE

\* O_EXCL on Linux: the kernel refuses a device that is mounted or so opened.
Claimed(n) ==
  ~Macos /\ (mounted[n] # "no" \/ \E q \in Procs : handle[q] = slot[n])

\* Why open() failed, and what the code makes of it.
Refusal(n) ==
  IF Macos THEN {"PERMISSION_DENIED"}
  ELSE (IF slot[n] = NoStick \/ Claimed(n) THEN {"DEVICE_BUSY"} ELSE {})
       \cup {"PERMISSION_DENIED"}

Open(p) ==
  LET n == dev[p].name IN
  /\ pc[p] = "open"
  /\ \/ /\ slot[n] # NoStick /\ ~Claimed(n)
        /\ handle' = [handle EXCEPT ![p] = slot[n]]
        /\ steady' = [steady EXCEPT ![p] = moves[n] = dev[p].since]
        /\ Goto(p, "write") /\ UNCHANGED <<arg, scan, id, dev, listed>>
     \/ \E r \in Refusal(n) : End(p, r)
  /\ UNCHANGED world

\* wipe_and_create_gpt on the handle, and the report; gptman's errors become
\* INTERNAL, the error of sync() is IO_ERROR.
Write(p) ==
  /\ pc[p] = "write"
  /\ \/ handle[p] # NoStick /\ End(p, "ok")
     \/ \E r \in {"INTERNAL", "IO_ERROR"} : End(p, r)
  /\ UNCHANGED world

\* The bound on all names' moves together.
HotplugLeft ==
  Cardinality({h \in Names \X (1 .. MaxHotplug) : h[2] <= moves[h[1]]}) < MaxHotplug

Moved(n, s) ==
  /\ HotplugLeft
  /\ slot' = [slot EXCEPT ![n] = s] /\ moves' = [moves EXCEPT ![n] = @ + 1]

Plug(s, n) ==
  /\ ~Present(s) /\ slot[n] = NoStick
  /\ Moved(n, s)
  /\ UNCHANGED <<platform, mounted, pc, arg, scan, id, dev, handle, result, ghost>>

\* A stick that leaves takes the open handles with it: they fail from then on.
Unplug(n) ==
  /\ slot[n] # NoStick
  /\ Moved(n, NoStick)
  /\ mounted' = [mounted EXCEPT ![n] = "no"]
  /\ handle' = [p \in Procs |-> IF handle[p] = slot[n] THEN NoStick ELSE handle[p]]
  /\ UNCHANGED <<platform, pc, arg, scan, id, dev, result, ghost>>

\* The desktop mounts a volume: "late" when a command that unmounts is past that.
Mount(n) ==
  /\ slot[n] # NoStick /\ mounted[n] = "no"
  /\ Macos \/ \A p \in Procs : handle[p] # slot[n]
  /\ mounted' = [mounted EXCEPT ![n] =
       IF Macos /\ \E p \in Procs : pc[p] \in {"answered", "open", "write"} /\ dev[p].name = n
       THEN "late" ELSE "yes"]
  /\ UNCHANGED <<platform, slot, moves, pc, arg, scan, id, dev, handle, result, ghost>>

Step(p) ==
  \/ Start(p) \/ ScanFails(p) \/ Describe(p) \/ Pick(p) \/ Find(p) \/ Open(p) \/ Write(p)
  \/ \E n \in Names : Examine(p, n)
  \/ Macos /\ (Unmount(p) \/ Unmounted(p))

Next ==
  \/ \E p \in Procs : Step(p)
  \/ \E n \in Names : Unplug(n) \/ Mount(n) \/ \E s \in Sticks : Plug(s, n)

Spec == Init /\ [][Next]_vars

-----------------------------------------------------------------------------
\* The variables have their types, and a list holds only devices that were read.
TypeOK ==
  /\ platform \in {"linux", "macos"}
  /\ slot \in [Names -> Sticks \cup {NoStick}]
  /\ mounted \in [Names -> {"no", "yes", "late"}] /\ moves \in [Names -> 0 .. MaxHotplug]
  /\ pc \in [Procs -> {"idle", "list", "relist", "unmount", "answered", "open", "write", "done"}]
  /\ arg \in [Procs -> Names \cup {""}] /\ todo \in [Procs -> SUBSET Names]
  /\ \A p \in Procs : at[p] # Nobody => at[p].name \in Names /\ at[p].stick \in Sticks
  /\ \A p \in Procs : \A i \in DOMAIN list[p] :
       list[p][i].name \in Names /\ list[p][i].stick \in Sticks /\ list[p][i].id # NoStick
  /\ result \in [Procs -> {"none", "ok", "DEVICE_NOT_FOUND", "DEVICE_BUSY",
                           "PERMISSION_DENIED", "INTERNAL", "IO_ERROR"}]
  /\ handle \in [Procs -> Sticks \cup {NoStick}]
  /\ listed \in [Procs -> Sticks \cup {NoStick}] /\ steady \in [Procs -> BOOLEAN]

\* The name open_device opened still led to the stick that gave the id there.
NotSwapped(p) == handle[p] = dev[p].stick

\* Stick s has an id of its own.
Unique(s) == Key[s] # Model[s] /\ \A t \in Sticks \ {s} : Key[t] # Key[s]

\* However sticks move between the two enumerations or while one is under way, and
\* whoever does them, the stick that is opened is the one that was listed at the path
\* the user gave, provided it was listed with its serial number, no other stick has
\* the same, and it is not swapped after open_device read its id.
WipesListedStick ==
  \A p \in Procs :
    handle[p] # NoStick /\ NotSwapped(p) /\ Unique(listed[p]) /\ id[p] = Key[listed[p]] =>
      handle[p] = listed[p]

\* The same of every stick: what "stable identifier" promises.
IdIsStable ==
  \A p \in Procs : handle[p] # NoStick /\ NotSwapped(p) => handle[p] = listed[p]

\* A disk that is not removable is never opened, be it that it has got the name the
\* user gave, or a name that serves as id; unless it took that name after
\* open_device's enumeration looked at who had it.
NeverFixed == \A p \in Procs : steady[p] => handle[p] \notin Fixed

\* Nothing is written under a mounted volume; on macOS, where the unmount and the
\* open are two steps, unless it was mounted after the unmount.
NeverOverMounted ==
  \A p \in Procs, n \in Names : pc[p] = "write" /\ slot[n] = handle[p] =>
    mounted[n] = "no" \/ (Macos /\ mounted[n] = "late")

\* On Linux two sufur processes never hold the same stick.
OneWriter ==
  ~Macos => \A p, q \in Procs : p # q /\ handle[p] # NoStick => handle[p] # handle[q]

\* The handle's size, which places the backup table, is that of the stick that is
\* opened, or 0, which GPT::new_from refuses, although another device is listed beside
\* it and sticks move.  On macOS the stick need only be the one that gave the id; on
\* Linux the name may not have changed hands since the enumeration came to it, for
\* one attribute may be another stick's.
HandleSizeIsRight ==
  \A p \in Procs :
    handle[p] # NoStick /\ (IF Macos THEN NotSwapped(p) ELSE steady[p]) =>
      dev[p].size \subseteq SizesOf(handle[p])
=============================================================================
