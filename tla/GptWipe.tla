------------------------------- MODULE GptWipe -------------------------------
(***************************************************************************)
(* sufur-core/src/partition.rs: wipe_and_create_gpt and                    *)
(* create_gpt_with_partition on an open device.  gptman is not part of the *)
(* repository: it lays its tables out in DEFAULT_SECTOR_SIZE sectors, one  *)
(* copy at each end of the size the handle reports, and may write the      *)
(* sectors of write_into in any order.  Writes reach a cache first (the    *)
(* kernel's on Linux, the stick's on macOS), which drains as it likes; a   *)
(* write may fail, the process be killed and the stick be pulled at any    *)
(* moment, and the wipe be run again.  The two functions differ in what    *)
(* the first partition entry says, and that is data here.                  *)
(***************************************************************************)
EXTENDS Integers

CONSTANTS Sticks,       \* [size, reported, old]: sectors it has, sectors the
                        \* handle says it has, and what is on it to begin with
          Entries,      \* sectors of one partition entry array
          HostSector,   \* 512-byte sectors in one logical block of the host
          MaxAttempts   \* bound: how many times the table is written

ASSUME GptAssumption ==
  /\ Entries \in Nat \ {0}
  /\ HostSector \in Nat \ {0}
  /\ MaxAttempts \in Nat
  /\ Sticks \subseteq [size : Nat, reported : Nat, old : {"blank", "mbr", "gpt"}]

VARIABLES stick, backend,  \* the device, and the platform crate that opened it
          cache, media,    \* what reads return; what survives losing power
          plugged, pulled, \* in its port; taken out during this attempt
          pc, todo,        \* the stage of the call, table sectors not written
          attempt, result

vars == <<stick, backend, cache, media, plugged, pulled, pc, todo, attempt, result>>
env  == <<stick, backend, plugged, pulled>>

Sector(n)  == 0 .. n - 1
Data       == [gen |-> -1, kind |-> "data"]
Table(k)   == [gen |-> attempt, kind |-> k]
RoundUp(n, unit) == ((n + unit - 1) \div unit) * unit

\* Where the two copies lie on a device of n sectors with blocks of `unit`.
HeaderAt(c, unit, n) == IF c = 1 THEN unit ELSE n - unit

EntriesAt(c, unit, n) ==
  LET first == IF c = 1 THEN 2 * unit ELSE n - unit - RoundUp(Entries, unit)
  IN  first .. first + Entries - 1

\* The sectors write_into fills, in DEFAULT_SECTOR_SIZE units of the reported size.
TableSectors ==
  UNION {{HeaderAt(c, 1, stick.reported)} \cup EntriesAt(c, 1, stick.reported) : c \in {1, 2}}

IsHeader(s) == \E c \in {1, 2} : s = HeaderAt(c, 1, stick.reported)

\* Mutant: any size will do.
TooSmallNever(n) == FALSE

\* A device GPT::new_from refuses: the two copies and the MBR do not fit.
TooSmall(n) == n < 2 * Entries + 3

\* What the stick holds before the first wipe, written by a host of its own kind.
Initially(st) ==
  [s \in Sector(st.size) |->
     IF st.old = "blank" \/ TooSmall(st.size) THEN Data
     ELSE IF s = 0 THEN [gen |-> 0, kind |-> "mbr"]
     ELSE IF st.old = "mbr" THEN Data
     ELSE IF \E c \in {1, 2} : s = HeaderAt(c, HostSector, st.size) THEN [gen |-> 0, kind |-> "hdr"]
     ELSE IF \E c \in {1, 2} : s \in EntriesAt(c, HostSector, st.size) THEN [gen |-> 0, kind |-> "ent"]
     ELSE Data]

Init ==
  /\ stick \in Sticks /\ backend \in {"linux", "macos"}
  /\ cache = Initially(stick) /\ media = cache
  /\ plugged = TRUE /\ pulled = FALSE
  /\ pc = "idle" /\ todo = {}
  /\ attempt = 0 /\ result = "none"

\* A public function of partition.rs is called on a freshly opened device.
Start ==
  /\ pc = "idle" /\ plugged /\ attempt < MaxAttempts
  /\ pc' = "new" /\ attempt' = attempt + 1
  /\ pulled' = FALSE /\ result' = "none"
  /\ UNCHANGED <<stick, backend, cache, media, plugged, todo>>

\* GPT::new_from only asks the handle for its size.
NewFrom ==
  /\ pc = "new"
  /\ IF TooSmall(stick.reported) THEN pc' = "close" /\ result' = "internal"
                                 ELSE pc' = "mbr" /\ UNCHANGED result
  /\ UNCHANGED <<env, cache, media, todo, attempt>>

\* The protective MBR, sector 0.
WriteMbr ==
  /\ pc = "mbr" /\ plugged
  /\ cache' = [cache EXCEPT ![0] = Table("mbr")]
  /\ todo' = TableSectors
  /\ pc' = "gpt"
  /\ UNCHANGED <<env, media, attempt, result>>

\* One sector of GPT::write_into.
WriteTable(s) ==
  /\ pc = "gpt" /\ plugged
  /\ s \in todo /\ s < stick.size
  /\ cache' = [cache EXCEPT ![s] = Table(IF IsHeader(s) THEN "hdr" ELSE "ent")]
  /\ todo' = todo \ {s}
  /\ UNCHANGED <<env, media, pc, attempt, result>>

\* Mutant: io.sync() left out.
SyncedNothing == UNCHANGED media

\* sync_all: on Linux it drains the cache; a macOS raw device answers ENOTTY,
\* which sync() takes for success.
Synced == IF backend = "linux" THEN plugged /\ media' = cache ELSE UNCHANGED media

Sync ==
  /\ pc = "gpt" /\ todo = {}
  /\ Synced
  /\ pc' = "close" /\ result' = "ok"
  /\ UNCHANGED <<env, cache, todo, attempt>>

\* What the command reports: IO_ERROR when the sync fails, after the last sector, and
\* INTERNAL when gptman does.
IoErrorCode == IF pc = "gpt" /\ todo = {} THEN "io" ELSE "internal"

\* Mutant: write_into goes on after the error.
IoErrorGoesOn ==
  /\ pc \in {"mbr", "gpt"}
  /\ pc' = "close" /\ result' = IoErrorCode
  /\ UNCHANGED <<env, cache, media, todo, attempt>>

\* A write or the sync fails; `?` returns at once.
IoError ==
  /\ pc \in {"mbr", "gpt"}
  /\ pc' = "close" /\ result' = IoErrorCode /\ todo' = {}
  /\ UNCHANGED <<env, cache, media, attempt>>

\* Mutant: the write cache outlives the handle.
DrainedNothing == UNCHANGED media

\* Closing a macOS raw device drains the stick's write cache.
Drained == media' = IF backend = "macos" /\ plugged THEN cache ELSE media

\* wipe_device drops the handle before it returns and the command reports.
Close ==
  /\ pc = "close"
  /\ Drained
  /\ pc' = "idle"
  /\ UNCHANGED <<env, cache, todo, attempt, result>>

\* The process is killed: the kernel closes the handle.
Kill ==
  /\ pc # "idle"
  /\ Drained
  /\ pc' = "idle" /\ result' = "killed" /\ todo' = {}
  /\ UNCHANGED <<env, cache, attempt>>

\* The cache drains by itself, a sector at a time and in any order.
Flush(s) ==
  /\ plugged /\ cache[s] # media[s]
  /\ media' = [media EXCEPT ![s] = cache[s]]
  /\ UNCHANGED <<env, cache, pc, todo, attempt, result>>

\* The stick is pulled, or loses power: what was only in the cache is lost.
Pull ==
  /\ plugged
  /\ plugged' = FALSE /\ pulled' = (pulled \/ pc # "idle")
  /\ cache' = media
  /\ UNCHANGED <<stick, backend, media, pc, todo, attempt, result>>

Plug ==
  /\ ~plugged /\ pc = "idle"
  /\ plugged' = TRUE
  /\ UNCHANGED <<stick, backend, pulled, cache, media, pc, todo, attempt, result>>

Next ==
  \/ Start
  \/ NewFrom \/ WriteMbr \/ Sync \/ IoError \/ Close \/ Kill
  \/ \E s \in todo : WriteTable(s)
  \/ \E s \in Sector(stick.size) : Flush(s)
  \/ Pull \/ Plug

Spec == Init /\ [][Next]_vars

-----------------------------------------------------------------------------
Content == [gen : -1 .. MaxAttempts, kind : {"data", "mbr", "hdr", "ent"}]

\* The variables have their types, and outside write_into no sector is left to write.
TypeOK ==
  /\ stick \in Sticks /\ backend \in {"linux", "macos"}
  /\ cache \in [Sector(stick.size) -> Content]
  /\ media \in [Sector(stick.size) -> Content]
  /\ plugged \in BOOLEAN /\ pulled \in BOOLEAN
  /\ pc \in {"idle", "new", "mbr", "gpt", "close"}
  /\ todo \subseteq (IF pc = "gpt" THEN TableSectors ELSE {})
  /\ attempt \in 0 .. MaxAttempts
  /\ result \in {"none", "ok", "internal", "io", "killed"}

\* The command reports success.  On macOS nothing but close drains the stick, so
\* a stick pulled before that may lose what was written.
Reported == pc = "idle" /\ result = "ok" /\ (backend = "macos" => ~pulled)

\* Copy c as the host finds it on disk d: a header and its whole entry array,
\* all of generation g.
CopyOf(d, c, g) ==
  /\ d[HeaderAt(c, HostSector, stick.size)] = [gen |-> g, kind |-> "hdr"]
  /\ \A s \in EntriesAt(c, HostSector, stick.size) : d[s] = [gen |-> g, kind |-> "ent"]

\* Success is reported only when both copies and the MBR are on the medium, of
\* this very attempt, and nothing of an older table or attempt is left there:
\* whatever was flushed, failed, killed or pulled before.  A handle that reports
\* more sectors than there are never succeeds; one that reports fewer is excluded.
ReportedIsDurable ==
  Reported /\ stick.reported >= stick.size =>
    /\ \A c \in {1, 2} : CopyOf(media, c, attempt)
    /\ media[0] = Table("mbr")
    /\ \A s \in Sector(stick.size) : media[s].kind # "data" => media[s].gen = attempt

\* A wipe touches the table's sectors and no other; a device too small for a
\* table is refused before anything is written.
OnlyTablesTouched ==
  \A s \in Sector(stick.size) :
    stick.reported < 2 * Entries + 3 \/ s \notin {0} \cup TableSectors =>
      cache[s] = Initially(stick)[s] /\ media[s] = cache[s]

\* What the doc of wipe_and_create_gpt promises the host: after success it finds
\* the fresh table, at the logical block addresses it looks at.
HostFindsFreshTable ==
  Reported /\ stick.reported = stick.size => CopyOf(media, 1, attempt)
=============================================================================
