# A TLA+ model of sufur

sufur makes bootable USB sticks. At this commit it lists removable devices, wipes
one (an empty GPT with a protective MBR) on Linux and macOS, and runs the skeleton
of a declarative job. These modules model what changes state: how a device is
found and opened, how it is unmounted, how it is written, and what is reported to
whoever started the command.

## The system

| Part | Source | State | Operations | Talks to |
|---|---|---|---|---|
| `BlockDevice` trait | `sufur-platform/src/lib.rs` | a device of bytes | read, write, size, sync | used by partition.rs, implemented twice |
| macOS backend | `sufur-macos/src/blockdev.rs` | file, size, block size; block buffer during a call | read, write (direct, or block by block), sync | raw device, refuses anything but whole blocks |
| Linux backend | `sufur-linux/src/blockdev.rs` | file, size | read, write, sync | block device through the kernel's cache |
| GPT code | `sufur-core/src/partition.rs` | position in the device (`BlockDeviceIo`); gptman's table | `wipe_and_create_gpt`, `create_gpt_with_partition`; read, write, seek for gptman | gptman, `BlockDevice` |
| Engine, wipe command | `sufur-core/src/lib.rs`, `sufur-cli/src/main.rs` | none kept between commands | list, then open by id, then wipe, then report | `Platform` |
| Linux platform | `sufur-linux/src/{lib,udev,sysfs}.rs` | none; the attributes of a device are read one by one, by name | `list_devices` (udev, else sysfs), `open_device` with `O_EXCL` | udev, sysfs, kernel |
| macOS platform | `sufur-macos/src/{lib,iokit,usb}.rs` | references to registry entries during a scan | `list_devices`, `open_device` (unmount, then open the raw device) | IOKit registry, USB control transfers |
| Unmount | `sufur-macos/src/disk_arb.rs` | channel in the caller's frame | `unmount_disk`, `unmount_callback` | DiskArbitration's daemon, on another thread |
| Jobs and events | `sufur-core/src/{pipeline,progress}.rs`, `main.rs` | job file, NDJSON stream | `apply-job`, `validate-job`, error envelope | a frontend through a pipe |
| Everything else | `image.rs`, the remaining commands, `format_partition`, `mount`, `watch_devices` | none | stubs or stateless printing | |

Nothing in sufur is concurrent with itself, except the unmount callback. What makes
it hard is the world it works on: the medium behind a cache, sticks that are pulled
and replaced between two enumerations, a desktop that mounts what it finds, a
daemon on another thread, a second sufur process, a reader that goes away.

Correctness, per part:

* backends: a byte the caller did not ask to write never changes, a request of any
  alignment is served, results say exactly what happened;
* GPT code: a reported success is on the medium, whole, whatever came before it, and
  gptman's position is always where it thinks it is;
* wipe command: the stick that is opened is the one at the path the user gave, never
  a fixed disk, and it is neither mounted nor open elsewhere;
* unmount: each call takes effect at one moment and reports what it was then, and
  the callback finds its context there until it has sent its answer;
* enumeration: each reference is given back once, and the USB identity is the
  stick's own;
* jobs: the stream, the exit status, the dry run and the documented protocol agree.

`PROJECT.json` lists the hazards one by one with their lines.

## The modules

    BlockDevice ─┬─ ByteDevice            the contract of the trait
                 │    └─ BlockDeviceIo ─┬─ MCBlockDeviceIo     implements Stream
                 │                      └─ BlockDeviceIo_proofs
                 ├─ LinuxBlockDevice ─┬─ MCLinuxBlockDevice    implements ByteDevice
                 │                    └─ LinuxBlockDevice_proofs
                 └─ MacosBlockDevice ─┬─ MCMacosBlockDevice    implements ByteDevice
                                      └─ MacosBlockDevice_proofs
    Stream                                what gptman assumes of its file
    GptWipe ─────┬─ MCGptWipe
                 └─ GptWipe_proofs
    WipeCommand ─┬─ MCWipeCommand
                 └─ WipeCommand_proofs
    Unmounting                            what unmounting a disk promises
    DiskUnmount ─┬─ MCDiskUnmount         implements Unmounting
                 └─ DiskUnmount_proofs
    IoKitWalk ───┬─ MCIoKitWalk
                 └─ IoKitWalk_proofs
    ApplyJob ────┬─ MCApplyJob
                 └─ ApplyJob_proofs

An operator named as a *mutant* in a comment is a plausible mistake in the operator
below it, which replaces it to see that a property notices. It is no part of any
specification.

### BlockDevice, ByteDevice

`BlockDevice` holds what both backends share: the device `disk`, the request `req`,
the caller's buffer `buf`, the result `res`, and `Submit`. `ByteDevice` is the
abstract specification: a write lands as a growing prefix of the buffer and succeeds
only when all of it is there; a read that succeeds returns exactly the bytes that
exist; a request may fail at any moment, a failed write leaving any prefix.

### MacosBlockDevice

`blockdev.rs`, one step for every file operation. `Call` is the choice of path
(lines 84, 141). `FastRead`/`FastWrite` are rounds of the direct loops. The slow
read is `ReadBlock` per block, with `CopyLen` as in lines 125-128. The slow write is
`LoadBlock` (only if the block is not overwritten entirely, line 164) and
`StoreBlock`, with `pc = "merge"` between them. `IoError` is the `?` on each of
those calls; a failed store leaves any prefix of the merged block, a failed
`write_all` any prefix of the buffer. `pc` is the place in the loop, `at` is
`block_start`, `blk` the block buffer, `total` the bytes moved. `DevBlock` is the
unit the device insists on: a transfer of anything else, direct or of a block, is
answered with EINVAL (`Refused`). That the block size the code found is a multiple of
it is assumed in `NeverRefused` only; with the fallback of 512 (line 50) on a device of
larger units requests fail, and the other properties still hold.

### LinuxBlockDevice

The same interface over a file that takes any range and moves between one byte and
everything asked for per call.

### BlockDeviceIo, Stream

The adapter gptman writes through: `Transfer` passes a call on to a `ByteDevice` at
`pos`, which answers (`Device`) while the adapter waits, and `TransferOk` and
`TransferErr` are the two ways it returns; `Seek` is all of `seek`, and keeps in
`sought` what it was asked, for both modules to see. u64 and i64 are
narrowed to `0..Top` and half of it on either side of 0, with saturation and the cast
of a negated offset (`SaturatingAdd`, `SaturatingSub`, `Magnitude`) at that width. A
seek by the least i64 is computed as an optimised build does; a debug build panics on
it, and gptman, whose offsets are sector addresses, does not pass it. A seek to below
0 stops at 0, on both sides: `Stream` is a file in everything but that, for a
`std::io::Seek` file answers such a seek with an error.
`WidthAssumption` says that the device and each buffer are addressable at that width.

`Stream` is the abstract specification: a file of fixed size with a position and one
call at a time, no offsets passed and no arithmetic. A transfer that returns has moved
the position by what it returns, a failed one has not, though bytes may have arrived;
a seek lands at the position nearest to the one asked for.

### GptWipe

`partition.rs` on an open device, in units of 512-byte sectors. A sector holds
ordinary data or a piece (`mbr`, `hdr`, `ent`) of a table of some generation: 0 is
the old one, n the n-th attempt. `cache` is what reads return and `media` what is
left after power is lost. On Linux the cache is the kernel's and `sync` drains it;
on macOS it is the stick's, `sync` does nothing (ENOTTY counts as success,
`blockdev.rs:200`), and closing the handle drains it. `Start`, `NewFrom`, `WriteMbr`,
`WriteTable`, `Sync`, `Close` are the stages of the two functions; gptman writes its
sectors in an order of its own, so `todo` is a set. The functions differ in one
assignment, the first partition entry, which is copied from gptman's header and lies in
a sector that is written in both: the model has one of them.
`IoError` is the `?` after each stage, INTERNAL for gptman's and IO_ERROR for the
sync (`IoErrorCode`); `Kill` is the end of the process; `Flush`, `Pull` and `Plug` are
the world's.

### WipeCommand

`cmd_wipe` lists the devices, takes the one at the path (`Pick`), and `open_device`
lists them again, takes the first with the id (`Find`), on macOS unmounts it
(`Unmount`, and `Unmounted` when the answer is there), and opens the path (`Open`).
Sticks are plugged in and out (`Plug`, `Unplug`) and mounted (`Mount`) between any
two of those steps.

An enumeration fails before it begins (`ScanFails`) or goes through the names in any
order. `Examine` is the filter (virtual
names, `removable`, whole disks: `Removable`), at which the size is first seen;
`Describe` reads the rest. A size that cannot be read or parsed becomes 0, of a stick
that is there too (`unwrap_or(0)`), so a record keeps the set of the sizes it may have:
`SizesOf` what was under the name each time it was looked at, and 0. Both backends on Linux read attributes by name, so a stick
that takes the name between the two gives the record its id, or its id and its size;
on macOS a registry entry stays the stick's, but its USB device stops answering once
it is gone. `Ids` are the ids a device may be given: `Key`, which is `ID_SERIAL` or
vendor:product:serial; on macOS `Model`, the same without a serial that could not be
read; or the kernel's name when udev has no entry, USB does not answer, or udev fails
and the list comes from sysfs. The second enumeration may use another one than the
first. `cmd_wipe` uses nothing of its list but the device at the path, so the first
enumeration follows that name only; of the others the code can tell nothing there.
`First` is `Iterator::find`. `WipeAssumption` says what ids are: a key with a serial
number is nobody's model, no key is a kernel name, and names are
finitely many.

`Fixed` are disks that are not removable, and take names as sticks do. The ghosts
are `listed`, `steady`, and the `stick` and `since` of a record: which physical
stick was meant, and whether the name changed hands since it was looked at. No guard
reads them.

### DiskUnmount

`unmount_disk` (`Refuse`, `Unmount`, `Recv`) against the daemon (`Daemon*`), which
unmounts the volumes one by one and answers with success, "not mounted" or a dissent,
and the callback on the queue's thread. `Callback` follows the pointer into the
caller's frame, `Send` makes the message visible, and `CallbackReturns` is what `send`
does with the channel after that. The caller's frame exists while `pc = "recv"`, which
ends with the message: between `Send` and `CallbackReturns` it may be gone, in the code
as in the model, and `AliveUntilSent` ends at `Send`. The daemon may lose a request.
It dissents only when something is mounted (`DaemonDissent`), an assumption about the
daemon: a stick pulled in mid-unmount, which the code reports as `DEVICE_BUSY` too, is
left out.

`Unmounting` is the abstract specification. A disk is mounted or not; a call is asked
for, decided at one moment, and returns what was decided: Ok leaves nothing mounted,
busy only if something was mounted at that moment. The refinement mapping takes a
call to be decided when the daemon answers (`status` is set). A volume unmounted
earlier, while others of the disk remain, is a stutter there, and so is a lost
request; what the desktop mounts is `Mount` in both.

### IoKitWalk

The macOS enumeration, one IOMedia object after the other. `ReadNames` is an
iteration of `vendor_and_model`; `FoundUsb`, `ClimbToUsb`, `NoUsb` are
`find_usb_ancestor`, which runs for the registry and again for the descriptors.
`CreatePlugin`, `QueryDevice`, `ReadIds`, `ReadString` (three control transfers, each
of which may fail by itself) and `ReleaseDevice` are `descriptor_usb_info`; the last
one also merges (`Merge`). `refs` counts the references the process owns to each
entry, `coms` the COM interfaces. `info` says for each `UsbInfo` field which source it
came from. Any parent lookup may fail, because the stick may be pulled. The port names
of entries are taken to be distinct; the iterator's own guard is left out.

### ApplyJob

`cmd_apply_job`, `cmd_validate_job`, `validate_job`, `run_create` and `main`'s error
envelope on one side of a pipe; on the other a frontend that does what `progress.rs`
asks of consumers. It starts one command after the other on one job file, which may
be edited or removed at any time (`Edit`); each command reads the file once
(`ReadJob`). The frontend may close the pipe, which makes the next `println!` panic.
The ghost `dry` is the job that `validate-job` last read, and its verdict.

## The runs

All runs finish within three minutes on two cores.

| Run | Checks | Bounds and why they are enough |
|---|---|---|
| `macos_block_device` | type and loop invariants, `NeverRefused`, `OutsideUntouched`, `KeepsContract`, `Returns` | two blocks of three bytes, two byte values, all contents, 12 ranges. Three bytes is the least block with a first, a middle and a last byte; ranges start and end at each of them, span both blocks, reach past the end and start past it. The proofs cover all other sizes |
| `linux_block_device` | the same, without blocks | four bytes, ranges inside, across the end, past it, and empty |
| `block_device_io` | `ActsAsFile` | a device of three bytes, positions 0..7, transfers of up to two bytes, every offset of that width from every origin: every saturation at either end, transfers inside, across and past the end, and the position after each |
| `gpt_wipe` | `ReportedIsDurable`, `OnlyTablesTouched` | one entry sector per array (32 in gptman), one data sector, two attempts: enough for an old table, a broken attempt and a good one. Sticks with every old content, a reported size one too large and one too small, and one too small for a table |
| `gpt_large_blocks` | violates `HostFindsFreshTable` | blocks of two sectors |
| `wipe_command` | `WipesListedStick`, `NeverFixed`, `NeverOverMounted`, `OneWriter`, `HandleSizeIsRight` | both platforms, two processes, two names, two sticks of one model with serial numbers, one fixed disk, two hotplug events. A mix-up takes one stick leaving a name and another taking it. Processes, names and the two sticks are symmetric: they are compared for equality only |
| `wipe_same_key` | violates `IdIsStable` | the two sticks without serial number |
| `disk_unmount` | `KeepsPromise`, `AliveUntilSent`, `ReturnsIfAnswered` | two callers, two disks, two volumes, two new mounts: callers on the same disk and on different ones, a disk mounted again during a call, and once more before it returns |
| `disk_unmount_lost` | violates `NeverFiredIsReported` | one caller |
| `iokit_walk` | `NearestUsb`, `NoneMeansNone`, `ReferencesBalance`, `RegistryTakesPriority` | three media, depth 4 (32 in the code): the hub is at the last depth a walk from the first two examines, and out of reach from the third, whose walks end at the limit; both USB classes; every set of fields from either source; UUID constants may fail |
| `apply_job` | `OnlyValidJobsRun`, `CompleteIffSuccess`, `DryRunAgrees` | all job files, three starts of either command, two edits: a dry run, an edit and its undoing, and the run |
| `apply_job_retry` | violates `RetryIsAllowed` | two starts, one edit |

The counterexamples, each a disagreement between the code and its own comments, are
described under `findings` in `PROJECT.json`: the GPT is always laid out in 512-byte
sectors; sticks without serial number share their id; an unmount nobody answers
blocks for ever behind an error that cannot occur; failures never produce the
`Cleanup` event consumers must wait for.

Smaller disagreements met while modelling, without a run of their own: with sysfs
the "stable" id is the kernel name, which the next stick may take over (the same
`IdIsStable`, `sysfs.rs:72`); every failure to open but a permission problem is
`DEVICE_BUSY`, a stick that is gone included (`sufur-linux/src/lib.rs:66`); an
`io::Error` becomes the code `IO_ERROR`, which is not one of `ErrorCode`
(`main.rs:278`, against `sufur-platform/src/lib.rs:134`); `descriptor_usb_info`
keeps its reference when a UUID constant cannot be had (`usb.rs:227`, which is why
`ReferencesBalance` has a condition); `composite_id` returns `None` when either id
is missing, not only when both are (`usb.rs:78`); `validate` succeeds without
looking at the image (`main.rs:200`); a product name that is all the registry has is
dropped before the merge in which "registry takes priority" (`usb.rs:184`, against
`usb.rs:410`; `RegistryTakesPriority` has a condition for it); `needs_fallback` asks
for the three strings only, so a registry entry with strings and no product id gets
the BSD name as its id although the descriptors know better (`usb.rs:402`, against
`iokit.rs:320`, "when USB info is unavailable"); `DeviceId` is documented as the IOKit
registry entry id on macOS and is not (`sufur-platform/src/lib.rs:23`); job files are
documented as YAML and parsed as JSON (`SUFUR_ARCHITECTURE.md:550`, `main.rs:228`);
`wipe` panics after a finished wipe when its reader has closed the pipe
(`main.rs:183`).

Runs switch deadlock checking off where the system stops by itself: a command ends,
a bound on attempts, mounts or starts is used up, an unmount waits for a lost
answer.

### What the properties leave out

* `ReportedIsDurable` excludes a macOS stick pulled during the wipe, since
  `sync` there cannot wait for the stick's cache, and a handle that reports fewer
  sectors than the stick has.
* `WipesListedStick` is about sticks that were listed with a serial number of their
  own and excludes one swapped after `open_device` read its id; `NeverFixed` excludes
  a name that changed hands after `open_device`'s enumeration came to it. Nothing is
  checked between that and `open()`.
* `HandleSizeIsRight` says "that of the stick that is opened, or 0"; on macOS it
  excludes a stick swapped after its id was read, on Linux a name that changed hands
  since the enumeration came to it: there a record may carry one stick's id beside
  another's size, and nothing notices.
* `NeverOverMounted` allows on macOS for a volume mounted after the unmount.
* `AliveUntilSent` ends when the message is visible: that `send` is done with the
  channel before the frame of `unmount_disk` is gone is not so, and no property says it.
* `NeverRefused` is about devices whose units make up the block size the code found.
* `DryRunAgrees` is about a job that has not changed; what an edited file holds is for
  `apply-job` to validate again, which `OnlyValidJobsRun` checks.
* `RegistryTakesPriority` excludes a registry entry with nothing but a product name. It
  says that what the registry had stays, and not that every gap the descriptors could
  fill is filled.

### Fairness

Four specifications have any. `MacosBlockDevice` and `LinuxBlockDevice` assume
that a file operation a loop waits for returns (with success or an error), which is
what a loop on one thread amounts to; on Linux also that a write at the end of the
device fails, as the kernel does with ENOSPC. `DiskUnmount` assumes that the
caller's thread runs and that a daemon which stays alive works off its requests; it
does not assume that the daemon stays alive. `ApplyJob` assumes that both
processes keep running and that the frontend notices the end of a `validate-job`
(`Reap`), not that it starts or closes anything.

## The proofs

Each `*_proofs` module proves about the module it extends, for every value of its
constants that satisfies the assumptions named there (`DeviceAssumption`,
`BlockAssumption`, `WidthAssumption`, `GptAssumption`, `WipeAssumption`,
`UnmountAssumption`, `RegistryAssumption`, `JobAssumption`). Every type invariant,
invariant, action property and refinement the passing runs check is proved. What the
runs show for two processes, two sticks or six bytes holds for any number of them.

| Module | Inductive invariant | Properties proved |
|---|---|---|
| `MacosBlockDevice_proofs` | `LoopsCorrect` (`IInv`, with `NeverRefused`) | `TypesKept`, `AlignmentCorrect` (`NeverRefused`), `BackendRefines` (`KeepsContract`), `Untouched` (`OutsideUntouched`) |
| `LinuxBlockDevice_proofs` | `LoopsCorrect` (`IInv`) | `TypesKept`, `BackendRefines` (`KeepsContract`) |
| `BlockDeviceIo_proofs` | `AdapterSafe` | `TypesKept`, `AdapterRefines` (`ActsAsFile`) |
| `GptWipe_proofs` | `WipeSafe` | `TypesKept`, `NothingElseTouched` (`OnlyTablesTouched`), `ReportedStays` (`ReportedIsDurable`, on hosts with 512-byte blocks) |
| `WipeCommand_proofs` | `CommandSafe` | `TypesKept`, `RightStick` (`WipesListedStick`), `DisksSpared` (`NeverFixed`), `MountsSpared` (`NeverOverMounted`), `WritersApart` (`OneWriter`), `SizeRight` (`HandleSizeIsRight`) |
| `DiskUnmount_proofs` | `CallsLinked` | `TypesKept`, `CallbackSafe` (`AliveUntilSent`), `PromiseKept` (`KeepsPromise`) |
| `IoKitWalk_proofs` | `WalkSafe` | `TypesKept`, `ReferencesBalanced` (`ReferencesBalance`), `RegistryFirst` (`RegistryTakesPriority`), `NearestFound` (`NearestUsb`), `NothingMeansNothing` (`NoneMeansNone`) |
| `ApplyJob_proofs` | `JobSafe` | `TypesKept`, `ValidJobsOnly` (`OnlyValidJobsRun`), `StreamTellsExit` (`CompleteIffSuccess`), `DryRunTells` (`DryRunAgrees`) |

A `*_proofs` module is laid out the same way throughout: the inductive invariant in
named parts, lemmas about the operators, one lemma for each action or group of
actions, `InitSafe` and `NextSafe`, and the theorems.

### The backends

`IInv` of the macOS backend is the type invariant and three facts about the loops.
`FastOK`: the direct loop has moved exactly `total` bytes. `SlowOK`: every byte of
the request below the block at hand is done, and `total` counts the ones that exist.
`LoadedIsFresh`: the block buffer still equals the device wherever the caller has no
bytes of his own. The contract cannot be proved without them: a store of a whole
block is a write of the caller's prefix only because the rest of the block is what
the device holds, and a read returns what the contract says only if its earlier
blocks are done. With `NeverRefused`, which needs the invariant as well (the fast
path is entered only on block boundaries, and `at` is always on one), they form
`Safe`, which is inductive.

Lemmas on division place the request's end against block boundaries. `StepRefines`
shows for each action which step of `ByteDevice` it is, or that it stutters:
`StoreBlock` is `Store` with the prefix grown to the end of the block; `LoadBlock`
stutters; the read loops are `Fetch` and end in `FetchOk`. The refinement mapping is
the identity: `ByteDevice` shares the four variables and knows nothing of the loops.
On Linux `PrefixMoved` says the same of a loop without blocks.

The contract's use of `disk` is that of one handle: the proofs say nothing of two
processes on one macOS stick.

### The adapter

Its invariant adds `Answered` to the types: from the device's answer until the adapter
returns, the count and the buffer agree with the device. Without it `TransferOk` could
not be the stream's return. The arithmetic is one lemma: whatever
`saturating_add`, `saturating_sub` and the cast of the negated offset do, the result
is the sum clamped to `0 .. Top`, and the clamped sum is the one position nearest to
it (`NearestIsClamp`), which is all `Stream` says of a seek.

### The wipe

`Fresh(d, S)` says that disk `d` holds this attempt's MBR and its table in the sectors
`S`. `Stored` says of which disk and of which sectors that is true at each stage: of
the cache, for the sectors written so far; after the sync of the medium too, on Linux;
after the close of both. `Staged` supplies what makes that stable: a stick pulled
during an attempt does not come back before its end, and tables are written only where
there is room for one. `OnlyTablesTouched` is part of the invariant, because nothing
else says that what lies outside the table was there before.

`ReportedStays` assumes `HostSector = 1`, a host with blocks of 512 bytes. On
other hosts the property is false, which is what `gpt_large_blocks` finds: gptman
lays the tables out in sectors of 512 bytes. `WipeSafe` needs no such assumption: on
every host a reported success has reached the medium, only not where that host looks.

### The wipe command

The invariant says what a record still knows of the name it was read from. `Looked`:
as long as the name has not changed hands since (`since = moves`), the stick
there is removable and its size, or 0, is all that was read; on macOS the size is that
of the stick the entry was of, whatever moved; `Identified`: its id is the name,
or belongs to the stick the id was read from. `Stage` carries this through the choice,
the unmount and the open, to the handle. `OneWriter` is part of it, since it is what
`O_EXCL` gives the next `Open`. The world's steps break no record: a move makes `since` too
small (`MoveRead`), a mount is refused or marked where a handle is open.

### Unmount, enumeration, jobs

`Linked` ties a caller's progress to its request, the answer and the channel, which
no two of them alone determine; from it the frame is there until the message is
sent, and a receive returns what the daemon decided. The refinement mapping of `PromiseKept`
is described under DiskUnmount above.

`IoKitWalk`'s invariant counts: `Exact`, that every entry is owned once by each of
the guard and the walk that are at it, as long as the UUID constants can be had;
`Enough`, that even without them nothing is given back twice. `Ancestor` is a recursive
function; `AncestorLevels` shows that its equations have a solution of any number
of levels, by the least number for which there were none, and `NearestFound` and
`NothingMeansNothing` follow from where the walk is in it.

`ApplyJob`'s invariant says that what was written is a prefix of the events, or an
error, and the exit status what goes with it; what is unread is a suffix of it. The
dry run's note is a fact about the job noted, which no later edit can change.

### Only model-checked

Liveness: `Returns` of both backends and `ReturnsIfAnswered`. It needs ENABLED, which
is out of the prover's reach. So are the library's induction theorems, which take an
operator as a parameter; where a recursion had to be unfolded, the least number took
their place. The four runs that expect a violation find a behaviour, and have nothing to prove.

## Not modelled

* `create`, `format`, `validate`, `format_partition`, `mount`, `watch_devices` are
  stubs without state.
* `list`, `analyze-image`, `capabilities` print one result and keep nothing. What
  `list` prints is the outcome of an enumeration, which is modelled.
* Decoding: UTF-16 strings of descriptors, number parsing in sysfs and udev,
  the JSON text of events, human-readable sizes. Of the sizes only the outcome is
  kept: the right one, or the 0 of one that could not be read.
* gptman's checksums and backup-table repair: `new_from` makes a new table and
  reads nothing but the size. Nor the contents of partition entries.
* A stick pulled while `unmount_disk` waits.

## Plan

What the code keeps and changes is modelled, and the safety the runs check is proved.
These are left.

1. The adapter over each backend as one system, and its theorem: gptman's file
   (`Stream`) over `LinuxBlockDevice` and over `MacosBlockDevice`. Today the two
   refinements are proved separately, and meet in `ByteDevice`.
2. `GptWipe`'s sector writes as sequences of `Stream`'s calls, so that the wipe and
   the adapter are one system; the sectors gptman seeks to are its own, and external.
