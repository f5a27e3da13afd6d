# A formal model of evfs

evfs is an embeddable virtual filesystem in C++: block devices with MBR
partition tables, a manager of disks, a `VirtualFS` that mounts filesystems and
keeps file descriptors, a wrapper around the C library lwext4, and adapters that
turn it into syscalls. This directory holds TLA+ models of its core logic,
configurations with which TLC checks them, and theorems that TLAPS proves about
them. Every definition is translated from the source; `PROJECT.json` maps each to
its lines.

## 1. Inventory

| Component | Source | State | Operations | Module |
|---|---|---|---|---|
| Descriptor table | `common/file_descriptor_container.hpp`, `file_descriptor.hpp` | `by_id`, `by_path` with the mark, static `idx` | insert, remove, exist, mark_for_unlink | `FdContainer`, promise in `DelayedUnlink` |
| File calls | `common/vfs.cpp` 370-493 | the table, the mounted filesystem | open, close, unlink, rename, link, rmdir, mkdir, destructor | `VfsFiles` |
| File names in ext4 | `fstypes/filesystem_lwext4.cpp`, `lwext4/src/ext4.c` | entries, link counts, inode bitmap | the wrapper's calls | `Lwext4Tree` |
| Locking | `common/vfs.cpp`, `locker.hpp` | `m_mutex`, one mutex per mount, `m_mounts` | every call, taken apart at its locks | `VfsLocks` |
| Partition tables | `tools/fdisk.cpp` | sector 0 | create, erase, validate, write entry or entries, read | `PartTable` |
| Disks | `disk.cpp`, `disk_mngr.cpp`, `partition.cpp` | list of partitions, map of disks | register, unregister, borrow_partition | `PartTable` (one disk) |
| Mounting | `common/vfs.cpp` 237-365 | `m_fs_factories`, `m_mounts`, `m_volume_index` | register type, mount, mount_all, umount, umount_all, lookup of a path | `MountTable` |
| lwext4 tables | `ext4.c` 98-152, 363-487 | `s_bdevices`, `s_mp` | register, unregister, mount, umount | `MountTable` |
| File contents | `fstypes/filesystem_lwext4.cpp`, `ext4.c` 1478-2163 | blocks and length of a file, position and length of each descriptor | open, close, read, write, lseek, ftruncate | `FileIo`, promise in `FileBytes` |
| Directory streams | `adapters/syscalls.cpp` 160-303, `ext4_dir.c` | entries of a directory; cursor and position of each stream | opendir, closedir, readdir, readdir_r, rewinddir, telldir, seekdir | `DirBlock`, `DirStream`, promise in `DirListing` |
| Recursive iterator, `remove_all` | `adapters/fs_dir.cpp` | stack of directories | construct, increment, pop, `__erase` | `DirWalk` |
| newlib entry points, defaults of the filesystem interface, block device glue, mkfs, logger, standard streams | | none of interest | forwarding, output | not modelled |

How they meet: an adapter calls `VirtualFS`; `VirtualFS` finds the mount point of
a path or the handle of a descriptor, locks the mount and calls its `Filesystem`;
the wrapper calls lwext4, which finds its own mount point by the path, and reads
and writes sectors of a `Partition`, which adds the start sector and calls its
`Disk` under the lock of the disk. `mount` asks the `DiskManager` for a disk by
the part of the partition's name before the `p`, and for the partition by the
number after it.

What is hard here:

* *Two tables for one fact.* `by_id` and `by_path`; `m_mounts`, `s_bdevices` and
  `s_mp`; slot, number and index of a partition; entries, link counts and the
  bitmap. Each pair is changed in several steps that can fail.
* *A place in what changes.* A directory stream is an offset beside a count, a walk is
  a stack of streams, a descriptor a position beside a length it saw some time ago;
  others create, remove and truncate meanwhile.
* *Names instead of identities.* Handles remember paths, delayed unlinking works by
  path, lwext4 finds mounts by prefix and `VirtualFS` by substring.
* *Locks.* `open`, `close`, `unlink`, `mount` and `umount` hold `m_mutex` from end to
  end, all other calls hold it for a lookup or not at all, and `umount_all` gives
  the lock of the mount back before it unmounts.
* *Failures.* Every sector access can fail, inside calls that have done half.

The full list of hazards, each at its line, is in `PROJECT.json`.

## 2. The modules

`VfsFiles` EXTENDS `Lwext4Tree` and `FdContainer` and instantiates
`DelayedUnlink`; `DirStream` EXTENDS `DirBlock` and instantiates `DirListing`; `FileIo`
instantiates `FileBytes`; the others stand alone. `MCx` gives constants for TLC,
`x_proofs` holds theorems. Definitions named `...Twice`, `...Unlocked` and so on
under the words "a fault for TLC to find" are used by no specification: put in the
place of the definition they follow, they must break a property.

### FdContainer, Lwext4Tree: operators

`FdContainer` maps `by_path` to `by_path` for each method of the container. `Exist`
compares the key as it is given: that normalisation happens in `insert` only is part of
the model. `Lwext4Tree` is one mounted filesystem as a record (entries, link counts,
bitmap, directories); a call is an operator from this record to the *set* of its outcomes,
errno and record, so that a caller can chain two calls in one step (`close`, then
`unlink`). Where lwext4 has changed something and then makes an access that can fail,
`EIO` with that much done is an outcome, because aborting a transaction only clears marks
of dirty blocks and takes no change in the cache back: the parent directory made but the
file not; a new file made and its open failed (`ext4_generic_open2` looks it up again); a
new inode entered and then freed, or allocated and not entered; both names after a rename
(`ext4_remove_orig_reference` failed) or a link that is not counted; a name gone and the
inode still allocated (`ext4_fremove`); a directory removed in part, half-way into one of
its files. `torn` collects, for the properties only, the inodes a call failed in. The data
blocks are not modelled: a device without a free one counts as one that fails. The failure
of `ext4_trans_stop`, whose result the calls ignore, is left out with the journal.

### VfsFiles: the calls one by one

`by_id`, `by_path` and `idx` are the container, `fs` the filesystem, `last` the call
and its errno. One action per call of `VirtualFS`. That a call is one step is
justified thus: `open`, `close` and `unlink` hold `m_mutex` from the first line to the
last and are the only ones that touch the table; `rename`, `link`, `rmdir` and `mkdir`
hold the lock of the mount and touch only the filesystem. `close` releases the lock of
the mount between its two calls of the filesystem, and another thread may change the
tree there; but `FsClose` only reads the tree, and its result is dropped when an
unlink follows, so nothing is lost by taking both in one step. `VfsLocks` is the model
in which the calls are cut.

`Reload` is the destructor (`cleanup_opened_files`: it closes every descriptor and
unlinks every marked name, ignoring errors) and a new `VirtualFS`; `idx` is static
and goes on.

Three specifications: `Spec`, any calls in any order; `CarefulSpec`, a program that
renames only files it does not have open and removes only directories without files
(the wrapper's rmdir is recursive and frees inodes whatever their link count: under
`Spec` `LinkCounts` is violated by it), because handles remember paths;
`SloppySpellingSpec`, a careful program that unlinks under any spelling.

### DelayedUnlink: the promise

Names, descriptors and doomed names, without tables: a file unlinked while it is open
goes with its last descriptor. `ImplementsDelayedUnlink` is the refinement, with
`names` the names with an inode, `opened` the paths of `by_id` and `doomed` the
marked entries of `by_path`. With `Fails` a removal may be done in part, an open that
failed may have made the file, and a rename that failed may have left both names or
moved the file: whether the caller is told is the business of
`MarkedNameGoesWithLastClose`.

### VfsLocks: the calls of several threads

A thread has a program counter and the locals of its call. The steps are cut at each
acquisition and release of a lock and at each read of `m_mounts` or of a handle that
is made outside `m_mutex`. Using a handle or a locker another thread destroyed,
reading the map while another thread changes it and destroying a mutex that is owned
are undefined behaviour: the model ends with `crashed = "undefined"`.
`m_mounts.at` of a root that is gone throws out of a `noexcept` function:
`crashed = "terminate"`. Each mount has one file, so that "the same file" is "the same
mount"; a path leads to the mount it names (the substring search is in `MountTable`).
`stat_parts` goes from mount to mount without `m_mutex` and takes the lock of each;
`get_roots` copies the names under `m_mutex`. `symlink` has two mounts: the one whose
lock it takes, found from the existing path, and the one the new name is on (`Where`).
`m_mutex` is recursive; the only call that takes it twice, `close`, is modelled as
holding it throughout.

### PartTable: from sector to name

`mbr` is sector 0: whether each signature byte is right, and four slots. `partitions` is
what `Disk::create` read when the device was registered. Numbers are taken modulo `Size`
(`uint64_t`) where the program computes and modulo `Word` (32 bits) where it stores; the
device may have more sectors than `Word`. A partition carries the slot it was read from,
which the program does not keep, to state properties about it.

### MountTable: three tables

`lw` holds the two tables of lwext4; `FsMount` and `FsUnmount` map it to the set of
outcomes of the wrapper's calls, each step failing or not. `mount_all` and
`umount_all` are a `job` that takes one partition or mount point per step, under
`m_mutex`, so no other call comes between. `ExtMount` keeps what lwext4 does with slots:
a name is written before the mount succeeded and stays after unmounting, and a mounted
slot of the same name counts as success. `lw.stuck` remembers that an unmount failed.
`Rename` is here for the question whether
two paths lie on one mount.

### DirBlock, DirListing, DirStream: a listing while the directory changes

`DirBlock` is the layout of a directory with an index of one leaf: the dots, then entries
that follow each other by their lengths, counted in the 4 bytes that
`ext4_dir_try_insert_entry` rounds to; the shortest entry is three of them. `Insert` takes
the first entry with room, `Remove` gives the length of an entry to the one before it and
leaves its bytes where they are, as `ext4_dir.c` does, so a stream that stands at a
removed entry reads on from bytes no chain leads to any more. A new entry covers what it
is written over (`Torn`). What a stream makes of bytes from the middle of an entry is left
open, as far as the tests of `ext4_dir_iterator_set` do: they may be refused, or taken for
an entry of any name and length, from which it goes on anywhere behind (`Astray`).
`DirStream` adds the streams: `cursor`, the offset in the handle of lwext4, and
`position`, the count in the adapter's `DIR`. A call holds the lock of the mount and is
one step. One action per call. The loops of the code over entries are sets of offsets:
`Path`, the least set that the lengths lead to, of which `After` is the first with an
inode; `Reads`, the offsets the loop of `seekdir` passes.

`DirListing` is the promise without offsets: a stream divides the names into passed and
pending ones, and ends only when none is pending. The refinement gives `pending` the names
at the offsets the cursor can still reach. Under `CarefulSpec` no entry, while a stream is
open, is written over the beginning of an older one. Without that a listing loses names or
returns what was never one (exchange the specification in `DirStream_listing.cfg` to see
it), and the names need not be long: with A(12)@0, L(16)@12, B(12)@28, C@40 and a stream
at 28, removing L and B and creating two names of 12 bytes puts the second at 24, over the
cursor. Names of one rounded length never do it. Not modelled: the split of a full leaf,
removing the directory under its stream.

### DirWalk: the recursive iterator and `remove_all`

`stack` is `_M_dirs`; a level is a directory, the entry it stands at, and the names to
come, as `DirListing` promises them. One step per call of the filesystem, so that other
threads may create and remove between any two: `Construct`, `Increment` (the decision),
`Descend` (the call), `Advance` (one `readdir` of the loop that goes back up), `pop`,
`disable_recursion_pending`; and for `remove_all` the parts of `__erase`: `EraseFile`,
`EraseOpen`, `EraseProbe`, `EraseDir`, `EraseNext`, and `RemoveRoot`. Removal is the
wrapper's, which removes directories with their contents and may fail with part of it
gone. `cut` records that a failed read was taken for the end of a directory. Symbolic
links are treated as files, since the wrapper's entries have no type for them and the code
follows none. The files of `Opened` are open in some program whenever they are there, so
that `unlink` only marks them. A node is its name: another directory under the name of one
that was read is the same node. `Above`, what a node is in, is the least set with it that
is closed under `Parent`.

### FileIo and FileBytes: contents under two descriptors

`cells` are the blocks of one file, `size` the length in the inode, `fpos` and `fsize` the
position and the length in each `ext4_file`. `write` is cut the way `ext4_fwrite` cuts it:
the head of an unaligned position, blocks below the length where they are, blocks that are
appended; it may end for lack of room, and with `Device = "fails"` at each of its accesses
(`WriteFails`), with what is then in the blocks, in the length, in the position and in the
answer. One byte of a model block stands for the part of a block an unaligned write
touches. `ftruncate`, and opening with `O_TRUNC`, shorten in pieces of `Chunk` bytes
(`CONFIG_MAX_TRUNCATE_SIZE`), each with a transaction of its own; one that fails leaves
the file at the length of some piece or, when only putting the inode back failed, at the
length asked for, with some of the blocks between the two released (`TruncationFails`). A
length that is not smaller is a success without effect, because the wrapper waits for an
`ENOTSUP` that `ext4_ftruncate` does not return, and its loop of zeros is never entered.
It also works through a descriptor opened for reading, since `O_RDONLY` is no bit.
`O_APPEND` counts at open only. That results are cut to `int` by the adapter
(`syscalls.cpp` 40) is left out: the lengths here are a few bytes.

`FileBytes` is the promise: a sequence of bytes and a position for each descriptor; a
failed call spoils its descriptor and nothing in front of its position, and a failed
truncation nothing in front of the length it was to cut to. `CarefulSpec`
is a program that shortens a file only while no other descriptor is open on it, and
that closes a descriptor on which a call failed or stored less than asked. Without the
first, another descriptor is left behind the end, `size - pos` wraps and a read is not
cut (`PositionInFile` is violated under `Spec`).

## 3. The runs

Bounds are the CONSTANTS of the .cfg files.

| Run | Properties | Bounds, and why they are enough |
|---|---|---|
| `files_all_calls` | `TypeOK`, `TableConsistent`, `MarkedNameGoesWithLastClose` | 2 names, one in a directory, 2 more spellings, 2 inodes, 3 descriptors over the life of the program: two on one file and one on another, or a file closed and opened again. No further links (`MaxLinks` 1), which the table does not see; they are in the next run |
| `files_careful` | `HandleNamesItsFile`, `LinkCounts`, `ImplementsDelayedUnlink` | 3 names, 2 inodes, up to 3 links, 2 descriptors over the life of the program, device failures: a failed link or rename beside an open file, whose names are then unlinked and made again |
| `files_spelling` (violation) | `UnlinkIsDelayed` | |
| `locks_files` | `TypeOK`, `NoCrash`, `MarkedFileIsOpen`, `UnlinkedFileIsClosed` | 3 threads, 2 calls each, one file, 2 descriptors: an unlink between the close of one and the open of another |
| `locks_live` | `FsExclusion`, `EveryCallReturns` | 2 threads, 2 mounts: what a cycle of two locks needs |
| `table_calls` | `TypeOK`, `NumbersAreUnique`, `DenseTableResolves`, `WrittenIsListed` | a device of 10 sectors, `Word` 8, `Size` 16: starts and sizes inside the device that the table cannot hold, a start behind the device that wraps, a last sector, foreign entries of each kind in every slot |
| `table_name` (violation) | `NameFindsItsPartition` | |
| `mounts` | `TypeOK`, `TablesAgree`, `MountedOnce`, `RootHasLiveSlot`, `MountAllMeansAll` | 3 ext4 partitions and a FAT one, room for 2, two equal labels and an empty one; mounts and unmounts fail at each step; all calls |
| `mounts_rename` (violation) | `NoAlienName` | |
| `dir_streams` | `TypeOK`, `ImplementsDirListing`, `ToldPlaceIsFound` | a leaf of 9 units of 4 bytes, three names of 12 bytes and one of 16, room for three short ones: removed entries in front of, under and behind the cursor, and new ones over them and beside them. One stream: streams share the directory and nothing else |
| `dir_walk` | `TypeOK`, `StackIsAPath`, `WalkIsComplete`, `EraseIsComplete`, `VisitedOnce`, `RemoveAllEnds` | every tree within three levels, each directory beside files, an open one in the root and one below it; 3 changes by other threads, what removing and refilling a directory behind the iterator takes; device failures |
| `file_io` | `TypeOK`, `PositionInFile`, `ImplementsFileBytes` | 2 descriptors, blocks of 2 bytes, 2 blocks, chunks of 2 bytes, writes of 1 and 3 bytes: a head, an existing and an appended block in one write, one that does not fit, and a truncation in two chunks |

The runs of `VfsLocks` do not check for deadlock in TLC's sense: a thread makes a
bounded number of calls and the system stops. A deadlock of the locks shows as
`EveryCallReturns` violated. `mounts` does not check for it either: mounting the
FAT partition ends the program; nor do `dir_streams`, `dir_walk` and `file_io`, in which a
walk is over or a program may have nothing left to do. `mounts` uses a VIEW without
`last`, and `file_io` one without `got`: no action reads these variables and no invariant
of these runs speaks of them. `MountAllMeansAll` and `ImplementsFileBytes` do speak of
their next values, and TLC evaluates an action property on every step, whether the state
it leads to was seen before or not; so nothing is missed.

`TablesAgree` is about runs in which no unmount has failed. After one, a rollback or
`umount_all` leaves mount points in lwext4 that `VirtualFS` does not know, and what still
holds is `MountedOnce`, `RootHasLiveSlot` and `MountAllMeansAll`.

*Fairness.* `FairSpec` of `VfsLocks` assumes weak fairness of each thread's steps: a
thread that can run is scheduled and calls into the filesystem return (lwext4 has no
waits of its own in this configuration). A mutex is not assumed to be fair: since
calls are bounded, a thread cannot be overtaken for ever, so the property is about
lock order and leaked locks, not about starvation. `FairSpec` of `DirWalk` assumes that a
call in progress goes on and that `remove_all` calls `__erase` again while the iterator
is not at its end, which is its loop. `RemoveAllEnds` is then the statement that each
round makes progress. Its two exceptions are real: `__erase` repeats an `unlink` of a file
that another thread removed, which is neither a success nor an error (`Spins`); and it comes
back for ever to a subdirectory with a file that some program has open (`MarksAgain`). With
either of them left out of the property TLC finds it violated.

*What the violations show.* They are quoted, with the sentence of the code or the
documentation they contradict, under `findings` in `PROJECT.json`: a second spelling
defeats delayed unlinking; the name of a partition does not lead back to it once a slot
before it is empty; rename across mounts is not refused.

*Other disagreements met while modelling*, which the models reproduce and no run is
spent on. Some have a configuration of their own, to be run by hand, in which TLC finds
the named property violated:

* `MountTable_umount_all.cfg`, `UmountAllUnmountsAll`: `umount_all` stops at the first
  failure and forgets the rest, too (`vfs.cpp` 325).
* `MountTable_path.cfg`, `PathFindsItsMount`: a mount point is found by a substring of the
  path (`vfs.cpp` 75).
* `DirStream_end.cfg`, `EndIsTheEnd`: `dirnext` and `readdir` report a failure of the
  device as the end of the directory (`filesystem_lwext4.cpp` 275).
* `DirWalk_erased.cfg`, `ErasedIsGone`: `remove_all` takes the success of `unlink` for the
  removal; a file that some program has open is only marked. In a subdirectory it then
  never ends, since the directory is opened again and again (in `RemoveAllEnds` as an
  exception).

And without one: `symlink` makes a name on another mount without the lock of that mount,
and, unlike `link`, lwext4 does not refuse it (`vfs.cpp` 442; the exception in
`FsExclusion`); one right byte of the two is enough for a signature (`SignatureAccepted`,
`fdisk.cpp` 92 and 188); the "physical number" of a partition is not its slot when a slot
before it is extended or invalid (`Number`, `fdisk.cpp` 102); of two partitions with one
label the second cannot be mounted with an empty root, and an empty label gives the root
`/` (`RootChoices`, `vfs.cpp` 286); FAT is registered as a null pointer, and mounting such
a partition follows it (`FollowNull`, `vfs.cpp` 43 and 280); `write_partition_entry` cuts
numbers to 32 bits without an error and accepts a start behind the device (`Stored`,
`Accepts`, `fdisk.cpp` 135 and 141; `WrittenIsListed` says when), and of an array it may
leave a part written; `ftruncate` to a larger length succeeds without effect, since the
`ENOTSUP` that the wrapper waits for is never returned (`filesystem_lwext4.cpp` 302);
`rename` and `link` that failed may have made the new name, and unlinking that name while
the file is open under the old one then frees its inode (`Entered`, `ext4.c` 1357 to
1376); where indexing a new directory fails, `ext4_link` leaves an entry for an inode that
is then freed (`ext4.c` 241; directories have no inodes in the model).

*What the passing runs do not say.* `NoCrash` holds for descriptors used by one thread and
mounts that stay. With `SharedFds` true, or with `mount` and `umount` among the calls, the
models do reach `crashed = "undefined"` (a handle closed by another thread while a call
uses it; the map searched, or walked by `stat_parts`, while it changes) and `"terminate"`
(a descriptor used after its root was unmounted, even by one thread). No document of the
code promises otherwise, so these are described here and not listed as findings;
`FsExclusion` is stated for what happens before, so it does not catch the use of a mount
that is gone. `PositionInFile` and `ImplementsFileBytes` leave out the program that
shortens a file another descriptor has open, `LinkCounts` and `HandleNamesItsFile` the
inodes that a failed call left half done, `ToldPlaceIsFound` places before which something
changed. `WalkIsComplete` and `EraseIsComplete` are about walks in which no failed read
was taken for an end (`cut`), and `EraseIsComplete` allows open files in the directory
itself to be left; `StackIsAPath` and `VisitedOnce` about all.

## 4. What is proved

TLAPS checks these for every value of the constants that satisfies the ASSUME of the
module: any number of names, inodes, descriptors, threads, mounts, partitions and
streams, any tree and any sizes, with a device that may fail where no hypothesis says
otherwise. Every property of a run that passes is the subject of a theorem, except for
the two about liveness.

`VfsFiles_proofs` (`TypeCorrect`, `TablesAgree`, `DelayedUnlinkEnds` for `Spec`;
`CarefulProgramsKeepTheirFiles`, `LinksAreCounted` for `CarefulSpec`)
: `TableConsistent` is inductive together with the types: the new descriptor `idx` is in
neither map because everything given out is smaller. `MarkedNameGoesWithLastClose` needs
it: only when each descriptor is listed once does an entry that disappears in a step
belong to the descriptor that was closed. `HandleNamesItsFile` is inductive only together
with `LinkCounts`: an inode that is not `torn` is allocated exactly while it has names, and
its count is their number, so removing one name does not free the inode of another. What a
call fails in stays `torn`, so that whatever is done to such an inode later touches no
other. `LinksAreCounted` adds that on a device that does not fail nothing is torn.

`VfsFiles_refinement` (`DelayedUnlinkIsImplemented`)
: `ImplementsDelayedUnlink` for `CarefulSpec`: the initial states map to initial states, and
each call to a step of the promise or a stutter. The mapping forgets inodes, directories
and `by_path` but for its marks; that works because the tables agree, and because the
name of an open file exists, both from `VfsFiles_proofs`.

`VfsLocks_proofs` (`TypeCorrect`, `FilesystemsAreExclusive`, `MarkedFilesAreOpen`,
`UnlinkedFilesAreClosed`, `QuietProgramsDoNotCrash`)
: The first four for any calls, descriptors shared or not. The inductive invariant `IInv`
says which places own `m_mutex` (`MutexHeld`) and which own the mutex of a mount
(`FsLock`), and what a thread that owns `m_mutex` has read of the descriptor table and
may still rely on: `CloseFd` (the descriptor is there, with the root that was looked
up), `MarkOpen` (the file to be marked is open), `UnlinkClosed` (the file to be unlinked
is not). Each is kept because only an owner of `m_mutex` changes the table. `NoCrash`
has two hypotheses, which are those of its run: `SharedFds = FALSE`, and no call among
`Ops` that mounts or unmounts. What is added then is that the mounts stay (`MountsStay`),
that a thread inside a call holds a locker of one of them (`LockerFound`), and that
the descriptor it uses is its own (`OwnFd`), so nobody closes it meanwhile.

`PartTable_proofs` (`TypeCorrect`, `NamesAreUnique`, `DenseTablesResolve`,
`WhatIsWrittenIsListed`)
: The list of partitions is what *some* table gave, not the one on the device now; the
invariant says no more, and what a table gives is stated by lemmas. A number is the count
of the usable slots up to a slot: it grows from one usable slot to the next, and when the
usable slots are the first ones it is the place in the list. That an entry is listed as it
was given exactly if its numbers fit is arithmetic of two widths: a number is its own
remainder only below the width.

`MountTable_proofs` (`TypeCorrect`, `PartitionsMountOnce`, `RootsHaveLiveSlots`,
`ThreeTablesAgree`, `MountAllSuccessMeansAll`)
: The properties speak of the time between calls. The invariant says what becomes of them
while `umount_all` empties lwext4 and `m_mounts` still has every root: they hold of the
roots still to do (`Live`). `Reached` (the device of each such root is registered, and the
first slot of its name is mounted) survives every failure; `Exact` (nothing else is
mounted or registered) holds until an unmount fails. `Reached` speaks of the *first* slot
because that is the one `ext4_umount` finds, and names stay in slots that were given back.

`DirStream_proofs` (`TypeCorrect`, `ListingIsImplemented`, `ToldPlacesAreFound`)
: `WellFormed` says of the directory that the lengths of its entries lead from each to the
next up to the end, over everything that has an inode. A stream may stand at an entry no
length leads to any more; what keeps it right is that some set of offsets with all cursors
in it is `Sound`: from each the length leads to another one in the set, over no entry with
an inode (`Tracked`). Creating a name splits an entry at an offset that was none before or
reuses one, and the set grows by it; where it covers the beginning of no other entry none
of the set is torn; removing one only lengthens an entry. `ImplementsDirListing` is proved
for `CarefulSpec` with `Fails = FALSE`: a failed read ends a listing early, which is the
divergence `DirStream_end.cfg` shows. `ToldPlaceIsFound` is proved for `Spec`, with `Fails
= FALSE` likewise: a stream before which nothing changed is at a live entry or the end,
and its position is the number of entries before (`Settled`); a told place that is still
good is such a place, and a stream before which something changed is behind it by offset
and by count (`Marked`), so that `seekdir` rewinds when it has to.

`DirWalk_proofs` (`TypeCorrect`, `StackStaysAPath`, `NothingIsReturnedTwice`,
`WalksAreComplete`, `ErasuresAreComplete`)
: That the stack is a path needs that the names to come of each level are in its directory
(`InDirectory`), that the directory probed by `__erase` is the entry on top
(`ProbeOfTop`), and that the iterator is about to descend only at a directory. The others
say where the nodes are that are still due: in or below a name some level has still to
give, or below the entry it stands at (`NothingMissed`, `NothingKept`); and that no name
to come is above what was visited (`NothingTwice`). An open file further down than the
root stays due, since it is below the directory that the iterator goes back to, which is
why `ErasuresAreComplete` needs to except only those in the root. The modelled tree is
finite in depth: `TreeAssumption` says that every node is below `Root`.

`FileIo_proofs` (`PositionsAreInFile`, `TypeCorrect`, `FileBytesAreImplemented`, all for
`CarefulSpec`)
: The inductive invariant of the first is stronger than `PositionInFile` by `fpos <=
fsize`: a call that moves the position by what it knows of the length stays inside, a
write never shortens the file, wherever it fails, and a truncation, failed or not, meets
no other open descriptor. That lengths stay inside the device is arithmetic of blocks:
where the head of a write ends (`HeadEnd`), and how many blocks there is room for behind
it. The refinement `ImplementsFileBytes` rests on `StoredIs`, which says which byte stands
where after a write that was cut into a head, blocks written over and blocks appended;
from it follows that the contents are the old ones up to the position, the bytes the call
answers for, and the old ones behind (`WrittenText`).

Only model-checked: `EveryCallReturns` and `RemoveAllEnds`, which are liveness under
fairness and out of TLAPS's reach; and the runs that expect a violation. To be proved
about, three modules have no recursive operator where the code has a loop: `Path` of
`DirBlock` and `Above` of `DirWalk` are least sets closed under a step, and `Reads` of
`DirStream` is the set of places the loop of `seekdir` passes. TLC evaluates them as they
are.

## 5. Plan

Done: the descriptor table and file calls, the locks, partition tables, mount tables,
directory streams, file contents and the recursive iterator, with their promises, and the
proofs of all safety properties and refinements the runs check.

Next, in this order:

1. Proofs about what the runs do not state yet: `NoCrash` of programs that mount before
their    threads start; `ImplementsDirListing` for streams that see a failed read, against
a    promise that lets a listing end early and says so. 2. `VfsDisks`: `PartTable` and
`MountTable` composed: several disks, `unregister_device`    under a mount, `mount_all` by
partition names, tables rewritten after registering. 3. Symbolic links in `Lwext4Tree` and
`VfsFiles`: `symlink` replaces the target of a link    that exists and makes missing
parents; opening a link is `ENOENT`. 4. `VfsLocks`: `mount_all` and the destructor as
threads.

## 6. Not modelled

Calls that change no state the modules keep (chmod, utimens, ioctl, flock, fsync,
statvfs); renames of directories and read-only mounts; the split of a full directory
leaf (the order of hashes would have to be modelled); `directory_iterator`, which is the
advance of `DirWalk` without a stack; permission errors, which the filesystem does not
check. Not planned: the block cache, journal and allocators of lwext4 (vendored), mkfs, the
logger, and the forwarding functions of the adapters.
