------------------------------ MODULE MountTable ------------------------------
(***************************************************************************)
(* Mounting: the map m_mounts of VirtualFS (src/lib/common/vfs.cpp), the   *)
(* wrapper filesystem_lwext4 that mounts in four steps with a rollback,    *)
(* and the two global tables of lwext4 (ext4.c), of devices and of mount   *)
(* points.  They must agree although every step can fail.                  *)
(*                                                                         *)
(* All calls run under m_mutex.  mount_all and umount_all take one step    *)
(* for each partition or mount point; no other call runs in between.       *)
(*                                                                         *)
(* A partition stands for its device name.  The state of a device behind   *)
(* its superblock, and the flags of a mount, are not modelled.             *)
(***************************************************************************)
EXTENDS Naturals, FiniteSets, Functions

CONSTANTS
    Part,         \* partitions of the registered disks
    TypeOf,       \* the filesystem type that the MBR code of each stands for
    Root,         \* root directories
    LabelRoot,    \* "/" followed by the label of each partition
    Volume,       \* the generated roots, by number
    UserRoot,     \* roots that callers name
    RootDir,      \* the root "/"
    Inside,       \* <<r, k>>: paths below r contain the string k
    Nothing,      \* no root, no partition
    DevCount,     \* CONFIG_EXT4_BLOCKDEVS_COUNT
    MpCount,      \* CONFIG_EXT4_MOUNTPOINTS_COUNT
    UmountFails   \* whether writing the superblock back may fail

FsType == {"ext4", "vfat"}

ASSUME MountAssumption ==
    /\ IsFiniteSet(Part)
    /\ TypeOf \in [Part -> FsType]
    /\ LabelRoot \in [Part -> Root]
    /\ DOMAIN Volume \subseteq Nat /\ Volume \in [DOMAIN Volume -> Root]
    /\ UserRoot \subseteq Root /\ RootDir \in Root
    /\ Inside \subseteq Root \X Root
    /\ Nothing \notin Part \cup Root
    /\ DevCount \in Nat /\ MpCount \in Nat
    /\ UmountFails \in BOOLEAN

VARIABLES
    m_fs_factories,  \* filesystem types registered
    m_mounts,        \* root -> partition mounted there
    m_volume_index,  \* the number of the next generated root
    lw,              \* the tables of lwext4
    job,             \* mount_all or umount_all under way
    alien,           \* partitions with an entry that holds an inode number of another
    crashed,         \* a null pointer was followed
    last             \* the last call, its argument, its result and the errno

vfs  == <<m_fs_factories, m_mounts, m_volume_index>>
vars == <<vfs, lw, job, alien, crashed, last>>

MpSlot == 1 .. MpCount
Errno == {"OK", "EINVAL", "EEXIST", "ENOENT", "ENODEV", "ENOMEM", "ENOSPC", "EIO", "EXDEV"}

\* s_bdevices as the set of the names in it, and s_mp.  The name of a slot
\* stays when its filesystem is unmounted.  For the properties only: whether an
\* unmount failed so far.
Lwext4 == [bdevices : SUBSET Part,
           mp : [MpSlot -> [name : Root \cup {Nothing}, part : Part \cup {Nothing},
                            mounted : BOOLEAN]],
           stuck : BOOLEAN]

NoJob == [call |-> "none", todo |-> {}, err |-> "OK"]

Return(call, arg, res, e) == last' = [call |-> call, arg |-> arg, res |-> res, err |-> e]

Init ==
    /\ m_fs_factories = {}
    /\ m_mounts = << >>
    /\ m_volume_index = 0
    /\ lw = [bdevices |-> {},
             mp |-> [s \in MpSlot |-> [name |-> Nothing, part |-> Nothing, mounted |-> FALSE]],
             stuck |-> FALSE]
    /\ job = NoJob
    /\ alien = {}
    /\ crashed = FALSE
    /\ last = [call |-> "none", arg |-> Nothing, res |-> Nothing, err |-> "OK"]

-----------------------------------------------------------------------------
(* lwext4 and its wrapper: operators from the tables to the set of          *)
(* possible outcomes.                                                       *)

Outcome(e, l) == [err |-> e, lw |-> l]

Mounted(l)    == {s \in MpSlot : l.mp[s].mounted}
Lowest(S)     == CHOOSE s \in S : \A t \in S : s <= t

\* ext4_device_unregister.
Unregistered(l, p) == [l EXCEPT !.bdevices = @ \ {p}]

\* ext4_mount: the slots are searched until the first free one; a mounted one of
\* the same name before it counts as success.
ExtMount(l, p, r) ==
    LET free   == MpSlot \ Mounted(l)
        before == IF free = {} THEN MpSlot ELSE 1 .. Lowest(free) - 1
    IN  IF \E s \in before : l.mp[s].name = r THEN {Outcome("OK", l)}
        ELSE IF free = {} THEN {Outcome("ENOMEM", l)}
        ELSE {Outcome("OK", [l EXCEPT !.mp[Lowest(free)] = [name |-> r, part |-> p, mounted |-> TRUE]]),
              Outcome("EIO", [l EXCEPT !.mp[Lowest(free)].name = r])}

\* ext4_umount: the first slot of that name, without a look at whether it is
\* mounted (RootHasLiveSlot says it is); it stays mounted when ext4_fs_fini
\* cannot write the superblock.
ExtUmount(l, r) ==
    LET named == {s \in MpSlot : l.mp[s].name = r}
    IN  IF named = {} THEN {Outcome("ENODEV", l)}
        ELSE {Outcome("OK", [l EXCEPT !.mp[Lowest(named)].mounted = FALSE])}
             \cup IF UmountFails THEN {Outcome("EIO", [l EXCEPT !.stuck = TRUE])} ELSE {}

\* A fault for TLC to find: the rollback forgets the device.
RolledBackHalf(l, p, r) == {Outcome("EIO", u.lw) : u \in ExtUmount(l, r)}

\* The way back when ext4_recover or ext4_journal_start fails: the result of
\* ext4_umount is not looked at.
RolledBack(l, p, r) == {Outcome("EIO", Unregistered(u.lw, p)) : u \in ExtUmount(l, r)}

\* Faults for TLC to find: a device may be registered twice, and the table of
\* devices has no end.
FsMountTwice(l, p, r) ==
    LET reg == [l EXCEPT !.bdevices = @ \cup {p}]
    IN  UNION {IF o.err = "OK" THEN {o} \cup RolledBack(o.lw, p, r)
               ELSE {Outcome(o.err, Unregistered(o.lw, p))} : o \in ExtMount(reg, p, r)}

FsMountUnbounded(l, p, r) ==
    LET reg == [l EXCEPT !.bdevices = @ \cup {p}]
    IN  IF p \in l.bdevices THEN {Outcome("EEXIST", l)}
        ELSE UNION {IF o.err = "OK" THEN {o} \cup RolledBack(o.lw, p, r)
                    ELSE {Outcome(o.err, Unregistered(o.lw, p))} : o \in ExtMount(reg, p, r)}

\* filesystem_lwext4::mount.
FsMount(l, p, r) ==
    LET reg == [l EXCEPT !.bdevices = @ \cup {p}]
    IN  IF p \in l.bdevices THEN {Outcome("EEXIST", l)}
        ELSE IF Cardinality(l.bdevices) >= DevCount THEN {Outcome("ENOSPC", l)}
        ELSE UNION {IF o.err = "OK" THEN {o} \cup RolledBack(o.lw, p, r)
                    ELSE {Outcome(o.err, Unregistered(o.lw, p))} : o \in ExtMount(reg, p, r)}

\* filesystem_lwext4::unmount: ext4_journal_stop may fail without consequence.
FsUnmount(l, p, r) ==
    {IF u.err # "OK" THEN u
     ELSE Outcome(IF p \in u.lw.bdevices THEN "OK" ELSE "ENOENT", Unregistered(u.lw, p))
        : u \in ExtUmount(l, r)}

-----------------------------------------------------------------------------
(* VirtualFS.                                                              *)

Idle == job = NoJob /\ ~crashed

\* register_filesystem(type): for vfat the factory is a null pointer.
RegisterFilesystem(type) ==
    /\ Idle
    /\ m_fs_factories' = m_fs_factories \cup {type}
    /\ Return("register", Nothing, Nothing, IF type \in m_fs_factories THEN "EEXIST" ELSE "OK")
    /\ UNCHANGED <<m_mounts, m_volume_index, lw, job, alien, crashed>>

UnregisterFilesystem(type) ==
    /\ Idle
    /\ m_fs_factories' = m_fs_factories \ {type}
    /\ Return("unregister", Nothing, Nothing, IF type \in m_fs_factories THEN "OK" ELSE "ENOENT")
    /\ UNCHANGED <<m_mounts, m_volume_index, lw, job, alien, crashed>>

\* The roots that mount may come to: the one that was named, the one of the
\* label, or, when the superblock cannot be read, a generated one.
RootChoices(p, named) ==
    IF named # Nothing THEN {[root |-> named, next |-> m_volume_index]}
    ELSE {[root |-> LabelRoot[p], next |-> m_volume_index]} \cup
         {[root |-> Volume[k], next |-> k + 1] : k \in DOMAIN Volume \cap {m_volume_index}}

\* What VirtualFS::mount can do: its errno, the map, the next number and lwext4.
MountOutcomes(p, named) ==
    LET failed(e, c) == [err |-> e, mounts |-> m_mounts, next |-> c.next, lw |-> lw]
        tried(o, c)  == [err    |-> o.err, next |-> c.next, lw |-> o.lw,
                         mounts |-> IF o.err # "OK" THEN m_mounts
                                    ELSE [r \in DOMAIN m_mounts \cup {c.root} |->
                                            IF r = c.root THEN p ELSE m_mounts[r]]]
    IN  IF TypeOf[p] \notin m_fs_factories THEN {failed("EINVAL", [next |-> m_volume_index])}
        ELSE UNION {IF c.root \in DOMAIN m_mounts THEN {failed("EEXIST", c)}
                    ELSE {tried(o, c) : o \in FsMount(lw, p, c.root)} : c \in RootChoices(p, named)}

\* The factory that mount would call is the null pointer.
NullFactory(p) == TypeOf[p] = "vfat" /\ "vfat" \in m_fs_factories

MountedAs(o) ==
    /\ m_mounts' = o.mounts /\ m_volume_index' = o.next /\ lw' = o.lw
    /\ UNCHANGED <<m_fs_factories, alien, crashed>>

Mount(p, named) ==
    /\ Idle /\ ~NullFactory(p)
    /\ \E o \in MountOutcomes(p, named) : MountedAs(o) /\ Return("mount", p, named, o.err)
    /\ UNCHANGED job

\* mount_all: each partition with an empty root.
MountAllBegin ==
    /\ Idle
    /\ job' = [call |-> "mount_all", todo |-> Part, err |-> "OK"]
    /\ UNCHANGED <<vfs, lw, alien, crashed, last>>

\* Faults for TLC to find: the error of an earlier partition is forgotten.
LatestError(old, new) == new

\* ret = not ret ? result : ret.
FirstError(old, new) == IF old = "OK" THEN new ELSE old

MountAllNext(p) ==
    /\ job.call = "mount_all" /\ p \in job.todo /\ ~crashed /\ ~NullFactory(p)
    /\ \E o \in MountOutcomes(p, Nothing) :
         /\ MountedAs(o)
         /\ job' = [job EXCEPT !.todo = @ \ {p}, !.err = FirstError(@, o.err)]
    /\ UNCHANGED last

\* mount, or mount_all, comes to such a partition.
FollowNull(p) ==
    /\ Idle \/ (job.call = "mount_all" /\ p \in job.todo /\ ~crashed)
    /\ NullFactory(p)
    /\ crashed' = TRUE
    /\ UNCHANGED <<vfs, lw, job, alien, last>>

MountAllEnd ==
    /\ job.call = "mount_all" /\ job.todo = {} /\ ~crashed
    /\ Return("mount_all", Nothing, Nothing, job.err)
    /\ job' = NoJob
    /\ UNCHANGED <<vfs, lw, alien, crashed>>

\* VirtualFS::umount: the mount point stays when its filesystem does not go.
Umount(r) ==
    /\ Idle
    /\ IF r \notin DOMAIN m_mounts
         THEN Return("umount", r, Nothing, "EINVAL") /\ UNCHANGED <<m_mounts, lw>>
         ELSE \E o \in FsUnmount(lw, m_mounts[r], r) :
                /\ lw' = o.lw
                /\ m_mounts' = IF o.err = "OK" THEN Restrict(m_mounts, DOMAIN m_mounts \ {r})
                                               ELSE m_mounts
                /\ Return("umount", r, m_mounts[r], o.err)
    /\ UNCHANGED <<m_fs_factories, m_volume_index, job, alien, crashed>>

\* umount_all, and the destructor after cleanup_opened_files.
UmountAllBegin ==
    /\ Idle
    /\ job' = [call |-> "umount_all", todo |-> DOMAIN m_mounts, err |-> "OK"]
    /\ UNCHANGED <<vfs, lw, alien, crashed, last>>

UmountAllNext(r) ==
    /\ job.call = "umount_all" /\ r \in job.todo
    /\ \E o \in FsUnmount(lw, m_mounts[r], r) :
         /\ lw' = o.lw
         /\ job' = IF o.err = "OK" THEN [job EXCEPT !.todo = @ \ {r}]
                                   ELSE [job EXCEPT !.todo = {}, !.err = o.err]
    /\ UNCHANGED <<vfs, alien, crashed, last>>

\* A fault for TLC to find: the map is kept when an unmount failed.
UmountAllEndKeeps ==
    /\ job.call = "umount_all" /\ job.todo = {}
    /\ m_mounts' = IF job.err = "OK" THEN << >> ELSE m_mounts
    /\ m_volume_index' = 0
    /\ Return("umount_all", Nothing, Nothing, job.err)
    /\ job' = NoJob
    /\ UNCHANGED <<m_fs_factories, lw, alien, crashed>>

\* m_mounts.clear(), whether everything was unmounted or not.
UmountAllEnd ==
    /\ job.call = "umount_all" /\ job.todo = {}
    /\ m_mounts' = << >>
    /\ m_volume_index' = 0
    /\ Return("umount_all", Nothing, Nothing, job.err)
    /\ job' = NoJob
    /\ UNCHANGED <<m_fs_factories, lw, alien, crashed>>

\* find_mount_point of a path below r: any root that the path contains.
FoundMounts(r) == {k \in DOMAIN m_mounts : <<r, k>> \in Inside}

StatPartsOf(r) ==
    /\ Idle
    /\ \/ FoundMounts(r) = {} /\ Return("stat_parts_of", r, Nothing, "ENOENT")
       \/ \E k \in FoundMounts(r) : Return("stat_parts_of", r, k, "OK")
    /\ UNCHANGED <<vfs, lw, job, alien, crashed>>

\* ext4_get_mount of a path below r: the mounted slot whose name, with the "/"
\* that to_native_path adds, the path starts with; so never that of the root "/".
LwMount(r) == {s \in Mounted(lw) : r # RootDir /\ lw.mp[s].name = r}

\* rename of a file below q to a path below r: root_path() of every absolute path
\* is "/", so the test for EXDEV never succeeds, and ext4_create_hardlink enters
\* the inode number of the file wherever the new path leads.
Rename(q, r) ==
    /\ Idle
    /\ \/ /\ Return("rename", q, r, "ENOENT")
          /\ alien' = alien
       \/ /\ FoundMounts(q) # {}
          /\ \E s \in LwMount(q), t \in LwMount(r), e \in {"OK", "EEXIST", "EIO"} :
               /\ Return("rename", q, r, e)
               /\ alien' = IF e = "OK" /\ s # t THEN alien \cup {lw.mp[t].part} ELSE alien
    /\ UNCHANGED <<vfs, lw, job, crashed>>

MountNext ==
    \/ \E t \in FsType : RegisterFilesystem(t) \/ UnregisterFilesystem(t)
    \/ \E p \in Part, r \in UserRoot \cup {Nothing} : Mount(p, r)
    \/ MountAllBegin \/ (\E p \in Part : MountAllNext(p)) \/ MountAllEnd
    \/ \E p \in Part : FollowNull(p)
    \/ \E r \in Root : Umount(r)
    \/ UmountAllBegin \/ (\E r \in Root : UmountAllNext(r)) \/ UmountAllEnd

PathNext ==
    \/ \E r \in DOMAIN m_mounts : StatPartsOf(r)
    \/ \E q, r \in DOMAIN m_mounts : Rename(q, r)

\* The calls that mount and unmount, and these with calls on paths.
MountSpec == Init /\ [][MountNext]_vars
Spec      == Init /\ [][MountNext \/ PathNext]_vars

-----------------------------------------------------------------------------
(* Properties.                                                             *)

\* Every variable has its type; lwext4 has no more devices than it has room for.
TypeOK ==
    /\ m_fs_factories \subseteq FsType
    /\ DOMAIN m_mounts \subseteq Root /\ m_mounts \in [DOMAIN m_mounts -> Part]
    /\ m_volume_index \in Nat
    /\ lw \in Lwext4 /\ Cardinality(lw.bdevices) <= DevCount
    /\ job.call \in {"none", "mount_all", "umount_all"}
    /\ job.todo \subseteq Part \cup Root
    /\ job.err \in Errno
    /\ alien \subseteq Part
    /\ crashed \in BOOLEAN
    /\ last.err \in Errno

\* Between calls the three tables tell the same story, however mounts failed,
\* until an unmount fails: the mounted slots are the roots with their partitions, one each, and the
\* registered devices are those partitions.
TablesAgree ==
    job = NoJob /\ ~lw.stuck =>
        /\ \A s \in Mounted(lw) :
             lw.mp[s].name \in DOMAIN m_mounts /\ m_mounts[lw.mp[s].name] = lw.mp[s].part
        /\ \A r \in DOMAIN m_mounts : Cardinality({s \in Mounted(lw) : lw.mp[s].name = r}) = 1
        /\ lw.bdevices = Range(m_mounts)

\* A partition is mounted at one root at most, also after failures to unmount:
\* two filesystem objects on one device would corrupt it.
MountedOnce ==
    \A q, r \in DOMAIN m_mounts : m_mounts[q] = m_mounts[r] => q = r

\* umount never finalises a filesystem twice: between calls the slot that
\* ext4_umount would find for a root is mounted, also after failures to unmount.
RootHasLiveSlot ==
    job = NoJob =>
        \A r \in DOMAIN m_mounts :
            LET named == {s \in MpSlot : lw.mp[s].name = r}
            IN  named # {} /\ lw.mp[Lowest(named)].mounted

\* mount_all reports success only when every partition is mounted: it "captures
\* the first error, but keeps mounting the rest".
MountAllMeansAll ==
    [][job.call = "mount_all" /\ job' = NoJob /\ job.err = "OK" =>
          Range(m_mounts) = Part]_vars

\* "Un-mount all partitions": of the mount points that umount_all found, none is
\* still mounted after it but the one, if any, that could not be unmounted.
UmountAllUnmountsAll ==
    [][job.call = "umount_all" /\ job' = NoJob =>
          Cardinality({s \in Mounted(lw') : lw.mp[s].name \in DOMAIN m_mounts}) <= 1]_vars

\* "Get information about corresponding partition for given path".
PathFindsItsMount ==
    last.call = "stat_parts_of" /\ last.err = "OK" => last.res = last.arg

\* "Mount points are not the same": rename refuses with EXDEV to give a file a name
\* in another filesystem, where its inode number means another inode.
NoAlienName == alien = {}

=============================================================================
