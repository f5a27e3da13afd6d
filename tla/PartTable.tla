------------------------------ MODULE PartTable ------------------------------
(***************************************************************************)
(* The partition table of one block device: the tools that write it        *)
(* (src/lib/tools/fdisk.cpp), the Disk that lists its partitions when the  *)
(* device is registered (disk_mngr.cpp, disk.cpp), and the way from the    *)
(* name of a partition back to the partition (partition.cpp and            *)
(* fs_discovery of vfs.cpp).                                               *)
(*                                                                         *)
(* A device may also come with a table written elsewhere.  Numbers keep    *)
(* their width: sector numbers and counts are uint64_t in the program      *)
(* (modulus Size) and 32 bits in the table (modulus Word); a device may    *)
(* have more sectors than a table can name.  CHS addresses                 *)
(* and the boot flag are not modelled, and a physical number is one of the *)
(* four slots.                                                             *)
(***************************************************************************)
EXTENDS Integers, FiniteSets, Sequences, Functions

CONSTANTS
    SectorCount,  \* of the device
    Word,         \* 2^32
    Size,         \* 2^64
    Foreign,      \* entries that other programs leave in a table
    Conf,         \* arguments of write_partition_entry
    ConfArray     \* arguments of its array version

Slot == 0 .. 3
Type == {"primary", "extended"}
Entry == [type : Type, start : 0 .. Word - 1, num : 0 .. Word - 1]
NoEntry == [type |-> "primary", start |-> 0, num |-> 0]   \* sixteen zero bytes

ASSUME PartTableAssumption ==
    /\ SectorCount \in Nat /\ Word \in Nat \ {0} /\ Size \in Nat
    /\ SectorCount < Size /\ Word <= Size
    /\ Foreign \subseteq Entry
    /\ Conf \subseteq [nr : Slot, type : Type, start : 0 .. Size - 1, num : 0 .. Size - 1]
    /\ ConfArray \subseteq [1 .. 4 -> Conf]

VARIABLES
    mbr,         \* sector 0: the two signature bytes are right or not, the slots
    registered,  \* whether the DiskManager knows the device
    partitions,  \* Disk::partitions, as read when the device was registered
    last         \* the last call, the configurations given to it, the errno it returned

vars == <<mbr, registered, partitions, last>>

Blank == [lo |-> FALSE, hi |-> FALSE, slot |-> [s \in Slot |-> NoEntry]]

\* slot is where the partition was found; the program does not keep it.
Partition == [nr : Slot, type : Type, start : 0 .. Word - 1, num : 0 .. Word - 1, slot : Slot]

Returns(call, args, e) == last' = [call |-> call, args |-> args, err |-> e]
Return(call, e) == Returns(call, << >>, e)

Init ==
    /\ mbr \in [lo : BOOLEAN, hi : BOOLEAN, slot : [Slot -> Foreign \cup {NoEntry}]]
    /\ registered = FALSE
    /\ partitions = << >>
    /\ last = [call |-> "none", args |-> << >>, err |-> "OK"]

-----------------------------------------------------------------------------
(* Reading the table.                                                      *)

\* The test of fetch_partitions and validate_mbr: refused only when both bytes
\* are wrong.
SignatureAccepted(m) == m.lo \/ m.hi

\* A fault for TLC to find: the last sector of the device is not accepted.
ValidEntryStrict(e) == e.start + e.num < SectorCount

\* validate_partition: the entry ends inside the device.  The empty entry does.
ValidEntry(e) == e.start + e.num <= SectorCount

\* The slots whose entry is counted, and of these the ones that are listed.
Counted(m) == {s \in Slot : m.slot[s].type # "extended" /\ ValidEntry(m.slot[s])}
Listed(m)  == {s \in Counted(m) : m.slot[s].num # 0}

\* Faults for TLC to find: numbers that start at 1, and an empty entry that is
\* the only one to be counted.
NumberFromOne(m, s)    == Cardinality({r \in Counted(m) : r < s}) + 1
NumberByEmpties(m, s)  == Cardinality({r \in Counted(m) \ Listed(m) : r < s})

\* part_no when the loop of fetch_partitions gets to slot s: slots with an
\* extended or invalid entry are skipped without counting.
Number(m, s) == Cardinality({r \in Counted(m) : r < s})

\* fetch_partitions: the listed slots in order.
Fetched(m) ==
    LET at(i) == CHOOSE s \in Listed(m) : Cardinality({r \in Listed(m) : r <= s}) = i
        part(s) == [nr |-> Number(m, s), type |-> m.slot[s].type,
                    start |-> m.slot[s].start, num |-> m.slot[s].num, slot |-> s]
    IN  [i \in 1 .. Cardinality(Listed(m)) |-> part(at(i))]

\* A fault for TLC to find: an index that counts from 1.
BorrowedFromOne(parts, nr) == IF nr \in DOMAIN parts THEN {parts[nr]} ELSE {}

\* fs_discovery and Disk::borrow_partition of the number in a partition name:
\* an index into the list (std::vector counts from 0).
Borrowed(parts, nr) == IF nr < Len(parts) THEN {parts[nr + 1]} ELSE {}

-----------------------------------------------------------------------------
(* Writing the table.                                                      *)

\* The checks of write_partition_entry, in unsigned arithmetic.
Accepts(conf) == conf.num # 0 /\ (SectorCount - conf.start) % Size >= conf.num

\* The two numbers as to_word stores them.
Stored(conf) == [type |-> conf.type, start |-> conf.start % Word, num |-> conf.num % Word]

\* The table after the first k writes of an array of configurations.
AfterWrites(m, confs, k) ==
    [m EXCEPT !.slot = [s \in Slot |->
        LET writes == {i \in 1 .. k : confs[i].nr = s}
        IN  IF writes = {} THEN m.slot[s]
            ELSE Stored(confs[CHOOSE i \in writes : \A j \in writes : j <= i])]]

\* How many entries the array version may have written: it stops at the first
\* that is refused, or earlier when the device fails.
Written(confs) ==
    {k \in 0 .. 4 : \A i \in 1 .. k : Accepts(confs[i])}

-----------------------------------------------------------------------------
(* The calls.  The device fails a read or a write of a sector as a whole.  *)

\* write_partition_entry: read, change one slot, write.
WriteEntry(conf) ==
    /\ \/ ~Accepts(conf) /\ Returns("write", <<conf>>, "EINVAL") /\ mbr' = mbr
       \/ Accepts(conf)  /\ Returns("write", <<conf>>, "EIO") /\ mbr' = mbr
       \/ /\ Accepts(conf)
          /\ Returns("write", <<conf>>, "OK")
          /\ mbr' = [mbr EXCEPT !.slot = [@ EXCEPT ![conf.nr] = Stored(conf)]]
    /\ UNCHANGED <<registered, partitions>>

\* write_partition_entry of an array.
WriteEntries(confs) ==
    /\ \E k \in Written(confs) :
         /\ mbr' = AfterWrites(mbr, confs, k)
         /\ Returns("write_all", confs,
                    IF k = 4 THEN "OK" ELSE IF Accepts(confs[k + 1]) THEN "EIO" ELSE "EINVAL")
    /\ UNCHANGED <<registered, partitions>>

CreateMbr ==
    /\ \/ mbr' = [Blank EXCEPT !.lo = TRUE, !.hi = TRUE] /\ Return("create_mbr", "OK")
       \/ mbr' = mbr /\ Return("create_mbr", "EIO")
    /\ UNCHANGED <<registered, partitions>>

EraseMbr ==
    /\ \/ mbr' = Blank /\ Return("erase_mbr", "OK")
       \/ mbr' = mbr /\ Return("erase_mbr", "EIO")
    /\ UNCHANGED <<registered, partitions>>

ValidateMbr ==
    /\ \/ Return("validate_mbr", IF SignatureAccepted(mbr) THEN "OK" ELSE "ENXIO")
       \/ Return("validate_mbr", "EIO")
    /\ UNCHANGED <<mbr, registered, partitions>>

\* DiskManager::register_device with Disk::create: a device without a signature
\* is a disk without partitions.
RegisterDevice ==
    /\ \/ /\ registered
          /\ Return("register", "EINVAL")
          /\ UNCHANGED <<registered, partitions>>
       \/ /\ ~registered
          /\ Return("register", "EIO")
          /\ UNCHANGED <<registered, partitions>>
       \/ /\ ~registered
          /\ Return("register", "OK")
          /\ registered' = TRUE
          /\ partitions' = IF SignatureAccepted(mbr) THEN Fetched(mbr) ELSE << >>
    /\ mbr' = mbr

\* DiskManager::unregister_device destroys the Disk and its partitions.
UnregisterDevice ==
    /\ Return("unregister", IF registered THEN "OK" ELSE "ENOENT")
    /\ registered' = FALSE
    /\ partitions' = << >>
    /\ mbr' = mbr

Next ==
    \/ \E conf \in Conf : WriteEntry(conf)
    \/ \E confs \in ConfArray : WriteEntries(confs)
    \/ CreateMbr \/ EraseMbr \/ ValidateMbr
    \/ RegisterDevice \/ UnregisterDevice

Spec == Init /\ [][Next]_vars

-----------------------------------------------------------------------------
(* Properties.                                                             *)

\* Every variable has its type; a listed partition has a number that fits the
\* table (fetch_partitions).
TypeOK ==
    /\ mbr \in [lo : BOOLEAN, hi : BOOLEAN, slot : [Slot -> Entry]]
    /\ registered \in BOOLEAN
    /\ Len(partitions) \in 0 .. 4
    /\ \A i \in DOMAIN partitions : partitions[i] \in Partition
    /\ last.err \in {"OK", "EINVAL", "ENOENT", "EIO", "ENXIO"}

\* Two partitions of a disk never have the same number, and so never the same
\* name (create_partition_name): lwext4 tells its devices apart by that name.
NumbersAreUnique ==
    \A i, j \in DOMAIN partitions : partitions[i].nr = partitions[j].nr => i = j

\* In a table whose first slots all hold partitions that are listed, and whose
\* other slots hold none, the number of each is its slot and its name leads back
\* to it (fetch_partitions, fs_discovery, borrow_partition).
DenseTableResolves ==
    (\A i \in DOMAIN partitions : partitions[i].slot = i - 1) =>
        \A i \in DOMAIN partitions :
            /\ partitions[i].nr = partitions[i].slot
            /\ Borrowed(partitions, partitions[i].nr) = {partitions[i]}

ListedAsGiven(m, conf) ==
    \E p \in Range(Fetched(m)) :
        p.slot = conf.nr /\ p.start = conf.start /\ p.num = conf.num

\* Of the entries that were written with success, alone or in an array, and that
\* no later one of the array replaced, those that are not extended are listed as
\* they were given when the device is registered next, if they start inside the
\* device and their numbers fit the table; and if not, they are never listed so,
\* although the call that wrote them said nothing.
WrittenIsListed ==
    [][last'.call \in {"write", "write_all"} /\ last'.err = "OK" /\ SignatureAccepted(mbr) =>
          \A i \in DOMAIN last'.args :
              LET conf == last'.args[i]
              IN  conf.type # "extended" /\ (\A j \in DOMAIN last'.args : i < j => last'.args[j].nr # conf.nr)
                    => (ListedAsGiven(mbr', conf)
                          <=> conf.start < SectorCount /\ conf.start < Word /\ conf.num < Word)]_vars

\* mount_all "tries to mount all available partitions", each by its name: the
\* name leads to the partition.
NameFindsItsPartition ==
    \A i \in DOMAIN partitions : Borrowed(partitions, partitions[i].nr) = {partitions[i]}

=============================================================================
