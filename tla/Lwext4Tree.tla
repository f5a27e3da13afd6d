----------------------------- MODULE Lwext4Tree -----------------------------
(***************************************************************************)
(* What one mounted ext4 filesystem does for the calls that change names:  *)
(* the wrappers of src/lib/fstypes/filesystem_lwext4.cpp over the lwext4   *)
(* functions they call.  A call is an operator from the state of the       *)
(* filesystem to the set of its possible outcomes, so that a caller (the   *)
(* virtual filesystem) can chain several calls in one step.                *)
(*                                                                         *)
(* A file is an inode number.  The link count and the allocation bitmap    *)
(* are kept apart because they may come to disagree: ext4_dir_rm zeroes    *)
(* the count and frees the inode of every file of the directory, including *)
(* a file that has another name elsewhere; and a call that fails stays     *)
(* where it failed, since its changes are made one after another to the    *)
(* blocks in the cache and the abort of its transaction takes none back.   *)
(* Where a call has a change behind it and an access in front of it, EIO   *)
(* with that much done is one of its outcomes.                             *)
(*                                                                         *)
(* Contents, modes and times are not modelled, directories have no inodes  *)
(* and are not renamed.  A device without a free block counts as one that  *)
(* fails.                                                                  *)
(***************************************************************************)
EXTENDS Naturals, FiniteSets

CONSTANTS
    Name,     \* normalised absolute paths of files
    Dir,      \* directories below the mount root that can hold them
    RootDir,  \* the root directory of the mount, always present
    DirOf,    \* the directory of each name
    Inode,    \* inode numbers
    NoInode,  \* the name does not exist
    IOErrors  \* whether the block device may fail a call

ASSUME TreeAssumption ==
    /\ IsFiniteSet(Name)
    /\ RootDir \notin Dir
    /\ DirOf \in [Name -> Dir \cup {RootDir}]
    /\ NoInode \notin Inode
    /\ IOErrors \in BOOLEAN

\* The states of a filesystem.
Tree == [tree  : [Name -> Inode \cup {NoInode}],  \* directory entries
         nlink : [Inode -> Nat],                  \* links_count of the inodes
         used  : SUBSET Inode,                    \* inode allocation bitmap
         dirs  : SUBSET Dir,                      \* directories that exist
         torn  : SUBSET Inode]                    \* read by properties only:
                              \* inodes that a failed call left half done

EmptyTree == [tree  |-> [n \in Name |-> NoInode],
              nlink |-> [i \in Inode |-> 0],
              used  |-> {},
              dirs  |-> {},
              torn  |-> {}]

NamesOf(f, i)    == {n \in Name : f.tree[n] = i}
Inside(d)        == {n \in Name : DirOf[n] = d}
HasParent(f, n)  == DirOf[n] \in f.dirs \cup {RootDir}

Outcome(e, f)  == [err |-> e, fs |-> f]
IOFailure(f)   == IF IOErrors THEN {Outcome("EIO", f)} ELSE {}

-----------------------------------------------------------------------------
(* Effects on the tree.                                                    *)

\* The missing directories on the way to n exist.
WithParent(f, n) == [f EXCEPT !.dirs = @ \cup ({DirOf[n]} \cap Dir)]

\* A fault for TLC to find: a link is not counted.
LinkedUncounted(f, n, i) == [f EXCEPT !.tree = [@ EXCEPT ![n] = i]]

\* The name n is entered for inode i, one more link.
Linked(f, n, i) ==
    [tree |-> [f.tree EXCEPT ![n] = i], nlink |-> [f.nlink EXCEPT ![i] = @ + 1],
     used |-> f.used, dirs |-> f.dirs, torn |-> f.torn]

\* The name n is entered for inode i, and the call fails before the link is
\* counted or the name it replaces is removed.
Entered(f, n, i) ==
    [f EXCEPT !.tree = [@ EXCEPT ![n] = i], !.torn = @ \cup {i}]

\* The free inode i is allocated and entered under the name n.
Created(f, n, i) ==
    [f EXCEPT !.tree = [@ EXCEPT ![n] = i], !.nlink = [@ EXCEPT ![i] = 1],
              !.used = @ \cup {i}]

\* The free inode i is allocated for n, but its entry fails, after it was written
\* (entry = i) or before (NoInode), and so may giving the inode back (kept = {i}).
HalfCreated(f, n, i, entry, kept) ==
    [f EXCEPT !.tree = [@ EXCEPT ![n] = entry], !.nlink = [@ EXCEPT ![i] = 0],
              !.used = @ \cup kept, !.torn = @ \cup kept \cup ({entry} \ {NoInode})]

\* The entries of the names of R go.
Without(tree, R) == [n \in Name |-> IF n \in R THEN NoInode ELSE tree[n]]

\* ext4_fremove of each name of R (they all exist).  A name that is not in C is
\* gone when the call fails before its link count is lowered; the others go down
\* to zero at the lowest, and an inode that reaches zero is freed, but not those
\* of K, for which that fails.
Unlinked(f, R, C, K) ==
    LET Lost(i)   == Cardinality(C \cap NamesOf(f, i))
        Left(i)   == IF Lost(i) < f.nlink[i] THEN f.nlink[i] - Lost(i) ELSE 0
        Unused(i) == Lost(i) > 0 /\ Left(i) = 0
    IN  [tree  |-> Without(f.tree, R),
         nlink |-> [i \in Inode |-> Left(i)],
         used  |-> f.used \ {i \in Inode : Unused(i) /\ i \notin K},
         dirs  |-> f.dirs,
         torn  |-> f.torn \cup {i \in K : Unused(i)}
                          \cup {i \in Inode : NamesOf(f, i) \cap (R \ C) # {}}]

Removed(f, R) == Unlinked(f, R, R, {})

\* Where ext4_fremove can stop once the entry of n is gone: before the count is
\* lowered or, when that leaves none, before or after the inode is freed.
HalfRemoved(f, n) ==
    {Unlinked(f, {n}, {}, {})} \cup
    (IF f.nlink[f.tree[n]] <= 1
       THEN {Unlinked(f, {n}, {n}, K) : K \in SUBSET {f.tree[n]}} ELSE {})

\* What ext4_dir_rm does to the files R of the directory: each entry goes and
\* its inode is freed whatever its link count was.
Purged(f, R) ==
    LET gone == {f.tree[n] : n \in R}
    IN  [f EXCEPT !.tree  = Without(@, R),
                  !.nlink = [i \in Inode |-> IF i \in gone THEN 0 ELSE @[i]],
                  !.used  = @ \ gone]

\* Where it can stop in a file n once its entry is gone: before the count is
\* zeroed, or before the inode is freed.
HalfPurged(f, n) ==
    LET g == Unlinked(f, {n}, {}, {})
    IN  {g, [g EXCEPT !.nlink = [@ EXCEPT ![f.tree[n]] = 0]]}

\* The files of the directory are gone up to some file, or half-way into it.
PurgedInPart(f, files) ==
    {Purged(f, R) : R \in SUBSET files} \cup
    UNION {UNION {HalfPurged(Purged(f, R), n) : n \in files \ R} : R \in SUBSET files}

-----------------------------------------------------------------------------
(* The calls.  On success the opened inode is the one the name then has.   *)

Failures(F) == UNION {IOFailure(f) : f \in F}

\* open: O_CREAT makes the missing directories and the file, and is no error
\* when the file exists (O_EXCL is not looked at).  The file that was made is
\* looked up once more and loaded, and when that fails so does the call.
FsOpen(f, n, creat) ==
    LET g == WithParent(f, n)
    IN  IOFailure(f) \cup
        IF f.tree[n] # NoInode THEN {Outcome("OK", f)}
        ELSE IF ~creat THEN {Outcome("ENOENT", f)}
        ELSE IOFailure(g) \cup
             IF f.used = Inode THEN {Outcome("ENOSPC", g)}
             ELSE UNION {{Outcome("OK", Created(g, n, i))}
                         \cup IOFailure(Created(g, n, i))
                         \cup Failures({HalfCreated(g, n, i, entry, kept) :
                                          entry \in {i, NoInode}, kept \in SUBSET {i}}) :
                         i \in Inode \ f.used}

\* close: ext4_fclose never fails, ext4_mtime_set looks the handle's path up.
FsClose(f, n) ==
    IOFailure(f) \cup
    {Outcome(IF f.tree[n] # NoInode THEN "OK" ELSE "ENOENT", f)}

\* unlink of a file.
FsUnlink(f, n) ==
    IOFailure(f) \cup
    IF f.tree[n] # NoInode THEN {Outcome("OK", Removed(f, {n}))} \cup Failures(HalfRemoved(f, n))
                           ELSE {Outcome("ENOENT", f)}

\* rename of a file: the new name is entered first and must not exist; then the
\* old one is removed, and when that fails the file has both.
Renamed(f, n, m) == [f EXCEPT !.tree = [@ EXCEPT ![m] = f.tree[n], ![n] = NoInode]]

FsRename(f, n, m) ==
    IOFailure(f) \cup
    IF f.tree[n] = NoInode \/ ~HasParent(f, m) THEN {Outcome("ENOENT", f)}
    ELSE IF f.tree[m] # NoInode THEN {Outcome("EEXIST", f)}
    ELSE {Outcome("OK", Renamed(f, n, m))}
         \cup Failures({Entered(f, m, f.tree[n]), Renamed(f, n, m)})

\* link.
FsLink(f, n, m) ==
    IOFailure(f) \cup
    IF f.tree[n] = NoInode \/ ~HasParent(f, m) THEN {Outcome("ENOENT", f)}
    ELSE IF f.tree[m] # NoInode THEN {Outcome("EEXIST", f)}
    ELSE {Outcome("OK", Linked(f, m, f.tree[n]))}
         \cup Failures({Entered(f, m, f.tree[n]), Linked(f, m, f.tree[n])})

\* rmdir, and unlink of a directory: recursive, one transaction per entry, so
\* that a failure leaves the directory with some of its files gone, one of them
\* perhaps by half, or takes all of it and fails at the end.
FsRmdir(f, d) ==
    LET files == {n \in Inside(d) : f.tree[n] # NoInode}
        empty == [Purged(f, files) EXCEPT !.dirs = @ \ {d}]
    IN  IOFailure(f) \cup
        IF d \notin f.dirs THEN {Outcome("ENOENT", f)}
        ELSE {Outcome("OK", empty)} \cup Failures({empty} \cup PurgedInPart(f, files))

\* mkdir: no error when the directory exists.
FsMkdir(f, d) ==
    LET g == [f EXCEPT !.dirs = @ \cup {d}]
    IN  {Outcome("OK", g)} \cup Failures({f, g})

=============================================================================
