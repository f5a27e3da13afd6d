--------------------------- MODULE VfsFiles_proofs ---------------------------
(***************************************************************************)
(* Proofs about VfsFiles, for any number of names, spellings, inodes and   *)
(* descriptors.  First the filesystem calls (lemmas about Lwext4Tree), then *)
(* typing, then the consistency of the descriptor tables, then what a      *)
(* careful program can rely on.                                            *)
(***************************************************************************)
EXTENDS VfsFiles, FiniteSetTheorems, TLAPS

-----------------------------------------------------------------------------
(* The filesystem calls keep the type of the tree.                         *)

\* Removing names from a well-typed tree (ext4_fremove) leaves a well-typed one,
\* wherever it stops.
LEMMA UnlinkedType ==
    ASSUME NEW f \in Tree, NEW R \in SUBSET Name, NEW C \in SUBSET Name, NEW K \in SUBSET Inode
    PROVE  Unlinked(f, R, C, K) \in Tree
<1> DEFINE Lost(i) == Cardinality(C \cap NamesOf(f, i))
           Left(i) == IF Lost(i) < f.nlink[i] THEN f.nlink[i] - Lost(i) ELSE 0
           Unused(i) == Lost(i) > 0 /\ Left(i) = 0
<1>1. \A i \in Inode : Lost(i) \in Nat
  BY TreeAssumption, FS_Subset, FS_CardinalityType DEF NamesOf
<1>2. \A i \in Inode : Left(i) \in Nat
  <2> HIDE DEF Lost
  <2>1. \A i \in Inode : f.nlink[i] \in Nat
    BY DEF Tree
  <2> QED BY <1>1, <2>1
<1> HIDE DEF Lost, Left, Unused
<1>3. Unlinked(f, R, C, K) =
        [tree |-> Without(f.tree, R), nlink |-> [i \in Inode |-> Left(i)],
         used |-> f.used \ {i \in Inode : Unused(i) /\ i \notin K},
         dirs |-> f.dirs,
         torn |-> f.torn \cup {i \in K : Unused(i)}
                         \cup {i \in Inode : NamesOf(f, i) \cap (R \ C) # {}}]
  BY DEF Unlinked, Lost, Left, Unused
<1> QED BY <1>2, <1>3 DEF Tree, Without

LEMMA HalfRemovedType ==
    ASSUME NEW f \in Tree, NEW n \in Name, f.tree[n] # NoInode, NEW h \in HalfRemoved(f, n)
    PROVE  h \in Tree
<1>1. f.tree[n] \in Inode
  BY DEF Tree
<1>2. h = Unlinked(f, {n}, {}, {}) \/ \E K \in SUBSET {f.tree[n]} : h = Unlinked(f, {n}, {n}, K)
  BY DEF HalfRemoved
<1> QED BY <1>1, <1>2, UnlinkedType

\* So does purging them (ext4_dir_rm).
LEMMA PurgedType ==
    ASSUME NEW f \in Tree, NEW R \in SUBSET Name
    PROVE  Purged(f, R) \in Tree
BY DEF Tree, Purged, Without

LEMMA HalfPurgedType ==
    ASSUME NEW f \in Tree, NEW n \in Name, NEW h \in HalfPurged(f, n)
    PROVE  h \in Tree
<1> DEFINE g == Unlinked(f, {n}, {}, {})
<1>1. g \in Tree
  BY UnlinkedType
<1> HIDE DEF g
<1>2. h = g \/ h = [g EXCEPT !.nlink = [@ EXCEPT ![f.tree[n]] = 0]]
  BY DEF HalfPurged, g
<1> QED BY <1>1, <1>2 DEF Tree

\* The trees a call may leave when it fails.
LEMMA FailuresAre ==
    ASSUME NEW F, NEW o \in Failures(F)
    PROVE  IOErrors /\ o.err = "EIO" /\ \E f \in F : o.fs = f
BY DEF Failures, IOFailure, Outcome

\* Every outcome of a filesystem call is a tree and an errno.
LEMMA OpenType ==
    ASSUME NEW f \in Tree, NEW n \in Name, NEW creat \in BOOLEAN,
           NEW o \in FsOpen(f, n, creat)
    PROVE  /\ o.fs \in Tree /\ o.err \in Errno
           /\ o.err = "OK" => o.fs.tree[n] \in Inode
<1>1. WithParent(f, n) \in Tree
  BY DEF Tree, WithParent
<1> DEFINE g == WithParent(f, n)
<1>2. \A i \in Inode : Created(g, n, i) \in Tree /\ Created(g, n, i).tree[n] = i
  BY <1>1 DEF Tree, Created
<1>3. \A i \in Inode : \A entry \in {i, NoInode}, kept \in SUBSET {i} :
        HalfCreated(g, n, i, entry, kept) \in Tree
  BY <1>1 DEF Tree, HalfCreated
<1>4. f.tree[n] # NoInode => f.tree[n] \in Inode
  BY DEF Tree
<1> HIDE DEF g
<1>5. \/ f.tree[n] # NoInode /\ o = Outcome("OK", f)
      \/ o \in {Outcome("ENOENT", f), Outcome("EIO", f), Outcome("ENOSPC", g), Outcome("EIO", g)}
      \/ \E i \in Inode \ f.used :
            \/ o \in {Outcome("OK", Created(g, n, i)), Outcome("EIO", Created(g, n, i))}
            \/ \E entry \in {i, NoInode}, kept \in SUBSET {i} :
                  o = Outcome("EIO", HalfCreated(g, n, i, entry, kept))
  BY DEF FsOpen, IOFailure, Failures, g
<1> QED BY <1>1, <1>2, <1>3, <1>4, <1>5, FailuresAre DEF Outcome, Errno, g

LEMMA CloseType ==
    ASSUME NEW f \in Tree, NEW n \in Name, NEW o \in FsClose(f, n)
    PROVE  o.fs = f /\ o.err \in Errno
BY DEF FsClose, IOFailure, Outcome, Errno

LEMMA UnlinkType ==
    ASSUME NEW f \in Tree, NEW n \in Name, NEW o \in FsUnlink(f, n)
    PROVE  o.fs \in Tree /\ o.err \in Errno
<1>1. Removed(f, {n}) \in Tree
  BY UnlinkedType DEF Removed
<1>2. \/ o.fs = f /\ o.err \in Errno
      \/ o = Outcome("OK", Removed(f, {n}))
      \/ f.tree[n] # NoInode /\ o \in Failures(HalfRemoved(f, n))
  BY DEF FsUnlink, IOFailure, Outcome, Errno
<1> QED BY <1>1, <1>2, HalfRemovedType, FailuresAre DEF Outcome, Errno

LEMMA RenameType ==
    ASSUME NEW f \in Tree, NEW n \in Name, NEW m \in Name, NEW o \in FsRename(f, n, m)
    PROVE  o.fs \in Tree /\ o.err \in Errno
<1>1. Renamed(f, n, m) \in Tree
  BY DEF Tree, Renamed
<1>2. f.tree[n] # NoInode => Entered(f, m, f.tree[n]) \in Tree
  BY DEF Tree, Entered
<1>3. \/ o.fs = f /\ o.err \in Errno
      \/ o = Outcome("OK", Renamed(f, n, m))
      \/ f.tree[n] # NoInode /\ o \in Failures({Entered(f, m, f.tree[n]), Renamed(f, n, m)})
  BY DEF FsRename, IOFailure, Outcome, Errno
<1> QED BY <1>1, <1>2, <1>3, FailuresAre DEF Outcome, Errno

LEMMA LinkType ==
    ASSUME NEW f \in Tree, NEW n \in Name, NEW m \in Name, NEW o \in FsLink(f, n, m)
    PROVE  o.fs \in Tree /\ o.err \in Errno
<1>1. f.tree[n] # NoInode => Linked(f, m, f.tree[n]) \in Tree
  <2>1. f.tree[n] # NoInode => f.tree[n] \in Inode
    BY DEF Tree
  <2>2. \A i \in Inode : Linked(f, m, i) \in Tree
    BY DEF Tree, Linked
  <2> QED BY <2>1, <2>2
<1>2. f.tree[n] # NoInode => Entered(f, m, f.tree[n]) \in Tree
  BY DEF Tree, Entered
<1>3. \/ o.fs = f /\ o.err \in Errno
      \/ /\ f.tree[n] # NoInode
         /\ \/ o = Outcome("OK", Linked(f, m, f.tree[n]))
            \/ o \in Failures({Entered(f, m, f.tree[n]), Linked(f, m, f.tree[n])})
  BY DEF FsLink, IOFailure, Outcome, Errno
<1> QED BY <1>1, <1>2, <1>3, FailuresAre DEF Outcome, Errno

\* Where ext4_dir_rm may have stopped: every file of R purged, one perhaps by half.
LEMMA PurgedInPartIs ==
    ASSUME NEW f, NEW files, NEW g \in PurgedInPart(f, files)
    PROVE  \E R \in SUBSET files :
             g = Purged(f, R) \/ \E n \in files \ R : g \in HalfPurged(Purged(f, R), n)
BY DEF PurgedInPart

LEMMA RmdirType ==
    ASSUME NEW f \in Tree, NEW d \in Dir, NEW o \in FsRmdir(f, d)
    PROVE  o.fs \in Tree /\ o.err \in Errno
<1> DEFINE files == {n \in Inside(d) : f.tree[n] # NoInode}
           empty == [Purged(f, files) EXCEPT !.dirs = @ \ {d}]
<1>1. \A R \in SUBSET files : Purged(f, R) \in Tree
  BY PurgedType DEF Inside
<1>2. empty \in Tree
  <2>1. Purged(f, files) \in Tree
    BY <1>1
  <2> QED BY <2>1 DEF Tree
<1>3. \A n \in files : n \in Name
  BY DEF Inside
<1>4. \/ o = Outcome("ENOENT", f) \/ o = Outcome("EIO", f) \/ o = Outcome("OK", empty)
      \/ o \in Failures({empty} \cup PurgedInPart(f, files))
  BY DEF FsRmdir, IOFailure
<1> HIDE DEF files, empty
<1>5. ASSUME NEW g \in PurgedInPart(f, files) PROVE g \in Tree
  <2>1. PICK R \in SUBSET files :
          g = Purged(f, R) \/ \E n \in files \ R : g \in HalfPurged(Purged(f, R), n)
    BY PurgedInPartIs
  <2>2. Purged(f, R) \in Tree
    BY <1>1
  <2>3. ASSUME NEW n \in files, g \in HalfPurged(Purged(f, R), n) PROVE g \in Tree
    BY <1>3, <2>2, <2>3, HalfPurgedType
  <2> QED BY <2>1, <2>2, <2>3
<1>6. o \in Failures({empty} \cup PurgedInPart(f, files)) =>
        o.err = "EIO" /\ (o.fs = empty \/ o.fs \in PurgedInPart(f, files))
  BY FailuresAre
<1>7. o.fs \in {f, empty} \cup PurgedInPart(f, files) /\ o.err \in {"ENOENT", "EIO", "OK"}
  BY <1>4, <1>6 DEF Outcome
<1>8. o.fs \in Tree
  BY <1>2, <1>5, <1>7
<1>9. o.err \in Errno
  BY <1>7 DEF Errno
<1> QED BY <1>8, <1>9

LEMMA MkdirType ==
    ASSUME NEW f \in Tree, NEW d \in Dir, NEW o \in FsMkdir(f, d)
    PROVE  o.fs \in Tree /\ o.err \in Errno
<1> DEFINE g == [f EXCEPT !.dirs = @ \cup {d}]
<1>1. g \in Tree
  BY DEF Tree
<1>2. o = Outcome("OK", g) \/ o \in Failures({f, g})
  BY DEF FsMkdir
<1> HIDE DEF g
<1>3. o.fs \in {f, g} /\ o.err \in {"OK", "EIO"}
  BY <1>2, FailuresAre DEF Outcome
<1> QED BY <1>1, <1>3 DEF Errno

-----------------------------------------------------------------------------
(* Typing.                                                                 *)

\* A table of entries is again one after insert, mark_for_unlink and remove.
IsTable(bp) == DOMAIN bp \subseteq Name /\ bp \in [DOMAIN bp -> Entry]

LEMMA TableType ==
    ASSUME NEW bp, IsTable(bp), NEW n \in Name, NEW fd \in Nat
    PROVE  /\ IsTable(Insert(bp, n, fd))
           /\ n \in DOMAIN bp => IsTable(MarkForUnlink(bp, n))
           /\ IsTable(Remove(bp, fd))
<1> USE DEF IsTable
<1>1. IsTable(Insert(bp, n, fd))
  BY DEF Insert, NewEntry, Entry
<1>2. n \in DOMAIN bp => IsTable(MarkForUnlink(bp, n))
  BY DEF MarkForUnlink, Entry
<1>3. IsTable(Remove(bp, fd))
  BY DEF Remove, Emptied, Entry
<1> QED BY <1>1, <1>2, <1>3

\* The only paths remove returns are keys of the table.
LEMMA UnlinkDueIsName ==
    ASSUME NEW bp, IsTable(bp), NEW fd
    PROVE  UnlinkDue(bp, fd) \subseteq Name
BY DEF IsTable, UnlinkDue, Emptied

LEMMA InitType == Init => TypeOK
<1> SUFFICES ASSUME Init PROVE TypeOK
  OBVIOUS
<1>1. idx \in FirstFd .. MaxFd + 1
  BY FilesAssumption DEF Init, FirstFd
<1>2. DOMAIN by_id = {} /\ by_id \in [DOMAIN by_id -> Handle]
  BY DEF Init
<1>3. DOMAIN by_path = {} /\ by_path \in [DOMAIN by_path -> Entry]
  BY DEF Init
<1>4. fs \in Tree /\ last \in [call : Call, err : Errno]
  BY DEF Init, EmptyTree, Tree, Call, Errno
<1> QED BY <1>1, <1>2, <1>3, <1>4 DEF TypeOK

LEMMA OpenTypeOK ==
    ASSUME TypeOK, NEW s \in Spelling, NEW creat \in BOOLEAN, Open(s, creat)
    PROVE  TypeOK'
<1>1. CASE Normal[s] = NoName
  BY <1>1 DEF Open, TypeOK, table, Return, Call, Errno
<1>2. CASE Normal[s] # NoName
  <2>1. Normal[s] \in Name
    BY <1>2, FilesAssumption
  <2>2. PICK o \in FsOpen(fs, Normal[s], creat) :
          /\ fs' = o.fs
          /\ Return("open", o.err)
          /\ IF o.err = "OK" THEN InsertHandle(Normal[s], o.fs.tree[Normal[s]])
                             ELSE UNCHANGED table
    BY <1>2 DEF Open
  <2>3. /\ o.fs \in Tree /\ o.err \in Errno
        /\ o.err = "OK" => o.fs.tree[Normal[s]] \in Inode
    BY <2>1, OpenType DEF TypeOK
  <2>4. fs' \in Tree /\ last' \in [call : Call, err : Errno]
    BY <2>2, <2>3 DEF Return, Call
  <2>5. CASE o.err = "OK"
    <3>1. idx \in Nat /\ idx <= MaxFd /\ MaxFd \in Nat /\ idx >= FirstFd
      BY FilesAssumption DEF Open, TypeOK, FirstFd
    <3>2. IsTable(by_path')
      BY <2>1, <2>2, <2>5, <3>1, TableType DEF TypeOK, IsTable, InsertHandle
    <3>3. [inode |-> o.fs.tree[Normal[s]], path |-> Normal[s]] \in Handle
      BY <2>1, <2>3, <2>5 DEF Handle
    <3>4. by_id' \in [DOMAIN by_id' -> Handle]
      BY <2>2, <2>5, <3>3 DEF TypeOK, InsertHandle
    <3>5. idx' \in FirstFd .. MaxFd + 1 /\ DOMAIN by_id' \subseteq FirstFd .. idx' - 1
      BY <2>2, <2>5, <3>1 DEF TypeOK, FirstFd, InsertHandle
    <3> QED BY <2>4, <3>2, <3>4, <3>5 DEF TypeOK, IsTable
  <2>6. CASE o.err # "OK"
    BY <2>2, <2>4, <2>6 DEF TypeOK, table
  <2> QED BY <2>5, <2>6
<1> QED BY <1>1, <1>2

LEMMA CloseTypeOK ==
    ASSUME TypeOK, NEW fd \in FirstFd .. MaxFd, Close(fd)
    PROVE  TypeOK'
<1>1. by_id[fd].path \in Name
  BY DEF Close, TypeOK, Handle
<1>2. fs' \in Tree /\ last' \in [call : Call, err : Errno]
  <2>1. PICK c \in FsClose(fs, by_id[fd].path) :
          IF UnlinkDue(by_path, fd) = {}
            THEN Return("close", c.err) /\ fs' = fs
            ELSE \E n \in UnlinkDue(by_path, fd) : \E u \in FsUnlink(fs, n) :
                   Return("close", u.err) /\ fs' = u.fs
    BY DEF Close
  <2>2. c.err \in Errno
    BY <1>1, <2>1, CloseType DEF TypeOK
  <2>3. UnlinkDue(by_path, fd) \subseteq Name
    BY UnlinkDueIsName DEF TypeOK, IsTable
  <2>4. \A n \in Name : \A u \in FsUnlink(fs, n) : u.fs \in Tree /\ u.err \in Errno
    BY UnlinkType DEF TypeOK
  <2> QED BY <2>1, <2>2, <2>3, <2>4 DEF TypeOK, Return, Call
<1>3. IsTable(by_path')
  <2>1. fd \in Nat
    BY FilesAssumption DEF FirstFd
  <2> QED BY <1>1, <2>1, TableType DEF Close, TypeOK, IsTable
<1>4. by_id' \in [DOMAIN by_id' -> Handle] /\ DOMAIN by_id' \subseteq DOMAIN by_id
  BY DEF Close, Restrict, TypeOK
<1> QED BY <1>2, <1>3, <1>4 DEF Close, TypeOK, IsTable

LEMMA UnlinkTypeOK ==
    ASSUME TypeOK, NEW s \in Spelling, Unlink(s)
    PROVE  TypeOK'
<1>1. CASE Exist(by_path, s)
  <2>1. IsTable(by_path') /\ UNCHANGED <<by_id, idx, fs>>
    BY <1>1, TableType DEF Unlink, Exist, TypeOK, IsTable
  <2>2. last' \in [call : Call, err : Errno]
    BY <1>1 DEF Unlink, Return, Call, Errno
  <2> QED BY <2>1, <2>2 DEF TypeOK, IsTable
<1>2. CASE ~Exist(by_path, s)
  <2>1. Normal[s] # NoName => Normal[s] \in Name
    BY FilesAssumption
  <2>2. fs' \in Tree /\ last' \in [call : Call, err : Errno]
    BY <1>2, <2>1, UnlinkType DEF Unlink, Return, Call, Errno, TypeOK
  <2> QED BY <1>2, <2>2 DEF Unlink, TypeOK, table
<1> QED BY <1>1, <1>2

LEMMA TreeCallTypeOK ==
    ASSUME TypeOK,
           \/ \E n, m \in Name : Rename(n, m) \/ Link(n, m)
           \/ \E d \in Dir : Rmdir(d) \/ Mkdir(d)
    PROVE  TypeOK'
<1>1. UNCHANGED table
  BY DEF Rename, Link, Rmdir, Mkdir
<1>2. fs' \in Tree /\ last' \in [call : Call, err : Errno]
  BY RenameType, LinkType, RmdirType, MkdirType
     DEF Rename, Link, Rmdir, Mkdir, Return, Call, TypeOK
<1> QED BY <1>1, <1>2 DEF TypeOK, table

\* What the destructor does to the tree: it removes the marked names that exist,
\* or some of them, perhaps by half, when the device fails.
Marked == {n \in DOMAIN by_path : by_path[n].marked /\ fs.tree[n] # NoInode}

LEMMA ReloadUnlinks ==
    ASSUME TypeOK, Reload
    PROVE  /\ fs \in Tree
           /\ \E R \in SUBSET Name : \E C \in SUBSET R : \E K \in SUBSET Inode :
                 /\ fs' = Unlinked(fs, R, C, K)
                 /\ R \in (IF IOErrors THEN SUBSET Marked ELSE {Marked})
<1>1. fs \in Tree /\ Marked \in SUBSET Name /\ \A n \in Marked : fs.tree[n] \in Inode
  BY DEF TypeOK, Tree, Marked
<1>2. \/ fs' = Removed(fs, Marked)
      \/ /\ IOErrors
         /\ \E R \in SUBSET Marked : \E C \in SUBSET R :
            \E K \in SUBSET {fs.tree[n] : n \in C} : fs' = Unlinked(fs, R, C, K)
  BY DEF Reload, Marked
<1>3. CASE fs' = Removed(fs, Marked)
  <2>1. fs' = Unlinked(fs, Marked, Marked, {})
    BY <1>3 DEF Removed
  <2>2. Marked \in (IF IOErrors THEN SUBSET Marked ELSE {Marked})
    BY TreeAssumption
  <2> QED BY <1>1, <2>1, <2>2
<1>4. ASSUME IOErrors, NEW R \in SUBSET Marked, NEW C \in SUBSET R,
             NEW K \in SUBSET {fs.tree[n] : n \in C}, fs' = Unlinked(fs, R, C, K)
      PROVE  \E R2 \in SUBSET Name : \E C2 \in SUBSET R2 : \E K2 \in SUBSET Inode :
                 /\ fs' = Unlinked(fs, R2, C2, K2)
                 /\ R2 \in (IF IOErrors THEN SUBSET Marked ELSE {Marked})
  <2>1. R \in SUBSET Name /\ K \in SUBSET Inode
    BY <1>1
  <2> QED BY <1>4, <2>1
<1> QED BY <1>1, <1>2, <1>3, <1>4

LEMMA ReloadTypeOK ==
    ASSUME TypeOK, Reload
    PROVE  TypeOK'
<1>1. /\ fs \in Tree
      /\ \E R \in SUBSET Name : \E C \in SUBSET R : \E K \in SUBSET Inode :
            fs' = Unlinked(fs, R, C, K)
  BY ReloadUnlinks
<1>2. fs' \in Tree
  BY <1>1, UnlinkedType
<1> QED BY <1>2 DEF Reload, TypeOK, Return, Call, Errno

\* Every variable keeps its type; in particular no descriptor is in use that
\* file_descriptor_container::insert has not given out.
THEOREM TypeCorrect == Spec => []TypeOK
<1>1. TypeOK /\ [Next]_vars => TypeOK'
  <2> SUFFICES ASSUME TypeOK, [Next]_vars
               PROVE  TypeOK'
    OBVIOUS
  <2>1. ASSUME NEW s \in Spelling, NEW creat \in BOOLEAN, Open(s, creat)
        PROVE  TypeOK'
    BY <2>1, OpenTypeOK
  <2>2. ASSUME NEW fd \in FirstFd .. MaxFd, Close(fd)
        PROVE  TypeOK'
    BY <2>2, CloseTypeOK
  <2>3. CASE CloseUnknown
    BY <2>3 DEF CloseUnknown, TypeOK, table, Return, Call, Errno
  <2>4. ASSUME NEW s \in Spelling, Unlink(s)
        PROVE  TypeOK'
    BY <2>4, UnlinkTypeOK
  <2>5. ASSUME \/ \E n, m \in Name : Rename(n, m) \/ Link(n, m)
               \/ \E d \in Dir : Rmdir(d) \/ Mkdir(d)
        PROVE  TypeOK'
    BY <2>5, TreeCallTypeOK
  <2>6. CASE Reload
    BY <2>6, ReloadTypeOK
  <2>7. CASE UNCHANGED vars
    BY <2>7 DEF vars, table, TypeOK
  <2> QED BY <2>1, <2>2, <2>3, <2>4, <2>5, <2>6, <2>7 DEF Next
<1> QED BY InitType, <1>1, PTL DEF Spec

-----------------------------------------------------------------------------
(* The two tables of the container agree.                                  *)

LEMMA OpenConsistent ==
    ASSUME TypeOK, TableConsistent, NEW s \in Spelling, NEW creat \in BOOLEAN, Open(s, creat)
    PROVE  TableConsistent'
<1>1. CASE UNCHANGED table
  BY <1>1 DEF TableConsistent, table
<1>2. CASE ~UNCHANGED table
  <2>1. Normal[s] \in Name
    BY <1>2, FilesAssumption DEF Open
  <2>2. PICK i :
          /\ by_id' = [fd \in DOMAIN by_id \cup {idx} |->
                 IF fd = idx THEN [inode |-> i, path |-> Normal[s]] ELSE by_id[fd]]
          /\ by_path' = Insert(by_path, Normal[s], idx)
    BY <1>2 DEF Open, InsertHandle
  <2>3. idx \notin DOMAIN by_id
    BY FilesAssumption DEF TypeOK, FirstFd
  <2>4. \A n \in DOMAIN by_path' :
          /\ n \in DOMAIN by_path \cup {Normal[s]}
          /\ n # Normal[s] => by_path'[n] = by_path[n]
          /\ n = Normal[s] => by_path'[n].indexes =
                (IF n \in DOMAIN by_path THEN by_path[n].indexes ELSE {}) \cup {idx}
    BY <2>2 DEF Insert, NewEntry, TypeOK, Entry
  <2>5. DOMAIN by_path' = DOMAIN by_path \cup {Normal[s]}
    BY <2>2 DEF Insert
  <2>6. /\ DOMAIN by_id' = DOMAIN by_id \cup {idx}
        /\ by_id'[idx].path = Normal[s]
        /\ \A fd \in DOMAIN by_id : by_id'[fd] = by_id[fd]
    BY <2>2, <2>3
  <2>7. \A n \in DOMAIN by_path' :
          /\ by_path'[n].indexes # {}
          /\ \A fd \in by_path'[n].indexes : fd \in DOMAIN by_id' /\ by_id'[fd].path = n
    BY <2>4, <2>6 DEF TableConsistent
  <2>8. \A fd \in DOMAIN by_id' :
          /\ by_id'[fd].path \in DOMAIN by_path'
          /\ fd \in by_path'[by_id'[fd].path].indexes
    BY <2>4, <2>5, <2>6 DEF TableConsistent
  <2> QED BY <2>7, <2>8 DEF TableConsistent
<1> QED BY <1>1, <1>2

\* The only entry that removing an open descriptor can empty is that of its path.
LEMMA OnlyOwnEntryEmptied ==
    ASSUME TableConsistent, NEW fd \in DOMAIN by_id
    PROVE  Emptied(by_path, fd) \subseteq {by_id[fd].path}
BY DEF TableConsistent, Emptied

LEMMA CloseConsistent ==
    ASSUME TypeOK, TableConsistent, NEW fd \in FirstFd .. MaxFd, Close(fd)
    PROVE  TableConsistent'
<1>1. fd \in DOMAIN by_id /\ by_path' = Remove(by_path, fd)
  BY DEF Close
<1>2. /\ DOMAIN by_id' = DOMAIN by_id \ {fd}
      /\ \A g \in DOMAIN by_id' : by_id'[g] = by_id[g]
  BY DEF Close, Restrict
<1>3. /\ DOMAIN by_path' = DOMAIN by_path \ Emptied(by_path, fd)
      /\ \A n \in DOMAIN by_path' : by_path'[n].indexes = by_path[n].indexes \ {fd}
  BY <1>1 DEF Remove, TypeOK, Entry
<1>4. \A n \in DOMAIN by_path' : ~(by_path[n].indexes \subseteq {fd})
  BY <1>3 DEF Emptied
<1>5. \A n \in DOMAIN by_path' :
        /\ by_path'[n].indexes # {}
        /\ \A g \in by_path'[n].indexes : g \in DOMAIN by_id' /\ by_id'[g].path = n
  BY <1>2, <1>3, <1>4 DEF TableConsistent
<1>6. \A g \in DOMAIN by_id' :
        /\ by_id'[g].path \in DOMAIN by_path'
        /\ g \in by_path'[by_id'[g].path].indexes
  BY <1>2, <1>3 DEF TableConsistent, Emptied
<1> QED BY <1>5, <1>6 DEF TableConsistent

LEMMA UnlinkConsistent ==
    ASSUME TypeOK, TableConsistent, NEW s \in Spelling, Unlink(s)
    PROVE  TableConsistent'
<1>1. CASE Exist(by_path, s)
  <2>1. /\ DOMAIN by_path' = DOMAIN by_path
        /\ \A n \in DOMAIN by_path : by_path'[n].indexes = by_path[n].indexes
        /\ by_id' = by_id
    BY <1>1 DEF Unlink, Exist, MarkForUnlink, TypeOK, Entry
  <2> QED BY <2>1 DEF TableConsistent
<1>2. CASE ~Exist(by_path, s)
  BY <1>2 DEF Unlink, table, TableConsistent
<1> QED BY <1>1, <1>2

\* The descriptor container never loses, leaks or misfiles a descriptor,
\* whatever calls are made in whatever order.
THEOREM TablesAgree == Spec => []TableConsistent
<1>1. Init => TableConsistent
  BY DEF Init, TableConsistent
<1>2. TypeOK /\ TableConsistent /\ [Next]_vars => TableConsistent'
  <2> SUFFICES ASSUME TypeOK, TableConsistent, [Next]_vars
               PROVE  TableConsistent'
    OBVIOUS
  <2>1. ASSUME NEW s \in Spelling, NEW creat \in BOOLEAN, Open(s, creat)
        PROVE  TableConsistent'
    BY <2>1, OpenConsistent
  <2>2. ASSUME NEW fd \in FirstFd .. MaxFd, Close(fd)
        PROVE  TableConsistent'
    BY <2>2, CloseConsistent
  <2>3. ASSUME NEW s \in Spelling, Unlink(s)
        PROVE  TableConsistent'
    BY <2>3, UnlinkConsistent
  <2>4. CASE \/ CloseUnknown
             \/ \E n, m \in Name : Rename(n, m) \/ Link(n, m)
             \/ \E d \in Dir : Rmdir(d) \/ Mkdir(d)
             \/ UNCHANGED vars
    BY <2>4 DEF CloseUnknown, Rename, Link, Rmdir, Mkdir, vars, table, TableConsistent
  <2>5. CASE Reload
    BY <2>5 DEF Reload, TableConsistent
  <2> QED BY <2>1, <2>2, <2>3, <2>4, <2>5 DEF Next
<1> QED BY <1>1, <1>2, TypeCorrect, PTL DEF Spec

-----------------------------------------------------------------------------
(* Delayed unlinking ends.                                                 *)

\* When the entry of a marked name goes, close or the destructor has removed
\* the name, or it could not because the device failed.
LEMMA MarkedGoes ==
    ASSUME TypeOK, TableConsistent, [Next]_vars,
           NEW n \in DOMAIN by_path \ DOMAIN by_path', by_path[n].marked
    PROVE  \/ fs'.tree[n] = NoInode
           \/ last'.call = "close" /\ last'.err # "OK"
           \/ IOErrors /\ last'.call = "reload"
<1>1. ASSUME NEW fd \in FirstFd .. MaxFd, Close(fd)
      PROVE  fs'.tree[n] = NoInode \/ (last'.call = "close" /\ last'.err # "OK")
  <2>1. n \in UnlinkDue(by_path, fd)
    BY <1>1 DEF Close, Remove, UnlinkDue
  <2>2. UnlinkDue(by_path, fd) = {n}
    BY <1>1, <2>1, OnlyOwnEntryEmptied DEF Close, UnlinkDue
  <2>3. PICK u \in FsUnlink(fs, n) : Return("close", u.err) /\ fs' = u.fs
    BY <1>1, <2>2 DEF Close
  <2>4. n \in Name
    BY DEF TypeOK
  <2>5. u.err = "OK" => u.fs.tree[n] = NoInode
    <3>1. \/ u = Outcome("EIO", fs) \/ u = Outcome("ENOENT", fs)
          \/ u = Outcome("OK", Removed(fs, {n})) \/ u \in Failures(HalfRemoved(fs, n))
      BY <2>3 DEF FsUnlink, IOFailure
    <3>2. Removed(fs, {n}).tree[n] = NoInode
      BY <2>4 DEF Removed, Unlinked, Without
    <3> QED BY <3>1, <3>2, FailuresAre DEF Outcome
  <2> QED BY <2>3, <2>5 DEF Return
<1>2. ASSUME Reload, ~IOErrors
      PROVE  fs'.tree[n] = NoInode
  <2> DEFINE marked == {m \in DOMAIN by_path : by_path[m].marked /\ fs.tree[m] # NoInode}
  <2>1. fs' = Removed(fs, marked)
    BY <1>2 DEF Reload
  <2>2. n \in Name
    BY DEF TypeOK
  <2>3. fs'.tree = Without(fs.tree, marked)
    BY <2>1 DEF Removed, Unlinked
  <2> QED BY <2>2, <2>3 DEF Without
<1>3. CASE Reload /\ IOErrors
  BY <1>3 DEF Reload, Return
<1>4. ASSUME NEW s \in Spelling, NEW creat \in BOOLEAN, Open(s, creat)
      PROVE  FALSE
  BY <1>4 DEF Open, InsertHandle, Insert, table
<1>5. ASSUME NEW s \in Spelling, Unlink(s)
      PROVE  FALSE
  BY <1>5 DEF Unlink, MarkForUnlink, table
<1>6. ASSUME \/ CloseUnknown
             \/ \E k, m \in Name : Rename(k, m) \/ Link(k, m)
             \/ \E d \in Dir : Rmdir(d) \/ Mkdir(d)
             \/ UNCHANGED vars
      PROVE  FALSE
  BY <1>6 DEF CloseUnknown, Rename, Link, Rmdir, Mkdir, vars, table
<1>7. IOErrors \in BOOLEAN
  BY TreeAssumption
<1> QED BY <1>1, <1>2, <1>3, <1>4, <1>5, <1>6, <1>7 DEF Next

\* Every file unlinked while it was open is removed with its last descriptor.
THEOREM DelayedUnlinkEnds == Spec => MarkedNameGoesWithLastClose
<1>1. TypeOK /\ TableConsistent /\ [Next]_vars =>
        [\A n \in DOMAIN by_path \ DOMAIN by_path' :
            by_path[n].marked =>
              \/ fs'.tree[n] = NoInode
              \/ last'.call = "close" /\ last'.err # "OK"
              \/ IOErrors /\ last'.call = "reload"]_vars
  BY MarkedGoes
<1> QED BY <1>1, TypeCorrect, TablesAgree, PTL DEF Spec, MarkedNameGoesWithLastClose

-----------------------------------------------------------------------------
(* The filesystem calls keep the link counts: Counts(fs) is LinkCounts.    *)

Counts(f) ==
    \A i \in Inode \ f.torn :
        /\ f.nlink[i] = Cardinality(NamesOf(f, i))
        /\ i \in f.used <=> NamesOf(f, i) # {}

LEMMA NamesFinite ==
    ASSUME NEW f \in Tree, NEW i \in Inode
    PROVE  IsFiniteSet(NamesOf(f, i)) /\ Cardinality(NamesOf(f, i)) \in Nat
BY TreeAssumption, FS_Subset, FS_CardinalityType DEF NamesOf

\* Creating a file: the new inode had no names.
LEMMA CreatedCounts ==
    ASSUME NEW f \in Tree, Counts(f), NEW n \in Name, f.tree[n] = NoInode,
           NEW i \in Inode \ f.used
    PROVE  Counts(Created(f, n, i))
<1> DEFINE g == Created(f, n, i)
<1>1. \A j \in Inode : j # i => NamesOf(g, j) = NamesOf(f, j)
  BY TreeAssumption DEF Created, NamesOf, Tree
<1>2. i \notin f.torn => NamesOf(g, i) = {n}
  <2>1. i \notin f.torn => NamesOf(f, i) = {}
    BY DEF Counts
  <2> QED BY <2>1 DEF Created, NamesOf, Tree
<1>3. Cardinality({n}) = 1
  BY FS_Singleton
<1>4. /\ g.nlink[i] = 1 /\ i \in g.used /\ g.torn = f.torn
      /\ \A j \in Inode : j # i => g.nlink[j] = f.nlink[j] /\ (j \in g.used <=> j \in f.used)
  BY DEF Created, Tree
<1> HIDE DEF g
<1>5. Counts(g)
  BY <1>1, <1>2, <1>3, <1>4 DEF Counts
<1> QED BY <1>5 DEF g

\* Adding a link: the inode gets one more name.
LEMMA LinkedCounts ==
    ASSUME NEW f \in Tree, Counts(f), NEW n \in Name, f.tree[n] = NoInode,
           NEW i \in Inode, NamesOf(f, i) # {}
    PROVE  Counts(Linked(f, n, i))
<1> DEFINE g == Linked(f, n, i)
<1>0. i \in Inode /\ (i \notin f.torn => i \in f.used)
  BY DEF Counts
<1>1. \A j \in Inode : j # i => NamesOf(g, j) = NamesOf(f, j)
  BY TreeAssumption DEF Linked, NamesOf, Tree
<1>2. NamesOf(g, i) = NamesOf(f, i) \cup {n} /\ n \notin NamesOf(f, i)
  BY <1>0, TreeAssumption DEF Linked, NamesOf, Tree
<1>3. Cardinality(NamesOf(f, i) \cup {n}) = Cardinality(NamesOf(f, i)) + 1
  BY <1>0, <1>2, NamesFinite, FS_AddElement
<1>4. /\ g.nlink[i] = f.nlink[i] + 1 /\ g.used = f.used /\ g.torn = f.torn
      /\ \A j \in Inode : j # i => g.nlink[j] = f.nlink[j]
  BY <1>0 DEF Linked, Tree
<1> HIDE DEF g
<1>5. Counts(g)
  BY <1>0, <1>1, <1>2, <1>3, <1>4 DEF Counts
<1> QED BY <1>5 DEF g

\* Renaming: one name of the inode is exchanged for another.
LEMMA RenamedCounts ==
    ASSUME NEW f \in Tree, Counts(f), NEW n \in Name, NEW m \in Name,
           f.tree[n] # NoInode, f.tree[m] = NoInode
    PROVE  Counts(Renamed(f, n, m))
<1> DEFINE g == Renamed(f, n, m)
           i == f.tree[n]
<1>0. i \in Inode /\ m # n
  BY DEF Tree
<1>1. /\ g.nlink = f.nlink /\ g.used = f.used /\ g.torn = f.torn
      /\ \A k \in Name : g.tree[k] = IF k = n THEN NoInode ELSE IF k = m THEN i ELSE f.tree[k]
  BY DEF Tree, Renamed
<1> HIDE DEF g
<1>2. \A j \in Inode : j # i => NamesOf(g, j) = NamesOf(f, j)
  BY <1>1, TreeAssumption DEF NamesOf
<1>3. NamesOf(g, i) = (NamesOf(f, i) \ {n}) \cup {m}
  BY <1>0, <1>1, TreeAssumption DEF NamesOf
<1>4. n \in NamesOf(f, i) /\ m \notin NamesOf(f, i)
  BY <1>0, TreeAssumption DEF NamesOf
<1> HIDE DEF i
<1>5. Cardinality(NamesOf(f, i) \ {n}) = Cardinality(NamesOf(f, i)) - 1
      /\ IsFiniteSet(NamesOf(f, i) \ {n})
  BY <1>0, <1>4, NamesFinite, FS_RemoveElement
<1>6. Cardinality(NamesOf(g, i)) = Cardinality(NamesOf(f, i))
  <2>1. Cardinality((NamesOf(f, i) \ {n}) \cup {m}) = Cardinality(NamesOf(f, i) \ {n}) + 1
    BY <1>4, <1>5, FS_AddElement
  <2>2. Cardinality(NamesOf(f, i)) \in Nat
    BY <1>0, NamesFinite
  <2> QED BY <1>3, <1>5, <2>1, <2>2
<1>7. Counts(g)
  BY <1>0, <1>1, <1>2, <1>3, <1>4, <1>6 DEF Counts
<1> QED BY <1>7 DEF g

\* Entering a second name for an inode, or half a file: the inode is torn.
LEMMA EnteredCounts ==
    ASSUME NEW f \in Tree, Counts(f), NEW n \in Name, f.tree[n] = NoInode, NEW i \in Inode
    PROVE  Counts(Entered(f, n, i))
<1> DEFINE g == Entered(f, n, i)
<1>1. \A j \in Inode : j # i => NamesOf(g, j) = NamesOf(f, j)
  BY TreeAssumption DEF Entered, NamesOf, Tree
<1>2. g.nlink = f.nlink /\ g.used = f.used /\ g.torn = f.torn \cup {i}
  BY DEF Entered, Tree
<1> HIDE DEF g
<1>3. Counts(g)
  BY <1>1, <1>2 DEF Counts
<1> QED BY <1>3 DEF g

LEMMA HalfCreatedCounts ==
    ASSUME NEW f \in Tree, Counts(f), NEW n \in Name, f.tree[n] = NoInode,
           NEW i \in Inode \ f.used, NEW entry \in {i, NoInode}, NEW kept \in SUBSET {i}
    PROVE  Counts(HalfCreated(f, n, i, entry, kept))
<1> DEFINE h == HalfCreated(f, n, i, entry, kept)
<1>2. /\ \A k \in Name : h.tree[k] = IF k = n THEN entry ELSE f.tree[k]
      /\ \A j \in Inode : h.nlink[j] = IF j = i THEN 0 ELSE f.nlink[j]
      /\ h.used = f.used \cup kept /\ h.torn = f.torn \cup kept \cup ({entry} \ {NoInode})
  BY DEF Tree, HalfCreated
<1> HIDE DEF h
<1>3. \A j \in Inode : j # entry => NamesOf(h, j) = NamesOf(f, j)
  BY <1>2, TreeAssumption DEF NamesOf
<1>4. ASSUME NEW j \in Inode \ h.torn, j # i
      PROVE  /\ h.nlink[j] = Cardinality(NamesOf(h, j))
             /\ j \in h.used <=> NamesOf(h, j) # {}
  <2>1. j \notin f.torn /\ j # entry /\ (j \in h.used <=> j \in f.used)
    BY <1>2, <1>4, TreeAssumption
  <2>2. h.nlink[j] = f.nlink[j] /\ NamesOf(h, j) = NamesOf(f, j)
    BY <1>2, <1>3, <1>4, <2>1
  <2> QED BY <2>1, <2>2 DEF Counts
<1>5. ASSUME i \notin h.torn
      PROVE  /\ h.nlink[i] = Cardinality(NamesOf(h, i))
             /\ i \in h.used <=> NamesOf(h, i) # {}
  <2>1. i \notin f.torn /\ kept = {} /\ entry = NoInode
    BY <1>2, <1>5, TreeAssumption
  <2>2. NamesOf(h, i) = {} /\ i \notin h.used
    BY <1>2, <1>3, <2>1, TreeAssumption DEF Counts
  <2> QED BY <1>2, <2>2, FS_EmptySet
<1>6. Counts(h)
  BY <1>4, <1>5 DEF Counts
<1> QED BY <1>6 DEF h

\* Removing names: an inode loses as many links as names, and is freed with the
\* last, but for those with which the removal stopped half-way.
LEMMA UnlinkedCounts ==
    ASSUME NEW f \in Tree, Counts(f), NEW R \in SUBSET Name, NEW C \in SUBSET R,
           NEW K \in SUBSET Inode
    PROVE  Counts(Unlinked(f, R, C, K))
<1> DEFINE g == Unlinked(f, R, C, K)
           Lost(i) == Cardinality(C \cap NamesOf(f, i))
           Left(i) == IF Lost(i) < f.nlink[i] THEN f.nlink[i] - Lost(i) ELSE 0
           Unused(i) == Lost(i) > 0 /\ Left(i) = 0
<1>1. \A i \in Inode : g.nlink[i] = Left(i)
  BY DEF Unlinked
<1>2. \A i \in Inode \ g.torn :
        /\ i \notin f.torn
        /\ NamesOf(f, i) \cap (R \ C) = {}
        /\ i \in g.used <=> i \in f.used /\ ~Unused(i)
  BY DEF Unlinked
<1>3. \A i \in Inode : NamesOf(g, i) = NamesOf(f, i) \ R
  BY TreeAssumption DEF Unlinked, Without, NamesOf
<1> SUFFICES ASSUME NEW i \in Inode \ g.torn
             PROVE  /\ g.nlink[i] = Cardinality(NamesOf(g, i))
                    /\ i \in g.used <=> NamesOf(g, i) # {}
  BY DEF Counts
<1> DEFINE N == NamesOf(f, i)
<1>4. IsFiniteSet(N) /\ Cardinality(N) \in Nat /\ f.nlink[i] = Cardinality(N)
      /\ (i \in f.used <=> N # {})
  BY <1>2, NamesFinite DEF Counts
<1>5. /\ IsFiniteSet(N \ C)
      /\ Cardinality(N \ C) = Cardinality(N) - Cardinality(N \cap C)
      /\ IsFiniteSet(N \cap C) /\ Cardinality(N \cap C) <= Cardinality(N)
  BY <1>4, FS_Difference, FS_Intersection
<1>6. Cardinality(N \cap C) \in Nat /\ Cardinality(N \ C) \in Nat
  BY <1>5, FS_CardinalityType
<1>7. Lost(i) = Cardinality(N \cap C)
  <2>1. C \cap N = N \cap C
    OBVIOUS
  <2> QED BY <2>1
<1>8. (Cardinality(N \ C) = 0 <=> N \ C = {}) /\ (Cardinality(N) = 0 <=> N = {})
  BY <1>4, <1>5, FS_EmptySet
<1>9. N \ R = N \ C
  BY <1>2
<1>10. i \in g.used <=> i \in f.used /\ ~(Lost(i) > 0 /\ Left(i) = 0)
  BY <1>2
<1>11. NamesOf(g, i) = N \ C
  BY <1>3, <1>9
<1>12. g.nlink[i] = Left(i)
  BY <1>1
<1> HIDE DEF N, Lost, g
<1>13. Left(i) = Cardinality(N \ C)
  BY <1>4, <1>5, <1>6, <1>7
<1> HIDE DEF Left
<1> QED BY <1>4, <1>5, <1>6, <1>7, <1>8, <1>10, <1>11, <1>12, <1>13

LEMMA RemovedCounts ==
    ASSUME NEW f \in Tree, Counts(f), NEW R \in SUBSET Name
    PROVE  Counts(Removed(f, R))
BY UnlinkedCounts DEF Removed

-----------------------------------------------------------------------------
(* What a careful program can rely on.                                     *)

\* g has every name of f, for the same inode.
Keeps(f, g) == \A m \in Name : f.tree[m] # NoInode => g.tree[m] = f.tree[m]

\* An inode that has a name is allocated, unless it is torn.
LEMMA NamedIsUsed ==
    ASSUME NEW f \in Tree, Counts(f), NEW n \in Name, f.tree[n] \in Inode
    PROVE  f.tree[n] \in f.used \cup f.torn
BY DEF Counts, NamesOf

LEMMA OpenKeeps ==
    ASSUME NEW f \in Tree, Counts(f), NEW n \in Name, NEW creat \in BOOLEAN,
           NEW o \in FsOpen(f, n, creat)
    PROVE  Counts(o.fs) /\ Keeps(f, o.fs)
<1> DEFINE g == WithParent(f, n)
<1>1. g \in Tree /\ g.tree = f.tree /\ g.nlink = f.nlink /\ g.used = f.used /\ g.torn = f.torn
  BY DEF WithParent, Tree
<1>2. Counts(g) /\ Keeps(f, g)
  BY <1>1 DEF Counts, NamesOf, Keeps
<1> HIDE DEF g
<1>3. ASSUME f.tree[n] = NoInode, NEW i \in Inode \ f.used
      PROVE  Counts(Created(g, n, i)) /\ Keeps(f, Created(g, n, i))
  <2>1. Counts(Created(g, n, i))
    BY <1>1, <1>2, <1>3, CreatedCounts
  <2>2. Keeps(f, Created(g, n, i))
    BY <1>1, <1>3 DEF Keeps, Created, Tree
  <2> QED BY <2>1, <2>2
<1>4. ASSUME f.tree[n] = NoInode, NEW i \in Inode \ f.used,
             NEW entry \in {i, NoInode}, NEW kept \in SUBSET {i}
      PROVE  /\ Counts(HalfCreated(g, n, i, entry, kept))
             /\ Keeps(f, HalfCreated(g, n, i, entry, kept))
  <2>1. Counts(HalfCreated(g, n, i, entry, kept))
    BY <1>1, <1>2, <1>4, HalfCreatedCounts
  <2>2. \A k \in Name : k # n => HalfCreated(g, n, i, entry, kept).tree[k] = f.tree[k]
    BY <1>1 DEF HalfCreated, Tree
  <2> QED BY <1>4, <2>1, <2>2 DEF Keeps
<1>5. \/ o.fs = f \/ o.fs = g
      \/ /\ f.tree[n] = NoInode
         /\ \E i \in Inode \ f.used :
               \/ o.fs = Created(g, n, i)
               \/ \E entry \in {i, NoInode}, kept \in SUBSET {i} :
                     o.fs = HalfCreated(g, n, i, entry, kept)
  BY DEF FsOpen, IOFailure, Failures, Outcome, g
<1>6. Keeps(f, f)
  BY DEF Keeps
<1> QED BY <1>2, <1>3, <1>4, <1>5, <1>6

\* Removing a name touches no other.
LEMMA UnlinkKeeps ==
    ASSUME NEW f \in Tree, Counts(f), NEW n \in Name, NEW o \in FsUnlink(f, n)
    PROVE  Counts(o.fs) /\ \A m \in Name : m # n => o.fs.tree[m] = f.tree[m]
<1>1. ASSUME NEW C \in SUBSET {n}, NEW K \in SUBSET Inode
      PROVE  /\ Counts(Unlinked(f, {n}, C, K))
             /\ \A m \in Name : m # n => Unlinked(f, {n}, C, K).tree[m] = f.tree[m]
  BY UnlinkedCounts DEF Unlinked, Without
<1>2. \/ o.fs = f
      \/ o.fs = Unlinked(f, {n}, {n}, {})
      \/ f.tree[n] # NoInode /\ o \in Failures(HalfRemoved(f, n))
  BY DEF FsUnlink, IOFailure, Outcome, Removed
<1>3. f.tree[n] # NoInode => f.tree[n] \in Inode
  BY DEF Tree
<1>4. \A h \in HalfRemoved(f, n) :
        f.tree[n] # NoInode =>
          \E C \in SUBSET {n} : \E K \in SUBSET Inode : h = Unlinked(f, {n}, C, K)
  BY <1>3 DEF HalfRemoved
<1> QED BY <1>1, <1>2, <1>4, FailuresAre

LEMMA RenameKeeps ==
    ASSUME NEW f \in Tree, Counts(f), NEW n \in Name, NEW m \in Name, NEW o \in FsRename(f, n, m)
    PROVE  /\ Counts(o.fs)
           /\ \A k \in Name : k # n /\ f.tree[k] # NoInode => o.fs.tree[k] = f.tree[k]
<1> DEFINE g == Renamed(f, n, m)
           h == Entered(f, m, f.tree[n])
<1>1. o.fs = f \/ (f.tree[n] # NoInode /\ f.tree[m] = NoInode /\ o.fs \in {g, h})
  BY FailuresAre DEF FsRename, IOFailure, Outcome
<1>2. \A k \in Name : k # n /\ k # m => g.tree[k] = f.tree[k] /\ h.tree[k] = f.tree[k]
  BY DEF Tree, Renamed, Entered
<1>3. f.tree[n] # NoInode /\ f.tree[m] = NoInode => Counts(g) /\ Counts(h)
  BY RenamedCounts, EnteredCounts DEF Tree
<1> HIDE DEF g, h
<1> QED BY <1>1, <1>2, <1>3

LEMMA LinkKeeps ==
    ASSUME NEW f \in Tree, Counts(f), NEW n \in Name, NEW m \in Name, NEW o \in FsLink(f, n, m)
    PROVE  Counts(o.fs) /\ Keeps(f, o.fs)
<1> DEFINE g == Linked(f, m, f.tree[n])
           h == Entered(f, m, f.tree[n])
<1>1. o.fs = f \/ (f.tree[n] # NoInode /\ f.tree[m] = NoInode /\ o.fs \in {g, h})
  BY FailuresAre DEF FsLink, IOFailure, Outcome
<1>2. f.tree[n] # NoInode => f.tree[n] \in Inode /\ NamesOf(f, f.tree[n]) # {}
  BY DEF Tree, NamesOf
<1>3. f.tree[n] # NoInode /\ f.tree[m] = NoInode => Counts(g) /\ Counts(h)
  BY <1>2, LinkedCounts, EnteredCounts
<1>4. \A k \in Name : k # m => g.tree[k] = f.tree[k] /\ h.tree[k] = f.tree[k]
  BY DEF Linked, Entered, Tree
<1> HIDE DEF g, h
<1> QED BY <1>1, <1>3, <1>4 DEF Keeps

LEMMA MkdirKeeps ==
    ASSUME NEW f \in Tree, Counts(f), NEW d \in Dir, NEW o \in FsMkdir(f, d)
    PROVE  Counts(o.fs) /\ Keeps(f, o.fs) /\ o.fs.tree = f.tree
<1>1. o.fs.tree = f.tree /\ o.fs.nlink = f.nlink /\ o.fs.used = f.used /\ o.fs.torn = f.torn
  BY FailuresAre DEF FsMkdir, Outcome, Tree
<1> QED BY <1>1 DEF Counts, NamesOf, Keeps

\* Removing a directory without files takes no name.
LEMMA RmdirKeeps ==
    ASSUME NEW f \in Tree, Counts(f), NEW d \in Dir, NEW o \in FsRmdir(f, d),
           \A n \in Inside(d) : f.tree[n] = NoInode
    PROVE  Counts(o.fs) /\ Keeps(f, o.fs) /\ o.fs.tree = f.tree
<1> DEFINE files == {n \in Inside(d) : f.tree[n] # NoInode}
           g == Purged(f, {})
           empty == [Purged(f, files) EXCEPT !.dirs = @ \ {d}]
<1>1. files = {}
  OBVIOUS
<1>2. /\ g \in Tree /\ g.tree = f.tree /\ g.nlink = f.nlink /\ g.used = f.used
      /\ g.torn = f.torn
  BY DEF Purged, Without, Tree
<1>3. empty = [g EXCEPT !.dirs = @ \ {d}]
  BY <1>1
<1>4. \/ o = Outcome("ENOENT", f) \/ o = Outcome("EIO", f) \/ o = Outcome("OK", empty)
      \/ o \in Failures({empty} \cup PurgedInPart(f, files))
  BY DEF FsRmdir, IOFailure
<1> HIDE DEF files, g, empty
<1>5. o.fs = f \/ o.fs = g \/ o.fs = [g EXCEPT !.dirs = @ \ {d}]
  <2>1. \A R \in SUBSET files : R = {} /\ files \ R = {}
    BY <1>1
  <2>2. \A x \in PurgedInPart(f, files) : x = g
    BY <2>1, PurgedInPartIs DEF g
  <2>3. o \in Failures({empty} \cup PurgedInPart(f, files)) =>
          o.fs = empty \/ o.fs \in PurgedInPart(f, files)
    BY FailuresAre
  <2>4. o.fs = f \/ o.fs = empty \/ o.fs = g
    BY <1>4, <2>2, <2>3 DEF Outcome
  <2> QED BY <1>3, <2>4
<1>6. o.fs.tree = f.tree /\ o.fs.nlink = f.nlink /\ o.fs.used = f.used /\ o.fs.torn = f.torn
  BY <1>2, <1>5 DEF Tree
<1> QED BY <1>6 DEF Counts, NamesOf, Keeps

\* The invariant of a careful program.
CarefulInv == HandleNamesItsFile /\ LinkCounts

LEMMA LinkCountsIsCounts == LinkCounts <=> Counts(fs)
BY DEF LinkCounts, Counts

\* A step that leaves the tables alone and keeps the names of open files.
LEMMA TreeStepCareful ==
    ASSUME TypeOK, TypeOK', CarefulInv, Counts(fs)', by_id' = by_id,
           \A fd \in DOMAIN by_id : fs'.tree[by_id[fd].path] = fs.tree[by_id[fd].path]
    PROVE  CarefulInv'
<1>1. LinkCounts'
  BY DEF LinkCounts, Counts
<1>2. \A fd \in DOMAIN by_id :
        by_id[fd].path \in Name /\ by_id[fd].inode \in Inode
  BY DEF CarefulInv, HandleNamesItsFile, TypeOK, Handle, Tree
<1>3. \A n \in Name : fs'.tree[n] \in Inode => fs'.tree[n] \in fs'.used \cup fs'.torn
  BY NamedIsUsed DEF TypeOK
<1> QED BY <1>1, <1>2, <1>3 DEF CarefulInv, HandleNamesItsFile

LEMMA OpenCareful ==
    ASSUME TypeOK, TypeOK', CarefulInv, NEW s \in Spelling, NEW creat \in BOOLEAN,
           Open(s, creat)
    PROVE  CarefulInv'
<1>1. Counts(fs) /\ fs \in Tree
  BY LinkCountsIsCounts DEF CarefulInv, TypeOK
<1>2. Counts(fs') /\ Keeps(fs, fs')
  <2>1. CASE Normal[s] = NoName
    BY <1>1, <2>1 DEF Open, Keeps
  <2>2. CASE Normal[s] # NoName
    BY <1>1, <2>2, OpenKeeps, FilesAssumption DEF Open
  <2> QED BY <2>1, <2>2
<1>3. \A fd \in DOMAIN by_id :
        by_id[fd].path \in Name /\ by_id[fd].inode \in Inode
  BY DEF CarefulInv, HandleNamesItsFile, TypeOK, Handle, Tree
<1>4. \A fd \in DOMAIN by_id : fs'.tree[by_id[fd].path] = by_id[fd].inode
  BY <1>2, <1>3, TreeAssumption DEF Keeps, CarefulInv, HandleNamesItsFile
<1>5. \A fd \in DOMAIN by_id' :
        /\ by_id'[fd].path \in Name /\ by_id'[fd].inode \in Inode
        /\ fs'.tree[by_id'[fd].path] = by_id'[fd].inode
  <2>1. CASE UNCHANGED table
    BY <1>3, <1>4, <2>1 DEF table
  <2>2. CASE ~UNCHANGED table
    <3>1. Normal[s] \in Name
      BY <2>2, FilesAssumption DEF Open
    <3>2. PICK o \in FsOpen(fs, Normal[s], creat) :
            /\ fs' = o.fs /\ o.err = "OK"
            /\ by_id' = [fd \in DOMAIN by_id \cup {idx} |->
                   IF fd = idx THEN [inode |-> o.fs.tree[Normal[s]], path |-> Normal[s]]
                               ELSE by_id[fd]]
      BY <2>2 DEF Open, InsertHandle
    <3>3. fs'.tree[Normal[s]] \in Inode
      BY <1>1, <3>1, <3>2, OpenType
    <3> QED BY <1>3, <1>4, <3>1, <3>2, <3>3
  <2> QED BY <2>1, <2>2
<1>6. \A n \in Name : fs'.tree[n] \in Inode => fs'.tree[n] \in fs'.used \cup fs'.torn
  BY <1>2, NamedIsUsed DEF TypeOK
<1> QED BY <1>2, <1>5, <1>6 DEF CarefulInv, HandleNamesItsFile, LinkCounts, Counts

LEMMA CloseCareful ==
    ASSUME TypeOK, TypeOK', TableConsistent, CarefulInv,
           NEW fd \in FirstFd .. MaxFd, Close(fd)
    PROVE  CarefulInv'
<1>1. Counts(fs) /\ fs \in Tree
  BY LinkCountsIsCounts DEF CarefulInv, TypeOK
<1>2. \A g \in DOMAIN by_id :
        by_id[g].path \in Name /\ by_id[g].inode \in Inode
  BY DEF CarefulInv, HandleNamesItsFile, TypeOK, Handle, Tree
<1>3. /\ DOMAIN by_id' = DOMAIN by_id \ {fd}
      /\ \A g \in DOMAIN by_id' : by_id'[g] = by_id[g]
  BY DEF Close, Restrict
<1>4. \A n \in UnlinkDue(by_path, fd) : \A g \in DOMAIN by_id' : by_id[g].path # n
  BY <1>3 DEF UnlinkDue, Emptied, TableConsistent
<1>5. \/ fs' = fs
      \/ \E n \in UnlinkDue(by_path, fd) : \E u \in FsUnlink(fs, n) : fs' = u.fs
  BY DEF Close
<1>6. /\ Counts(fs')
      /\ \A g \in DOMAIN by_id' : fs'.tree[by_id[g].path] = fs.tree[by_id[g].path]
  <2>1. UnlinkDue(by_path, fd) \subseteq Name
    BY UnlinkDueIsName DEF TypeOK, IsTable
  <2> QED BY <1>1, <1>2, <1>3, <1>4, <1>5, <2>1, UnlinkKeeps
<1>7. \A n \in Name : fs'.tree[n] \in Inode => fs'.tree[n] \in fs'.used \cup fs'.torn
  BY <1>6, NamedIsUsed DEF TypeOK
<1> QED BY <1>2, <1>3, <1>6, <1>7 DEF CarefulInv, HandleNamesItsFile, LinkCounts, Counts

LEMMA UnlinkCareful ==
    ASSUME TypeOK, TypeOK', TableConsistent, CarefulInv, NEW n \in Name, Unlink(n)
    PROVE  CarefulInv'
<1>1. Counts(fs) /\ fs \in Tree /\ by_id' = by_id
  BY LinkCountsIsCounts DEF CarefulInv, TypeOK, Unlink, table
<1>2. CASE Exist(by_path, n)
  BY <1>1, <1>2, TreeStepCareful DEF Unlink
<1>3. CASE ~Exist(by_path, n)
  <2>1. Normal[n] = n /\ Normal[n] # NoName
    BY FilesAssumption
  <2>2. PICK o \in FsUnlink(fs, n) : fs' = o.fs
    BY <1>3, <2>1 DEF Unlink
  <2>3. \A fd \in DOMAIN by_id : by_id[fd].path \in Name /\ by_id[fd].path # n
    BY <1>3 DEF Exist, TableConsistent, TypeOK, Handle
  <2>4. Counts(fs') /\ \A fd \in DOMAIN by_id : fs'.tree[by_id[fd].path] = fs.tree[by_id[fd].path]
    BY <1>1, <2>2, <2>3, UnlinkKeeps
  <2> QED BY <1>1, <2>4, TreeStepCareful
<1> QED BY <1>2, <1>3

LEMMA TreeCallsCareful ==
    ASSUME TypeOK, TypeOK', TableConsistent, CarefulInv, CarefulTreeCalls
    PROVE  CarefulInv'
<1>1. Counts(fs) /\ fs \in Tree /\ by_id' = by_id
  BY LinkCountsIsCounts
     DEF CarefulInv, TypeOK, CarefulTreeCalls, Rename, Link, Rmdir, Mkdir, table
<1>2. \A fd \in DOMAIN by_id :
        by_id[fd].path \in Name /\ by_id[fd].path \in DOMAIN by_path
        /\ fs.tree[by_id[fd].path] # NoInode
  BY TreeAssumption DEF TableConsistent, TypeOK, Handle, Tree, CarefulInv, HandleNamesItsFile
<1>3. CASE Counts(fs') /\ Keeps(fs, fs')
  BY <1>1, <1>2, <1>3, TreeStepCareful DEF Keeps
<1>4. ASSUME NEW n \in Name, NEW m \in Name, ~IsOpen(n), Rename(n, m)
      PROVE  CarefulInv'
  <2>1. /\ Counts(fs')
        /\ \A k \in Name : k # n /\ fs.tree[k] # NoInode => fs'.tree[k] = fs.tree[k]
    BY <1>1, <1>4, RenameKeeps DEF Rename
  <2>2. \A fd \in DOMAIN by_id : by_id[fd].path # n
    BY <1>2, <1>4 DEF IsOpen
  <2> QED BY <1>1, <1>2, <2>1, <2>2, TreeStepCareful
<1>5. ASSUME NEW n \in Name, NEW m \in Name, Link(n, m)
      PROVE  Counts(fs') /\ Keeps(fs, fs')
  BY <1>1, <1>5, LinkKeeps DEF Link
<1>6. ASSUME NEW d \in Dir, Mkdir(d)
      PROVE  Counts(fs') /\ Keeps(fs, fs')
  BY <1>1, <1>6, MkdirKeeps DEF Mkdir
<1>7. ASSUME NEW d \in Dir, \A n \in Inside(d) : fs.tree[n] = NoInode, Rmdir(d)
      PROVE  Counts(fs') /\ Keeps(fs, fs')
  BY <1>1, <1>7, RmdirKeeps DEF Rmdir
<1> QED BY <1>3, <1>4, <1>5, <1>6, <1>7 DEF CarefulTreeCalls

LEMMA ReloadCareful ==
    ASSUME TypeOK, TypeOK', CarefulInv, Reload
    PROVE  CarefulInv'
<1>1. \E R \in SUBSET Name : \E C \in SUBSET R : \E K \in SUBSET Inode :
        fs' = Unlinked(fs, R, C, K)
  BY ReloadUnlinks
<1>2. Counts(fs')
  BY <1>1, UnlinkedCounts, LinkCountsIsCounts DEF CarefulInv, TypeOK
<1>3. DOMAIN by_id' = {}
  BY DEF Reload
<1> QED BY <1>2, <1>3 DEF CarefulInv, HandleNamesItsFile, LinkCounts, Counts

\* A careful program's calls are calls: what holds of all programs holds of it.
LEMMA CarefulIsNext == [CarefulNext]_vars => [Next]_vars
BY FilesAssumption DEF CarefulNext, CarefulTreeCalls, Next

\* In a careful program the name of every open file exists and names the inode
\* that was opened, wherever calls fail; and but for inodes that a failed call
\* left half done that inode is allocated, and link counts count names.
THEOREM CarefulProgramsKeepTheirFiles == CarefulSpec => [](HandleNamesItsFile /\ LinkCounts)
<1>1. Init => CarefulInv
  <2> SUFFICES ASSUME Init PROVE CarefulInv
    OBVIOUS
  <2>1. \A i \in Inode : NamesOf(fs, i) = {}
    BY TreeAssumption DEF Init, EmptyTree, NamesOf
  <2>2. LinkCounts
    BY <2>1, FS_EmptySet DEF Init, EmptyTree, LinkCounts
  <2>3. HandleNamesItsFile
    <3>1. DOMAIN by_id = {}
      BY DEF Init
    <3> QED BY <3>1 DEF HandleNamesItsFile
  <2> QED BY <2>2, <2>3 DEF CarefulInv
<1>2. TypeOK /\ TypeOK' /\ TableConsistent /\ CarefulInv /\ [CarefulNext]_vars => CarefulInv'
  <2> SUFFICES ASSUME TypeOK, TypeOK', TableConsistent, CarefulInv, [CarefulNext]_vars
               PROVE  CarefulInv'
    OBVIOUS
  <2>1. ASSUME NEW s \in Spelling, NEW creat \in BOOLEAN, Open(s, creat)
        PROVE  CarefulInv'
    BY <2>1, OpenCareful
  <2>2. ASSUME NEW fd \in FirstFd .. MaxFd, Close(fd)
        PROVE  CarefulInv'
    BY <2>2, CloseCareful
  <2>3. ASSUME NEW n \in Name, Unlink(n)
        PROVE  CarefulInv'
    BY <2>3, UnlinkCareful
  <2>4. CASE CarefulTreeCalls
    BY <2>4, TreeCallsCareful
  <2>5. CASE Reload
    BY <2>5, ReloadCareful
  <2>6. CASE CloseUnknown \/ UNCHANGED vars
    BY <2>6 DEF CloseUnknown, vars, table, CarefulInv, HandleNamesItsFile, LinkCounts
  <2> QED BY <2>1, <2>2, <2>3, <2>4, <2>5, <2>6 DEF CarefulNext
<1>3. CarefulSpec => Spec
  BY CarefulIsNext, PTL DEF CarefulSpec, Spec
<1>4. CarefulInv => HandleNamesItsFile /\ LinkCounts
  BY DEF CarefulInv
<1> QED BY <1>1, <1>2, <1>3, <1>4, TypeCorrect, TablesAgree, PTL DEF CarefulSpec

-----------------------------------------------------------------------------
(* A device that does not fail tears nothing.                              *)

Sound(f, o) == f.torn = {} => o.fs.torn = {}

LEMMA OpenSound ==
    ASSUME ~IOErrors, NEW f \in Tree, NEW n \in Name, NEW creat \in BOOLEAN,
           NEW o \in FsOpen(f, n, creat)
    PROVE  Sound(f, o)
<1> DEFINE g == WithParent(f, n)
<1>1. g \in Tree /\ g.torn = f.torn
  BY DEF WithParent, Tree
<1> HIDE DEF g
<1>2. \A i \in Inode : Created(g, n, i).torn = f.torn
  BY <1>1 DEF Created, Tree
<1>3. o.fs = f \/ o.fs = g \/ \E i \in Inode : o.fs = Created(g, n, i)
  BY DEF FsOpen, IOFailure, Failures, Outcome, g
<1> QED BY <1>1, <1>2, <1>3 DEF Sound

LEMMA RemovedSound ==
    ASSUME NEW f \in Tree, NEW R \in SUBSET Name
    PROVE  Removed(f, R).torn = f.torn
BY DEF Removed, Unlinked

LEMMA UnlinkSound ==
    ASSUME ~IOErrors, NEW f \in Tree, NEW n \in Name, NEW o \in FsUnlink(f, n)
    PROVE  Sound(f, o)
<1>1. o.fs = f \/ o.fs = Removed(f, {n})
  BY FailuresAre DEF FsUnlink, IOFailure, Outcome
<1> QED BY <1>1, RemovedSound DEF Sound

LEMMA RenameSound ==
    ASSUME ~IOErrors, NEW f \in Tree, NEW n \in Name, NEW m \in Name, NEW o \in FsRename(f, n, m)
    PROVE  Sound(f, o)
<1>1. o.fs = f \/ o.fs = Renamed(f, n, m)
  BY FailuresAre DEF FsRename, IOFailure, Outcome
<1>2. Renamed(f, n, m).torn = f.torn
  BY DEF Renamed, Tree
<1> QED BY <1>1, <1>2 DEF Sound

LEMMA LinkSound ==
    ASSUME ~IOErrors, NEW f \in Tree, NEW n \in Name, NEW m \in Name, NEW o \in FsLink(f, n, m)
    PROVE  Sound(f, o)
<1>1. o.fs = f \/ o.fs = Linked(f, m, f.tree[n])
  BY FailuresAre DEF FsLink, IOFailure, Outcome
<1>2. Linked(f, m, f.tree[n]).torn = f.torn
  BY DEF Linked
<1> QED BY <1>1, <1>2 DEF Sound

LEMMA RmdirSound ==
    ASSUME ~IOErrors, NEW f \in Tree, NEW d \in Dir, NEW o \in FsRmdir(f, d)
    PROVE  Sound(f, o)
<1> DEFINE files == {n \in Inside(d) : f.tree[n] # NoInode}
           empty == [Purged(f, files) EXCEPT !.dirs = @ \ {d}]
<1>1. Purged(f, files) \in Tree /\ Purged(f, files).torn = f.torn
  BY PurgedType DEF Purged, Tree, Inside
<1>2. empty.torn = f.torn
  BY <1>1 DEF Tree
<1>3. o = Outcome("ENOENT", f) \/ o = Outcome("OK", empty)
      \/ o \in Failures({empty} \cup PurgedInPart(f, files))
  BY DEF FsRmdir, IOFailure
<1> HIDE DEF empty, files
<1>4. o.fs = f \/ o.fs = empty
  BY <1>3, FailuresAre DEF Outcome
<1> QED BY <1>2, <1>4 DEF Sound

LEMMA MkdirSound ==
    ASSUME ~IOErrors, NEW f \in Tree, NEW d \in Dir, NEW o \in FsMkdir(f, d)
    PROVE  Sound(f, o)
<1>1. o.fs = [f EXCEPT !.dirs = @ \cup {d}]
  BY FailuresAre DEF FsMkdir, Outcome
<1> QED BY <1>1 DEF Sound, Tree

\* Without device failures no call leaves an inode torn.
LEMMA SoundStep ==
    ASSUME TypeOK, [Next]_vars, ~IOErrors, fs.torn = {}
    PROVE  fs'.torn = {}
<1>1. fs \in Tree
  BY DEF TypeOK
<1>2. ASSUME NEW s \in Spelling, NEW creat \in BOOLEAN, Open(s, creat)
      PROVE  fs'.torn = {}
  BY <1>1, <1>2, OpenSound, FilesAssumption DEF Open, Sound
<1>3. ASSUME NEW fd \in FirstFd .. MaxFd, Close(fd)
      PROVE  fs'.torn = {}
  <2>1. UnlinkDue(by_path, fd) \subseteq Name
    BY UnlinkDueIsName DEF TypeOK, IsTable
  <2> QED BY <1>1, <1>3, <2>1, UnlinkSound DEF Close, Sound
<1>4. ASSUME NEW s \in Spelling, Unlink(s)
      PROVE  fs'.torn = {}
  BY <1>1, <1>4, UnlinkSound, FilesAssumption DEF Unlink, Sound
<1>5. ASSUME NEW n \in Name, NEW m \in Name, Rename(n, m) \/ Link(n, m)
      PROVE  fs'.torn = {}
  BY <1>1, <1>5, RenameSound, LinkSound DEF Rename, Link, Sound
<1>6. ASSUME NEW d \in Dir, Rmdir(d) \/ Mkdir(d)
      PROVE  fs'.torn = {}
  BY <1>1, <1>6, RmdirSound, MkdirSound DEF Rmdir, Mkdir, Sound
<1>7. CASE Reload
  <2>1. fs' = Removed(fs, Marked) /\ Marked \in SUBSET Name
    BY <1>7 DEF Reload, Marked, TypeOK
  <2> QED BY <1>1, <2>1, RemovedSound
<1>8. CASE CloseUnknown \/ UNCHANGED vars
  BY <1>8 DEF CloseUnknown, vars
<1> QED BY <1>2, <1>3, <1>4, <1>5, <1>6, <1>7, <1>8 DEF Next

\* In a careful program no inode is freed too early or leaked: it is allocated
\* while it has names, and its link count is their number.  What fails harms the
\* inode the call was about and no other one, ever; and where nothing fails
\* there is no such inode (ext4_fremove, ext4_create_hardlink, ext4_fopen2).
THEOREM LinksAreCounted == CarefulSpec => [](LinkCounts /\ (~IOErrors => fs.torn = {}))
<1>1. Init => (~IOErrors => fs.torn = {})
  BY DEF Init, EmptyTree
<1>2. TypeOK /\ (~IOErrors => fs.torn = {}) /\ [Next]_vars => (~IOErrors => fs.torn = {})'
  BY SoundStep
<1>3. CarefulSpec => Spec
  BY CarefulIsNext, PTL DEF CarefulSpec, Spec
<1> QED BY <1>1, <1>2, <1>3, TypeCorrect, CarefulProgramsKeepTheirFiles, PTL DEF Spec

=============================================================================
