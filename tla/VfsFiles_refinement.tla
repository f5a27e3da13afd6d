------------------------- MODULE VfsFiles_refinement -------------------------
(***************************************************************************)
(* In a careful program the descriptor container over lwext4 does what     *)
(* DelayedUnlink promises, for any number of names, spellings, inodes and  *)
(* descriptors and with a device that may fail: every step of VfsFiles is  *)
(* a step of the promise, or one that the promise does not see.            *)
(*                                                                         *)
(* The mapping forgets inodes, directories and the table by_path but for   *)
(* the marks.  It works because the two tables agree (TableConsistent) and *)
(* because the name of an open file exists (HandleNamesItsFile).           *)
(***************************************************************************)
EXTENDS VfsFiles_proofs

Inv == TypeOK /\ TableConsistent /\ CarefulInv

\* The promise's variables.
Names  == {n \in Name : fs.tree[n] # NoInode}
Opened == [fd \in DOMAIN by_id |-> by_id[fd].path]
Doomed == {n \in DOMAIN by_path : by_path[n].marked}

\* The holders of a name are the indexes of its entry; a name that is open exists.
LEMMA HoldersAreIndexes ==
    ASSUME Inv
    PROVE  /\ \A n \in DOMAIN by_path : /\ Promise!Holders(n) = by_path[n].indexes
                                        /\ Promise!Holders(n) # {}
                                        /\ n \in Names
           /\ \A n : n \notin DOMAIN by_path => Promise!Holders(n) = {}
<1>1. \A n : Promise!Holders(n) = {fd \in DOMAIN by_id : by_id[fd].path = n}
  BY DEF Promise!Holders
<1>2. ASSUME NEW n \in DOMAIN by_path
      PROVE  /\ Promise!Holders(n) = by_path[n].indexes /\ Promise!Holders(n) # {} /\ n \in Names
  <2>1. Promise!Holders(n) = by_path[n].indexes
    BY <1>1 DEF Inv, TableConsistent
  <2>2. PICK fd \in by_path[n].indexes : fd \in DOMAIN by_id /\ by_id[fd].path = n
    BY DEF Inv, TableConsistent
  <2>3. n \in Name /\ by_id[fd].inode \in Inode /\ fs.tree[n] = by_id[fd].inode
    BY <2>2 DEF Inv, TypeOK, CarefulInv, HandleNamesItsFile, Tree
  <2> QED BY <2>1, <2>2, <2>3, TreeAssumption DEF Names
<1>3. \A n : n \notin DOMAIN by_path => Promise!Holders(n) = {}
  BY <1>1 DEF Inv, TableConsistent
<1> QED BY <1>2, <1>3

\* What the filesystem calls do to the set of names that exist.
NamesIn(f) == {n \in Name : f.tree[n] # NoInode}

\* A failed open may leave the new file behind.
LEMMA OpenNames ==
    ASSUME NEW f \in Tree, NEW n \in Name, NEW creat \in BOOLEAN, NEW o \in FsOpen(f, n, creat)
    PROVE  \/ NamesIn(o.fs) = NamesIn(f) \cup {n} /\ (o.err # "OK" => IOErrors)
           \/ NamesIn(o.fs) = NamesIn(f) /\ o.err # "OK"
<1> DEFINE g == WithParent(f, n)
<1>1. g \in Tree /\ g.tree = f.tree
  BY DEF WithParent, Tree
<1> HIDE DEF g
<1>2. ASSUME NEW i \in Inode PROVE NamesIn(Created(g, n, i)) = NamesIn(f) \cup {n}
  BY <1>1, TreeAssumption DEF NamesIn, Created, Tree
<1>3. ASSUME NEW i \in Inode, NEW kept PROVE NamesIn(HalfCreated(g, n, i, i, kept)) = NamesIn(f) \cup {n}
  BY <1>1, TreeAssumption DEF NamesIn, HalfCreated, Tree
<1>4. ASSUME NEW i \in Inode, NEW kept, f.tree[n] = NoInode
      PROVE  NamesIn(HalfCreated(g, n, i, NoInode, kept)) = NamesIn(f)
  BY <1>1, <1>4 DEF NamesIn, HalfCreated, Tree
<1>5. \/ f.tree[n] # NoInode /\ o = Outcome("OK", f)
      \/ o \in {Outcome("ENOENT", f), Outcome("EIO", f), Outcome("ENOSPC", g), Outcome("EIO", g)}
      \/ \E i \in Inode : o = Outcome("OK", Created(g, n, i))
      \/ \E i \in Inode : IOErrors /\ o = Outcome("EIO", Created(g, n, i))
      \/ f.tree[n] = NoInode /\
         \E i \in Inode : \E kept \in SUBSET {i} : \E entry \in {i, NoInode} :
            IOErrors /\ o = Outcome("EIO", HalfCreated(g, n, i, entry, kept))
  BY DEF FsOpen, IOFailure, Failures, g
<1>6. CASE f.tree[n] # NoInode /\ o = Outcome("OK", f)
  BY <1>6 DEF NamesIn, Outcome
<1>7. CASE o \in {Outcome("ENOENT", f), Outcome("EIO", f), Outcome("ENOSPC", g), Outcome("EIO", g)}
  BY <1>1, <1>7 DEF NamesIn, Outcome
<1>8. ASSUME NEW i \in Inode, o = Outcome("OK", Created(g, n, i)) \/ (IOErrors /\ o = Outcome("EIO", Created(g, n, i)))
      PROVE  NamesIn(o.fs) = NamesIn(f) \cup {n} /\ (o.err # "OK" => IOErrors)
  BY <1>2, <1>8 DEF Outcome
<1>9. ASSUME f.tree[n] = NoInode, NEW i \in Inode, NEW kept \in SUBSET {i}, NEW entry \in {i, NoInode},
             IOErrors, o = Outcome("EIO", HalfCreated(g, n, i, entry, kept))
      PROVE  \/ NamesIn(o.fs) = NamesIn(f) \cup {n} /\ (o.err # "OK" => IOErrors)
             \/ NamesIn(o.fs) = NamesIn(f) /\ o.err # "OK"
  <2>1. NamesIn(o.fs) \in {NamesIn(f) \cup {n}, NamesIn(f)}
    BY <1>3, <1>4, <1>9 DEF Outcome
  <2>2. o.err = "EIO"
    BY <1>9 DEF Outcome
  <2> QED BY <1>9, <2>1, <2>2
<1> QED BY <1>5, <1>6, <1>7, <1>8, <1>9

LEMMA UnlinkedNames ==
    ASSUME NEW f \in Tree, NEW R \in SUBSET Name, NEW C, NEW K
    PROVE  NamesIn(Unlinked(f, R, C, K)) = NamesIn(f) \ R
<1>1. Unlinked(f, R, C, K).tree = Without(f.tree, R)
  BY DEF Unlinked
<1> QED BY <1>1 DEF NamesIn, Without

\* unlink of a name that exists removes it, or fails and leaves all or nothing.
LEMMA UnlinkNames ==
    ASSUME NEW f \in Tree, NEW n \in Name, NEW o \in FsUnlink(f, n)
    PROVE  \/ IOErrors /\ o.fs = f
           \/ f.tree[n] = NoInode /\ o.fs = f
           \/ n \in NamesIn(f) /\ NamesIn(o.fs) = NamesIn(f) \ {n}
<1>1. \/ IOErrors /\ o.fs = f
      \/ f.tree[n] = NoInode /\ o.fs = f
      \/ f.tree[n] # NoInode /\ o.fs = Removed(f, {n})
      \/ f.tree[n] # NoInode /\ o \in Failures(HalfRemoved(f, n))
  BY DEF FsUnlink, IOFailure, Outcome
<1>2. ASSUME NEW h \in HalfRemoved(f, n)
      PROVE  \E C, K : h = Unlinked(f, {n}, C, K)
  BY DEF HalfRemoved
<1>3. o \in Failures(HalfRemoved(f, n)) => o.fs \in HalfRemoved(f, n)
  BY FailuresAre
<1>4. NamesIn(Removed(f, {n})) = NamesIn(f) \ {n}
  BY UnlinkedNames DEF Removed
<1>5. \A C, K : NamesIn(Unlinked(f, {n}, C, K)) = NamesIn(f) \ {n}
  BY UnlinkedNames
<1>6. f.tree[n] # NoInode => n \in NamesIn(f)
  BY DEF NamesIn
<1> QED BY <1>1, <1>2, <1>3, <1>4, <1>5, <1>6

\* rename moves the name, or fails and leaves all, or both names.
LEMMA RenameNames ==
    ASSUME NEW f \in Tree, NEW n \in Name, NEW m \in Name, NEW o \in FsRename(f, n, m)
    PROVE  \/ o.fs = f
           \/ /\ n \in NamesIn(f) /\ m \notin NamesIn(f)
              /\ \/ NamesIn(o.fs) = (NamesIn(f) \ {n}) \cup {m}
                 \/ IOErrors /\ NamesIn(o.fs) = NamesIn(f) \cup {m}
<1> DEFINE g == Renamed(f, n, m)
           h == Entered(f, m, f.tree[n])
<1>1. \/ o.fs = f
      \/ f.tree[n] # NoInode /\ f.tree[m] = NoInode /\ o = Outcome("OK", g)
      \/ f.tree[n] # NoInode /\ f.tree[m] = NoInode /\ o \in Failures({h, g})
  BY DEF FsRename, IOFailure, Outcome
<1>2. \A k \in Name : g.tree[k] = IF k = n THEN NoInode ELSE IF k = m THEN f.tree[n] ELSE f.tree[k]
  BY DEF Tree, Renamed
<1>3. \A k \in Name : h.tree[k] = IF k = m THEN f.tree[n] ELSE f.tree[k]
  BY DEF Tree, Entered
<1> HIDE DEF g, h
<1>4. \/ o.fs = f
      \/ f.tree[n] # NoInode /\ f.tree[m] = NoInode /\ (o.fs = g \/ (IOErrors /\ o.fs = h))
  BY <1>1, FailuresAre DEF Outcome
<1> QED BY <1>2, <1>3, <1>4 DEF NamesIn

LEMMA LinkNames ==
    ASSUME NEW f \in Tree, NEW n \in Name, NEW m \in Name, NEW o \in FsLink(f, n, m)
    PROVE  \/ o.fs = f
           \/ /\ n \in NamesIn(f) /\ m \notin NamesIn(f)
              /\ NamesIn(o.fs) = NamesIn(f) \cup {m}
<1> DEFINE g == Linked(f, m, f.tree[n])
           h == Entered(f, m, f.tree[n])
<1>1. \/ o.fs = f
      \/ f.tree[n] # NoInode /\ f.tree[m] = NoInode /\ o = Outcome("OK", g)
      \/ f.tree[n] # NoInode /\ f.tree[m] = NoInode /\ o \in Failures({h, g})
  BY DEF FsLink, IOFailure, Outcome
<1>2. \A k \in Name : g.tree[k] = IF k = m THEN f.tree[n] ELSE f.tree[k]
  BY DEF Linked, Tree
<1>3. \A k \in Name : h.tree[k] = IF k = m THEN f.tree[n] ELSE f.tree[k]
  BY DEF Tree, Entered
<1> HIDE DEF g, h
<1>4. \/ o.fs = f
      \/ f.tree[n] # NoInode /\ f.tree[m] = NoInode /\ (o.fs = g \/ o.fs = h)
  BY <1>1, FailuresAre DEF Outcome
<1> QED BY <1>2, <1>3, <1>4 DEF NamesIn

-----------------------------------------------------------------------------
(* Step by step.                                                           *)

Stutter == Names' = Names /\ Opened' = Opened /\ Doomed' = Doomed

LEMMA StutterIsStep ==
    ASSUME Stutter
    PROVE  UNCHANGED Promise!vars
BY DEF Stutter, Promise!vars, Names, Opened, Doomed

LEMMA NamesAre == Names = NamesIn(fs) /\ Names' = NamesIn(fs')
BY DEF Names, NamesIn

LEMMA OpenRefines ==
    ASSUME Inv, NEW s \in Spelling, NEW creat \in BOOLEAN, Open(s, creat)
    PROVE  [Promise!Next]_Promise!vars
<1>1. CASE Normal[s] = NoName
  BY <1>1, StutterIsStep DEF Open, table, Stutter, Names, Opened, Doomed
<1>2. CASE Normal[s] # NoName
  <2> DEFINE n == Normal[s]
  <2>1. n \in Name /\ fs \in Tree
    BY <1>2, FilesAssumption DEF Inv, TypeOK
  <2>2. PICK o \in FsOpen(fs, n, creat) :
          /\ fs' = o.fs
          /\ IF o.err = "OK" THEN InsertHandle(n, o.fs.tree[n]) ELSE UNCHANGED table
    BY <1>2 DEF Open
  <2>3. \/ Names' = Names \cup {n} /\ (o.err # "OK" => IOErrors)
        \/ Names' = Names /\ o.err # "OK"
    <3> HIDE DEF n
    <3>1. \/ NamesIn(o.fs) = NamesIn(fs) \cup {n} /\ (o.err # "OK" => IOErrors)
          \/ NamesIn(o.fs) = NamesIn(fs) /\ o.err # "OK"
      BY <2>1, <2>2, OpenNames
    <3>2. fs' = o.fs
      BY <2>2
    <3> QED BY <3>1, <3>2, NamesAre
  <2> HIDE DEF n
  <2>4. CASE o.err # "OK"
    <3>1. Opened' = Opened /\ Doomed' = Doomed
      BY <2>2, <2>4 DEF table, Opened, Doomed
    <3>2. CASE Names' = Names
      BY <3>1, <3>2, StutterIsStep DEF Stutter
    <3>3. CASE IOErrors /\ Names' = Names \cup {n}
      <4>1. Promise!OpenFails(n)
        BY <3>1, <3>3 DEF Promise!OpenFails, Names, Opened, Doomed
      <4> QED BY <2>1, <4>1 DEF Promise!Next
    <3> QED BY <2>3, <2>4, <3>2, <3>3
  <2>5. CASE o.err = "OK"
    <3>1. idx \in FirstFd .. MaxFd /\ idx \notin DOMAIN by_id
      BY FilesAssumption DEF Open, Inv, TypeOK, FirstFd
    <3>2. /\ DOMAIN by_id' = DOMAIN by_id \cup {idx} /\ by_id'[idx].path = n
          /\ \A fd \in DOMAIN by_id : by_id'[fd] = by_id[fd]
      BY <2>2, <2>5, <3>1 DEF InsertHandle
    <3>3. Opened' = [g \in DOMAIN Opened \cup {idx} |-> IF g = idx THEN n ELSE Opened[g]]
      BY <3>1, <3>2 DEF Opened
    <3>4. /\ DOMAIN by_path' = DOMAIN by_path \cup {n}
          /\ \A m \in DOMAIN by_path : by_path'[m].marked = by_path[m].marked
          /\ n \notin DOMAIN by_path => ~by_path'[n].marked
      BY <2>2, <2>5 DEF InsertHandle, Insert, NewEntry, Inv, TypeOK, Entry
    <3>5. Doomed' = Doomed
      BY <3>4 DEF Doomed
    <3>6. idx \notin DOMAIN Opened
      BY <3>1 DEF Opened
    <3>7. Promise!Open(idx, n)
      BY <2>3, <2>5, <3>3, <3>5, <3>6 DEF Promise!Open, Names, Opened, Doomed
    <3> QED BY <2>1, <3>1, <3>7 DEF Promise!Next
  <2> QED BY <2>4, <2>5
<1> QED BY <1>1, <1>2

LEMMA CloseRefines ==
    ASSUME Inv, NEW fd \in FirstFd .. MaxFd, Close(fd)
    PROVE  [Promise!Next]_Promise!vars
<1> DEFINE due == UnlinkDue(by_path, fd)
           going == {n \in Doomed : Promise!Holders(n) = {fd}}
<1>1. fd \in DOMAIN by_id /\ fs \in Tree
  BY DEF Close, Inv, TypeOK
<1>2. going = due
  BY HoldersAreIndexes DEF Doomed, UnlinkDue, Emptied
<1>3. due \subseteq {by_id[fd].path} /\ due \subseteq Name /\ due \subseteq Names
  BY <1>1, HoldersAreIndexes, OnlyOwnEntryEmptied DEF Inv, UnlinkDue, Emptied, TypeOK
<1>4. Opened' = Restrict(Opened, DOMAIN Opened \ {fd})
  BY DEF Close, Opened, Restrict
<1>5. Doomed' = Doomed \ due
  <2>1. /\ DOMAIN by_path' = DOMAIN by_path \ Emptied(by_path, fd)
        /\ \A n \in DOMAIN by_path' : by_path'[n].marked = by_path[n].marked
    BY DEF Close, Remove, Inv, TypeOK, Entry
  <2> QED BY <2>1 DEF Doomed, UnlinkDue
<1> HIDE DEF due, going
<1>6. \/ IOErrors /\ Names' = Names
      \/ Names' = Names \ due
  <2>1. CASE due = {}
    BY <2>1, NamesAre DEF Close, due
  <2>2. ASSUME NEW n \in due, NEW u \in FsUnlink(fs, n), fs' = u.fs
        PROVE  (IOErrors /\ Names' = Names) \/ Names' = Names \ due
    <3>1. due = {n} /\ n \in Name /\ fs.tree[n] # NoInode
      BY <1>3 DEF Names
    <3> QED BY <1>1, <2>2, <3>1, UnlinkNames, NamesAre
  <2> QED BY <2>1, <2>2 DEF Close, due
<1>7. \E Q \in (IF IOErrors THEN SUBSET going ELSE {going}) : Names' = Names \ Q
  <2>1. {} \in SUBSET going /\ going \in SUBSET going /\ Names \ {} = Names
    OBVIOUS
  <2> QED BY <1>2, <1>6, <2>1
<1>8. Promise!Close(fd)
  BY <1>1, <1>2, <1>4, <1>5, <1>7
     DEF Promise!Close, Promise!Removal, Promise!Restrict, Restrict, Names, Opened, Doomed, going
<1> QED BY <1>8 DEF Promise!Next

LEMMA UnlinkRefines ==
    ASSUME Inv, NEW n \in Name, Unlink(n)
    PROVE  [Promise!Next]_Promise!vars
<1>1. fs \in Tree /\ by_id' = by_id /\ Opened' = Opened
  BY DEF Unlink, table, Inv, TypeOK, Opened
<1>2. CASE n \in DOMAIN by_path
  <2>1. by_path' = MarkForUnlink(by_path, n) /\ fs' = fs
    BY <1>2 DEF Unlink, Exist
  <2>2. Doomed' = Doomed \cup {n}
    BY <1>2, <2>1 DEF MarkForUnlink, Doomed, Inv, TypeOK, Entry
  <2>3. Promise!Holders(n) # {} /\ n \in Names /\ Names' = Names
    BY <1>2, <2>1, HoldersAreIndexes DEF Names
  <2>4. Promise!Unlink(n)
    BY <1>1, <2>2, <2>3 DEF Promise!Unlink, Names, Opened, Doomed
  <2> QED BY <2>4 DEF Promise!Next
<1>3. CASE n \notin DOMAIN by_path
  <2>1. Normal[n] = n /\ n # NoName
    BY FilesAssumption
  <2>2. PICK o \in FsUnlink(fs, n) : fs' = o.fs
    BY <1>3, <2>1 DEF Unlink, Exist
  <2>3. Doomed' = Doomed
    BY <1>3 DEF Unlink, Exist, table, Doomed
  <2>4. CASE fs' = fs
    BY <1>1, <2>3, <2>4, NamesAre, StutterIsStep DEF Stutter
  <2>5. CASE n \in Names /\ Names' = Names \ {n}
    <3>1. Promise!Holders(n) = {}
      BY <1>3, HoldersAreIndexes
    <3>2. Promise!Unlink(n)
      BY <1>1, <2>3, <2>5, <3>1 DEF Promise!Unlink, Names, Opened, Doomed
    <3> QED BY <3>2 DEF Promise!Next
  <2> QED BY <1>1, <2>2, <2>4, <2>5, UnlinkNames, NamesAre
<1> QED BY <1>2, <1>3

LEMMA TreeCallsRefine ==
    ASSUME Inv, CarefulTreeCalls
    PROVE  [Promise!Next]_Promise!vars
<1>1. fs \in Tree /\ Opened' = Opened /\ Doomed' = Doomed
  BY DEF CarefulTreeCalls, Rename, Link, Rmdir, Mkdir, table, Inv, TypeOK, Opened, Doomed
<1>2. CASE Names' = Names
  BY <1>1, <1>2, StutterIsStep DEF Stutter
<1>3. ASSUME NEW n \in Name, NEW m \in Name, ~IsOpen(n), Rename(n, m)
      PROVE  [Promise!Next]_Promise!vars
  <2>1. ASSUME n \in Names, m \notin Names,
               \/ Names' = (Names \ {n}) \cup {m}
               \/ IOErrors /\ Names' = Names \cup {m}
        PROVE  [Promise!Next]_Promise!vars
    <3>1. Promise!Holders(n) = {}
      BY <1>3, HoldersAreIndexes DEF IsOpen
    <3>2. \E given \in (IF IOErrors THEN SUBSET {n} ELSE {{n}}) :
             Names' = (Names \ given) \cup {m}
      <4>1. {} \in SUBSET {n} /\ {n} \in SUBSET {n} /\ Names \ {} = Names
        OBVIOUS
      <4> QED BY <2>1, <4>1
    <3>3. Promise!Rename(n, m)
      BY <1>1, <2>1, <3>1, <3>2 DEF Promise!Rename, Names, Opened, Doomed
    <3> QED BY <3>3 DEF Promise!Next
  <2> QED BY <1>1, <1>2, <1>3, <2>1, RenameNames, NamesAre DEF Rename
<1>4. ASSUME NEW n \in Name, NEW m \in Name, Link(n, m)
      PROVE  [Promise!Next]_Promise!vars
  <2>1. CASE n \in Names /\ m \notin Names /\ Names' = Names \cup {m}
    <3>1. Promise!Link(n, m)
      BY <1>1, <2>1 DEF Promise!Link, Names, Opened, Doomed
    <3> QED BY <3>1 DEF Promise!Next
  <2> QED BY <1>1, <1>2, <1>4, <2>1, LinkNames, NamesAre DEF Link
<1>5. ASSUME NEW d \in Dir, Mkdir(d)
      PROVE  Names' = Names
  BY <1>1, <1>5, MkdirKeeps, LinkCountsIsCounts DEF Mkdir, Names, Inv, CarefulInv
<1>6. ASSUME NEW d \in Dir, \A n \in Inside(d) : fs.tree[n] = NoInode, Rmdir(d)
      PROVE  Names' = Names
  BY <1>1, <1>6, RmdirKeeps, LinkCountsIsCounts DEF Rmdir, Names, Inv, CarefulInv
<1> QED BY <1>2, <1>3, <1>4, <1>5, <1>6 DEF CarefulTreeCalls

LEMMA ReloadRefines ==
    ASSUME Inv, Reload
    PROVE  [Promise!Next]_Promise!vars
<1>1. fs \in Tree
  BY DEF Inv, TypeOK
<1>2. Marked = Doomed
  BY HoldersAreIndexes DEF Marked, Doomed, Names
<1>3. PICK R \in SUBSET Name : \E C \in SUBSET R : \E K \in SUBSET Inode :
         /\ fs' = Unlinked(fs, R, C, K)
         /\ R \in (IF IOErrors THEN SUBSET Marked ELSE {Marked})
  BY ReloadUnlinks DEF Inv
<1>5. Names' = Names \ R
  BY <1>1, <1>3, UnlinkedNames, NamesAre
<1>6. by_id' = << >> /\ by_path' = << >>
  BY DEF Reload
<1>7. Opened' = << >> /\ Doomed' = {}
  BY <1>6 DEF Opened, Doomed
<1>8. Promise!CloseAll
  BY <1>2, <1>3, <1>5, <1>7 DEF Promise!CloseAll, Promise!Removal, Names, Opened, Doomed
<1> QED BY <1>8 DEF Promise!Next

-----------------------------------------------------------------------------

\* "Refcounting and delayed unlinking of file descriptors": in a careful program
\* open, close, unlink, rename, link and the destructor do what the abstract
\* container does, which knows only names, descriptors and doomed names.
THEOREM DelayedUnlinkIsImplemented == CarefulSpec => ImplementsDelayedUnlink
<1>1. Init => Promise!Init
  <2> SUFFICES ASSUME Init PROVE Promise!Init
    OBVIOUS
  <2>1. Names = {} /\ Opened = << >> /\ Doomed = {}
    BY DEF Init, EmptyTree, Names, Opened, Doomed
  <2> QED BY <2>1 DEF Promise!Init, Names, Opened, Doomed
<1>2. Inv /\ [CarefulNext]_vars => [Promise!Next]_Promise!vars
  <2> SUFFICES ASSUME Inv, [CarefulNext]_vars
               PROVE  [Promise!Next]_Promise!vars
    OBVIOUS
  <2>1. ASSUME NEW s \in Spelling, NEW creat \in BOOLEAN, Open(s, creat)
        PROVE  [Promise!Next]_Promise!vars
    BY <2>1, OpenRefines
  <2>2. ASSUME NEW fd \in FirstFd .. MaxFd, Close(fd)
        PROVE  [Promise!Next]_Promise!vars
    BY <2>2, CloseRefines
  <2>3. ASSUME NEW n \in Name, Unlink(n)
        PROVE  [Promise!Next]_Promise!vars
    BY <2>3, UnlinkRefines
  <2>4. CASE CarefulTreeCalls
    BY <2>4, TreeCallsRefine
  <2>5. CASE Reload
    BY <2>5, ReloadRefines
  <2>6. CASE CloseUnknown \/ UNCHANGED vars
    BY <2>6, StutterIsStep DEF CloseUnknown, vars, table, Stutter, Names, Opened, Doomed
  <2> QED BY <2>1, <2>2, <2>3, <2>4, <2>5, <2>6 DEF CarefulNext
<1>3. CarefulSpec => Spec
  BY CarefulIsNext, PTL DEF CarefulSpec, Spec
<1>4. TypeOK /\ TableConsistent /\ HandleNamesItsFile /\ LinkCounts => Inv
  BY DEF Inv, CarefulInv
<1> QED
  BY <1>1, <1>2, <1>3, <1>4, TypeCorrect, TablesAgree, CarefulProgramsKeepTheirFiles, PTL
     DEF CarefulSpec, ImplementsDelayedUnlink, Promise!Spec

=============================================================================
