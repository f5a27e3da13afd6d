------------------------------ MODULE VfsFiles ------------------------------
(***************************************************************************)
(* The file descriptors of VirtualFS (src/lib/common/vfs.cpp) over one     *)
(* mounted filesystem, call by call: open, close and unlink run under      *)
(* m_mutex from their first line to their last, and the calls that only    *)
(* change the tree run under the lock of the mount, so each is one step    *)
(* here.  Module VfsLocks takes the calls apart.                           *)
(*                                                                         *)
(* A caller names a file by any of its spellings; lexically_normal maps a  *)
(* spelling to the name, and a spelling that is not absolute to NoName.    *)
(***************************************************************************)
EXTENDS Lwext4Tree, FdContainer, Functions

CONSTANTS
    Spelling,  \* paths as callers write them, the normalised ones among them
    Normal,    \* the name each spelling stands for
    NoName,    \* a path that is not absolute
    MaxFd,     \* bound: descriptors FirstFd..MaxFd are given out
    MaxLinks   \* bound: no further link to an inode with this link count,
               \* which failed removals may leave higher and higher

FirstFd == 3

ASSUME FilesAssumption ==
    /\ NoName \notin Name
    /\ Name \subseteq Spelling
    /\ Normal \in [Spelling -> Name \cup {NoName}]
    /\ \A n \in Name : Normal[n] = n
    /\ MaxFd \in Nat /\ MaxFd >= FirstFd
    /\ MaxLinks \in Nat

VARIABLES
    by_id,    \* descriptor -> its FileHandle: the inode opened and its path
    by_path,  \* name -> the descriptors open on it and the unlink mark
    idx,      \* the next descriptor number, never reset
    fs,       \* the mounted filesystem
    last      \* the last call and the errno it returned

table == <<by_id, by_path, idx>>
vars  == <<by_id, by_path, idx, fs, last>>

Handle == [inode : Inode \cup {NoInode}, path : Name]
Entry  == [indexes : SUBSET Nat, marked : BOOLEAN]
Call   == {"none", "open", "close", "unlink", "rename", "link", "rmdir", "mkdir", "reload"}
Errno  == {"OK", "EINVAL", "EBADF", "ENOENT", "EEXIST", "ENOSPC", "EIO"}

Return(call, e) == last' = [call |-> call, err |-> e]

Init ==
    /\ by_id = << >>
    /\ by_path = << >>
    /\ idx = FirstFd
    /\ fs = EmptyTree
    /\ last = [call |-> "none", err |-> "OK"]

-----------------------------------------------------------------------------

\* A fault for TLC to find: the counter of descriptors stays where it is.
InsertHandleSameIdx(n, i) ==
    /\ by_id' = [fd \in DOMAIN by_id \cup {idx} |->
                    IF fd = idx THEN [inode |-> i, path |-> n] ELSE by_id[fd]]
    /\ by_path' = Insert(by_path, n, idx)
    /\ idx' = idx

\* file_descriptor_container::insert of a handle for inode i opened as n.
InsertHandle(n, i) ==
    /\ by_id' = [fd \in DOMAIN by_id \cup {idx} |->
                    IF fd = idx THEN [inode |-> i, path |-> n] ELSE by_id[fd]]
    /\ by_path' = Insert(by_path, n, idx)
    /\ idx' = idx + 1

\* VirtualFS::open: the descriptor is entered under the normalised path.
Open(s, creat) ==
    /\ idx <= MaxFd
    /\ IF Normal[s] = NoName
         THEN /\ Return("open", "EINVAL")
              /\ UNCHANGED <<table, fs>>
         ELSE \E o \in FsOpen(fs, Normal[s], creat) :
              /\ fs' = o.fs
              /\ Return("open", o.err)
              /\ IF o.err = "OK" THEN InsertHandle(Normal[s], o.fs.tree[Normal[s]])
                                 ELSE UNCHANGED table

\* VirtualFS::close: the descriptor goes whatever the filesystem answered; when
\* it was the last one of a name marked for unlinking, the name is unlinked and
\* the result of that unlink is the result of the call.
Close(fd) ==
    /\ fd \in DOMAIN by_id
    /\ by_id' = Restrict(by_id, DOMAIN by_id \ {fd})
    /\ by_path' = Remove(by_path, fd)
    /\ idx' = idx
    /\ \E c \in FsClose(fs, by_id[fd].path) :
         IF UnlinkDue(by_path, fd) = {}
           THEN Return("close", c.err) /\ fs' = fs
           ELSE \E n \in UnlinkDue(by_path, fd) : \E u \in FsUnlink(fs, n) :
                  Return("close", u.err) /\ fs' = u.fs

\* close of a number that is not open.
CloseUnknown ==
    /\ Return("close", "EBADF")
    /\ UNCHANGED <<table, fs>>

\* VirtualFS::unlink: a file found open is marked, any other is unlinked now.
\* The table is asked about the path as the caller wrote it.
Unlink(s) ==
    \/ /\ Exist(by_path, s)
       /\ by_path' = MarkForUnlink(by_path, s)
       /\ Return("unlink", "OK")
       /\ UNCHANGED <<by_id, idx, fs>>
    \/ /\ ~Exist(by_path, s)
       /\ UNCHANGED table
       /\ IF Normal[s] = NoName
            THEN Return("unlink", "EINVAL") /\ fs' = fs
            ELSE \E o \in FsUnlink(fs, Normal[s]) : Return("unlink", o.err) /\ fs' = o.fs

\* VirtualFS::rename, link, rmdir and mkdir go straight to the filesystem.
Rename(n, m) ==
    /\ \E o \in FsRename(fs, n, m) : Return("rename", o.err) /\ fs' = o.fs
    /\ UNCHANGED table

Link(n, m) ==
    /\ fs.tree[n] # NoInode => fs.nlink[fs.tree[n]] < MaxLinks
    /\ \E o \in FsLink(fs, n, m) : Return("link", o.err) /\ fs' = o.fs
    /\ UNCHANGED table

Rmdir(d) ==
    /\ \E o \in FsRmdir(fs, d) : Return("rmdir", o.err) /\ fs' = o.fs
    /\ UNCHANGED table

Mkdir(d) ==
    /\ \E o \in FsMkdir(fs, d) : Return("mkdir", o.err) /\ fs' = o.fs
    /\ UNCHANGED table

\* The destructor of VirtualFS and a new VirtualFS mounting the same device:
\* cleanup_opened_files closes every descriptor and unlinks every marked name
\* whatever the filesystem answers; the static counter idx goes on.
Reload ==
    LET marked == {n \in DOMAIN by_path : by_path[n].marked /\ fs.tree[n] # NoInode}
    IN  /\ \/ fs' = Removed(fs, marked)
           \/ /\ IOErrors
              /\ \E R \in SUBSET marked : \E C \in SUBSET R :
                 \E K \in SUBSET {fs.tree[n] : n \in C} : fs' = Unlinked(fs, R, C, K)
        /\ by_id' = << >>
        /\ by_path' = << >>
        /\ idx' = idx
        /\ Return("reload", "OK")

Next ==
    \/ \E s \in Spelling, creat \in BOOLEAN : Open(s, creat)
    \/ \E fd \in FirstFd .. MaxFd : Close(fd)
    \/ CloseUnknown
    \/ \E s \in Spelling : Unlink(s)
    \/ \E n, m \in Name : Rename(n, m) \/ Link(n, m)
    \/ \E d \in Dir : Rmdir(d) \/ Mkdir(d)
    \/ Reload

Spec == Init /\ [][Next]_vars

-----------------------------------------------------------------------------
(* The calls of a careful program.  The descriptors remember names, so the *)
(* table can only be right about a file whose name the program leaves      *)
(* alone while it is open: it renames closed files only, and removes       *)
(* directories that hold no file, as POSIX asks.                           *)

IsOpen(n) == n \in DOMAIN by_path

CarefulTreeCalls ==
    \/ \E n, m \in Name : (~IsOpen(n) /\ Rename(n, m)) \/ Link(n, m)
    \/ \E d \in Dir : Mkdir(d) \/ ((\A n \in Inside(d) : fs.tree[n] = NoInode) /\ Rmdir(d))

CarefulNext ==
    \/ \E s \in Spelling, creat \in BOOLEAN : Open(s, creat)
    \/ \E fd \in FirstFd .. MaxFd : Close(fd)
    \/ CloseUnknown
    \/ \E n \in Name : Unlink(n)
    \/ CarefulTreeCalls
    \/ Reload

CarefulSpec == Init /\ [][CarefulNext]_vars

\* The same program, but one that does not always write a path the same way.
SloppySpellingNext == CarefulNext \/ \E s \in Spelling : Unlink(s)

SloppySpellingSpec == Init /\ [][SloppySpellingNext]_vars

-----------------------------------------------------------------------------
(* Properties.                                                             *)

\* Every variable has its type, the descriptors in use are ones that were
\* given out (file_descriptor_container::insert).
TypeOK ==
    /\ idx \in FirstFd .. MaxFd + 1
    /\ DOMAIN by_id \subseteq FirstFd .. idx - 1
    /\ by_id \in [DOMAIN by_id -> Handle]
    /\ DOMAIN by_path \subseteq Name
    /\ by_path \in [DOMAIN by_path -> Entry]
    /\ fs \in Tree
    /\ last \in [call : Call, err : Errno]

\* by_id and by_path tell the same story: a descriptor is listed under the path
\* of its handle and nowhere else, and no entry is empty.  Otherwise remove
\* would erase the wrong entry, leak one, or unlink a file too early.
TableConsistent ==
    /\ \A n \in DOMAIN by_path :
         /\ by_path[n].indexes # {}
         /\ \A fd \in by_path[n].indexes : fd \in DOMAIN by_id /\ by_id[fd].path = n
    /\ \A fd \in DOMAIN by_id :
         /\ by_id[fd].path \in DOMAIN by_path
         /\ fd \in by_path[by_id[fd].path].indexes

\* "Delayed unlinking" ends: when the last descriptor of a marked name goes
\* (close, or the destructor), the name is gone too unless the caller was told
\* of an error (close) or there was nobody to tell (the destructor after a
\* failure of the device).
MarkedNameGoesWithLastClose ==
    [][\A n \in DOMAIN by_path \ DOMAIN by_path' :
          by_path[n].marked =>
              \/ fs'.tree[n] = NoInode
              \/ last'.call = "close" /\ last'.err # "OK"
              \/ IOErrors /\ last'.call = "reload"]_vars

\* In a careful program the name of an open file is still there and still names
\* the inode that was opened, whatever failed: the mtime update of close and the
\* handle-by-path calls (fstat, fchmod) hit the file that is open.  The inode is
\* allocated, unless a call that failed on this very inode left its names and
\* its link count apart (ext4_flink of an open file, say, whose new name is then
\* removed).
HandleNamesItsFile ==
    \A fd \in DOMAIN by_id :
        /\ fs.tree[by_id[fd].path] = by_id[fd].inode
        /\ by_id[fd].inode \in fs.used \cup fs.torn

\* In a careful program an inode is allocated exactly while it has names, and
\* its link count is the number of them: failed calls damage the inodes they
\* were about and, however the program goes on, no others.
LinkCounts ==
    \A i \in Inode \ fs.torn :
        /\ fs.nlink[i] = Cardinality(NamesOf(fs, i))
        /\ i \in fs.used <=> NamesOf(fs, i) # {}

\* "Delayed unlinking of file descriptors": unlink never frees the inode of a
\* file that is open, through whatever spelling of its path it is called.
UnlinkIsDelayed ==
    [][last'.call = "unlink" =>
          \A fd \in DOMAIN by_id : by_id[fd].inode \in fs.used => by_id[fd].inode \in fs'.used]_vars

\* Refcounting and delayed unlinking as the callers see them: in a careful
\* program open, close, unlink and the destructor do what DelayedUnlink promises.
Promise == INSTANCE DelayedUnlink WITH
    Fd     <- FirstFd .. MaxFd,
    Fails  <- IOErrors,
    names  <- {n \in Name : fs.tree[n] # NoInode},
    opened <- [fd \in DOMAIN by_id |-> by_id[fd].path],
    doomed <- {n \in DOMAIN by_path : by_path[n].marked}

ImplementsDelayedUnlink == Promise!Spec

=============================================================================
