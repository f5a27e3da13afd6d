------------------------------ MODULE VfsLocks ------------------------------
(***************************************************************************)
(* The threads inside VirtualFS (src/lib/common/vfs.cpp): which lock each  *)
(* call takes, in which order, and what it reads between two of them.      *)
(*                                                                         *)
(* There is one recursive mutex m_mutex, one mutex in the locker of each   *)
(* mount point (src/lib/common/locker.hpp), the map m_mounts from a root   *)
(* to its locker and the table by_id of open handles.  Several reads take  *)
(* no lock: the map is searched and indexed without m_mutex, and a handle  *)
(* found under m_mutex is used after m_mutex is released.  Using what      *)
(* another thread has destroyed, or reading the map while it changes, is   *)
(* undefined and ends the run with crashed = "undefined"; m_mounts.at of a *)
(* root that is gone throws out of a noexcept function and ends it with    *)
(* crashed = "terminate".                                                  *)
(*                                                                         *)
(* Each mount has one file, so that "open on the same file" is "open on    *)
(* the same mount".                                                        *)
(***************************************************************************)
EXTENDS Naturals, FiniteSets, Functions

CONSTANTS
    Thread,
    Mount,     \* roots
    Nobody,    \* no thread, no root
    Ops,       \* the calls the threads make
    SharedFds, \* whether a thread may use a descriptor another one opened
    MaxCalls,  \* bound: calls made by each thread
    MaxFd      \* bound: descriptors FirstFd..MaxFd are given out

FirstFd == 3

FdOps   == {"fdop", "close"}                     \* read, write, fstat, ...; close
RootOps == {"pathop", "dirop", "symlink", "open", "unlink", "mount", "umount"}
MapOps  == {"umount_all", "stat_parts", "get_roots"}
AllOps  == FdOps \cup RootOps \cup MapOps

ASSUME LocksAssumption ==
    /\ Nobody \notin Thread \cup Mount
    /\ Ops \subseteq AllOps
    /\ SharedFds \in BOOLEAN
    /\ MaxCalls \in Nat /\ MaxFd \in Nat /\ MaxFd >= FirstFd

VARIABLES
    pc,       \* where each thread is in its call
    self,     \* the arguments and local variables of its call
    calls,    \* how many calls it may still start
    mutex,    \* the owner of m_mutex
    mlock,    \* the owner of the mutex of each mount
    m_mounts, \* root -> the number of its locker
    lockers,  \* how many lockers were made: no two get the same number
    by_id,    \* open descriptor -> the root of its file and who opened it
    marked,   \* the mounts whose file is to be unlinked at its last close
    idx,      \* the next descriptor
    crashed   \* "no", or how the program ended

tables == <<m_mounts, lockers, by_id, marked, idx>>
vars   == <<pc, self, calls, mutex, mlock, tables, crashed>>

PC == {"idle", "lock", "locked", "mark", "root", "find", "wait", "infs", "remove",
       "erase", "mounting", "emplace", "next", "tap", "unmounting", "clear", "visit"}

Local == [op   : AllOps \cup {"none", "close_unlink"},
          fd   : Nat,                   \* the descriptor argument
          root : Mount \cup {Nobody},   \* the mount whose lock the call takes
          at   : Mount \cup {Nobody},   \* symlink: the mount the new name is on
          gen  : Nat,                   \* which locker of that root was found
          todo : SUBSET Mount]          \* umount_all, stat_parts: mounts still to visit

Resting == [op |-> "none", fd |-> 0, root |-> Nobody, at |-> Nobody, gen |-> 0,
            todo |-> {}]

Init ==
    /\ pc = [t \in Thread |-> "idle"]
    /\ self = [t \in Thread |-> Resting]
    /\ calls = [t \in Thread |-> MaxCalls]
    /\ mutex = Nobody
    /\ mlock = [m \in Mount |-> Nobody]
    /\ m_mounts = [m \in Mount |-> 0]
    /\ lockers = 1
    /\ by_id = << >>
    /\ marked = {}
    /\ idx = FirstFd
    /\ crashed = "no"

-----------------------------------------------------------------------------
(* State formulae.                                                         *)

\* A thread is changing the map itself: erase, emplace or clear.
ChangesMap(t) == pc[t] \in {"erase", "emplace", "clear"}
MapIsChanging(t) == \E u \in Thread \ {t} : ChangesMap(u)

\* The handle or the locker a thread refers to has been destroyed.
HandleGone(t) == self[t].op \in FdOps /\ self[t].fd \notin DOMAIN by_id
LockerGone(t) == \/ self[t].root \notin DOMAIN m_mounts
                 \/ m_mounts[self[t].root] # self[t].gen

\* The descriptors open on the file of m.
Holders(m) == {fd \in DOMAIN by_id : by_id[fd].root = m}

\* The filesystem a call reads and writes.  symlink finds and locks the mount of the
\* existing path, but the wrapper makes the new name, wherever that is.
Where(t) == IF self[t].op = "symlink" THEN self[t].at ELSE self[t].root

\* A thread works in the filesystem mounted on m.
InFs(t, m) == pc[t] \in {"infs", "unmounting"} /\ Where(t) = m

Goto(t, l)   == pc' = [pc EXCEPT ![t] = l]
Ends(t, how) == crashed' = how /\ UNCHANGED <<pc, self, calls, mutex, mlock, tables>>

\* The call returns, giving up m_mutex if it holds it (lock_guard).
Return(t) ==
    /\ Goto(t, "idle")
    /\ self' = [self EXCEPT ![t] = Resting]
    /\ mutex' = IF mutex = t THEN Nobody ELSE mutex
    /\ UNCHANGED <<calls, crashed>>

-----------------------------------------------------------------------------
(* Steps.                                                                  *)

\* Faults for TLC to find: unlink, or open, without its lock_guard.
FirstStepUnlinkUnlocked(op) ==
    CASE op \in {"pathop", "symlink"} -> "find" [] op = "dirop" -> "root"
      [] op = "stat_parts" -> "visit" [] op = "unlink" -> "locked" [] OTHER -> "lock"
FirstStepOpenUnlocked(op) ==
    CASE op \in {"pathop", "symlink", "open"} -> "find" [] op = "dirop" -> "root"
      [] op = "stat_parts" -> "visit" [] OTHER -> "lock"

\* A call on a path takes m_mutex never, and one on a directory handle and
\* stat_parts neither.
FirstStep(op) ==
    CASE op \in {"pathop", "symlink"} -> "find" [] op = "dirop" -> "root"
      [] op = "stat_parts" -> "visit" [] OTHER -> "lock"

\* A thread calls op on a descriptor or on a root.  A directory handle, and so
\* dirop, may be older than the last umount of its root.
Start(t, op, fd, m, at) ==
    /\ pc[t] = "idle" /\ calls[t] > 0
    /\ Goto(t, FirstStep(op))
    /\ self' = [self EXCEPT ![t] = [Resting EXCEPT !.op = op, !.fd = fd, !.root = m, !.at = at,
                                       !.todo = IF op = "stat_parts" THEN Mount ELSE {}]]
    /\ calls' = [calls EXCEPT ![t] = @ - 1]
    /\ UNCHANGED <<mutex, mlock, tables, crashed>>

\* The number of a closed descriptor may be used by anybody.
MayUse(t, fd) == fd \in DOMAIN by_id => SharedFds \/ by_id[fd].by = t

StartAny(t) ==
    \/ \E op \in Ops \cap FdOps, fd \in FirstFd .. idx - 1 :
         MayUse(t, fd) /\ Start(t, op, fd, Nobody, Nobody)
    \/ \E op \in Ops \cap RootOps, m \in Mount, at \in Mount \cup {Nobody} :
         /\ op = "open" => idx <= MaxFd
         /\ (op = "symlink") = (at # Nobody)
         /\ Start(t, op, 0, m, at)
    \/ \E op \in Ops \cap MapOps : Start(t, op, 0, Nobody, Nobody)

\* m_mutex.lock(), or the lock_guard of a call.
LockMutex(t) ==
    /\ pc[t] = "lock" /\ mutex = Nobody
    /\ mutex' = t
    /\ Goto(t, "locked")
    /\ UNCHANGED <<self, calls, mlock, tables, crashed>>

\* A fault for TLC to find: the early return of EBADF keeps m_mutex.
LookUpFdLeaksMutex(t) ==
    /\ pc[t] = "locked" /\ self[t].op \in FdOps
    /\ IF self[t].fd \in DOMAIN by_id
         THEN /\ Goto(t, "root")
              /\ mutex' = IF self[t].op = "fdop" THEN Nobody ELSE mutex
              /\ UNCHANGED self
         ELSE Goto(t, "idle") /\ self' = [self EXCEPT ![t] = Resting] /\ UNCHANGED mutex
    /\ UNCHANGED <<calls, mlock, tables, crashed>>

\* invoke_fops(fd) and close: is the descriptor open?  invoke_fops releases
\* m_mutex here and keeps a reference to the handle; close, which locked m_mutex
\* before calling invoke_fops, still holds it.
LookUpFd(t) ==
    /\ pc[t] = "locked" /\ self[t].op \in FdOps
    /\ IF self[t].fd \in DOMAIN by_id
         THEN /\ Goto(t, "root")
              /\ mutex' = IF self[t].op = "fdop" THEN Nobody ELSE mutex
              /\ UNCHANGED <<self, calls, crashed>>
         ELSE Return(t)
    /\ UNCHANGED <<mlock, tables>>

\* m_mounts.at(handle.get_root()) of invoke_fops(fd) and of invoke_dirops.
MountAtRoot(t) ==
    /\ pc[t] = "root"
    /\ IF HandleGone(t) \/ MapIsChanging(t) THEN Ends(t, "undefined")
       ELSE LET root == IF self[t].op \in FdOps THEN by_id[self[t].fd].root ELSE self[t].root
            IN  IF root \notin DOMAIN m_mounts THEN Ends(t, "terminate")
                ELSE /\ self' = [self EXCEPT ![t].root = root, ![t].gen = m_mounts[root]]
                     /\ Goto(t, "wait")
                     /\ UNCHANGED <<calls, mutex, mlock, tables, crashed>>

\* open, unlink and umount go on under m_mutex, unlink of an open file to mark it.
Proceed(t) ==
    /\ pc[t] = "locked" /\ self[t].op \in {"open", "unlink", "umount"}
    /\ Goto(t, IF self[t].op = "unlink" /\ Holders(self[t].root) # {} THEN "mark" ELSE "find")
    /\ UNCHANGED <<self, calls, mutex, mlock, tables, crashed>>

\* m_fd_container[name].mark_for_unlink().
MarkFile(t) ==
    /\ pc[t] = "mark"
    /\ marked' = marked \cup {self[t].root}
    /\ Return(t)
    /\ UNCHANGED <<mlock, m_mounts, lockers, by_id, idx>>

\* find_mount_point and m_mounts.find: without m_mutex in invoke_fops(path).
FindMount(t) ==
    /\ pc[t] = "find"
    /\ IF MapIsChanging(t) THEN Ends(t, "undefined")
       ELSE IF self[t].root \notin DOMAIN m_mounts THEN Return(t) /\ UNCHANGED <<mlock, tables>>
       ELSE /\ self' = [self EXCEPT ![t].gen = m_mounts[self[t].root]]
            /\ Goto(t, "wait")
            /\ UNCHANGED <<calls, mutex, mlock, tables, crashed>>

\* A fault for TLC to find: the mutex of the mount is not waited for.
EnterFsUnlocked(t) ==
    /\ pc[t] = "wait" /\ ~LockerGone(t)
    /\ mlock' = [mlock EXCEPT ![self[t].root] = t]
    /\ Goto(t, "infs")
    /\ UNCHANGED <<self, calls, mutex, tables, crashed>>

\* locker::lock(), then the call into the filesystem.
EnterFs(t) ==
    /\ pc[t] = "wait"
    /\ IF LockerGone(t) THEN Ends(t, "undefined")
       ELSE /\ mlock[self[t].root] = Nobody
            /\ mlock' = [mlock EXCEPT ![self[t].root] = t]
            /\ Goto(t, "infs")
            /\ UNCHANGED <<self, calls, mutex, tables, crashed>>

\* A fault for TLC to find: the counter of descriptors stays where it is.
InsertFdSameIdx(t) ==
    /\ by_id' = [fd \in DOMAIN by_id \cup {idx} |->
                   IF fd = idx THEN [root |-> self[t].root, by |-> t] ELSE by_id[fd]]
    /\ UNCHANGED idx

\* file_descriptor_container::insert.
InsertFd(t) ==
    /\ idx <= MaxFd
    /\ by_id' = [fd \in DOMAIN by_id \cup {idx} |->
                   IF fd = idx THEN [root |-> self[t].root, by |-> t] ELSE by_id[fd]]
    /\ idx' = idx + 1

\* Where the calls go on that are not over when the filesystem returns.
AfterFs == [close |-> "remove", umount |-> "erase", stat_parts |-> "visit"]

\* The filesystem returns and ~locked releases the mutex of the mount.  A file
\* that was opened gets its descriptor before that.
LeaveFs(t) ==
    /\ pc[t] = "infs"
    /\ IF HandleGone(t) THEN Ends(t, "undefined")
       ELSE
       /\ mlock' = [mlock EXCEPT ![self[t].root] = Nobody]
       /\ UNCHANGED <<m_mounts, lockers, marked>>
       /\ \/ /\ self[t].op = "open"
             /\ InsertFd(t)
             /\ Return(t)
          \/ /\ self[t].op \notin {"close", "stat_parts"}  \* over: an open or umount failed
             /\ Return(t)
             /\ UNCHANGED <<by_id, idx>>
          \/ /\ self[t].op \in DOMAIN AfterFs
             /\ Goto(t, AfterFs[self[t].op])
             /\ UNCHANGED <<self, calls, mutex, by_id, idx, crashed>>

\* A fault for TLC to find: the handles of the whole entry are destroyed.
RemovedFdsOfEntry(t) == Holders(self[t].root)

\* The descriptors that file_descriptor_container::remove takes out.
RemovedFds(t) == {self[t].fd}

\* close: m_fd_container.remove(fd) destroys the handle; when it was the last one
\* of a marked file, invoke_fops(unlink) follows, still under m_mutex.
RemoveFd(t) ==
    /\ pc[t] = "remove"
    /\ by_id' = Restrict(by_id, DOMAIN by_id \ RemovedFds(t))
    /\ IF Holders(self[t].root) = {self[t].fd} /\ self[t].root \in marked
         THEN /\ marked' = marked \ {self[t].root}
              /\ self' = [self EXCEPT ![t].op = "close_unlink"]
              /\ Goto(t, "find")
              /\ UNCHANGED <<calls, mutex, crashed>>
         ELSE Return(t) /\ marked' = marked
    /\ UNCHANGED <<mlock, m_mounts, lockers, idx>>

\* The lockers of M are destroyed with the mount points in them: undefined when
\* a thread owns the mutex of one, and the call is over.
DestroyLockers(t, M) ==
    IF \E m \in M : mlock[m] # Nobody THEN Ends(t, "undefined")
    ELSE /\ m_mounts' = Restrict(m_mounts, DOMAIN m_mounts \ M)
         /\ Return(t)
         /\ UNCHANGED <<mlock, lockers, by_id, marked, idx>>

\* umount: m_mounts.erase after ~locked released the mutex.
EraseMount(t) == pc[t] = "erase" /\ DestroyLockers(t, {self[t].root})

\* mount: fs->mount runs under m_mutex only, then the map gets a new locker.
BeginMount(t) ==
    /\ pc[t] = "locked" /\ self[t].op = "mount"
    /\ IF self[t].root \in DOMAIN m_mounts THEN Return(t)
       ELSE Goto(t, "mounting") /\ UNCHANGED <<self, calls, mutex, crashed>>
    /\ UNCHANGED <<mlock, tables>>

EndMount(t) ==
    /\ pc[t] = "mounting"
    /\ \/ Return(t)
       \/ Goto(t, "emplace") /\ UNCHANGED <<self, calls, mutex, crashed>>
    /\ UNCHANGED <<mlock, tables>>

EmplaceMount(t) ==
    /\ pc[t] = "emplace"
    /\ m_mounts' = [m \in DOMAIN m_mounts \cup {self[t].root} |->
                      IF m = self[t].root THEN lockers ELSE m_mounts[m]]
    /\ lockers' = lockers + 1
    /\ Return(t)
    /\ UNCHANGED <<mlock, by_id, marked, idx>>

\* umount_all: all_of over the map, then clear().
BeginUmountAll(t) ==
    /\ pc[t] = "locked" /\ self[t].op = "umount_all"
    /\ self' = [self EXCEPT ![t].todo = DOMAIN m_mounts]
    /\ Goto(t, "next")
    /\ UNCHANGED <<calls, mutex, mlock, tables, crashed>>

NextMount(t) ==
    /\ pc[t] = "next"
    /\ \/ /\ self[t].todo = {}
          /\ Goto(t, "clear") /\ UNCHANGED self
       \/ \E m \in self[t].todo :
            /\ self' = [self EXCEPT ![t].root = m]
            /\ Goto(t, "tap")
    /\ UNCHANGED <<calls, mutex, mlock, tables, crashed>>

\* m.second->lock().get(): the lock is a temporary of this expression, gone
\* before fs->unmount is called.
TapLock(t) ==
    /\ pc[t] = "tap" /\ mlock[self[t].root] = Nobody
    /\ Goto(t, "unmounting")
    /\ UNCHANGED <<self, calls, mutex, mlock, tables, crashed>>

\* The first unmount that fails ends the loop.
EndUnmount(t) ==
    /\ pc[t] = "unmounting"
    /\ \/ Goto(t, "clear") /\ UNCHANGED self
       \/ /\ self' = [self EXCEPT ![t].todo = @ \ {self[t].root}]
          /\ Goto(t, "next")
    /\ UNCHANGED <<calls, mutex, mlock, tables, crashed>>

\* m_mounts.clear() destroys every locker, whether its filesystem was unmounted
\* or not.
ClearMounts(t) == pc[t] = "clear" /\ DestroyLockers(t, DOMAIN m_mounts)

\* get_roots copies the names of the map under m_mutex.
ReadRoots(t) ==
    /\ pc[t] = "locked" /\ self[t].op = "get_roots"
    /\ IF MapIsChanging(t) THEN Ends(t, "undefined")
       ELSE Return(t) /\ UNCHANGED <<mlock, tables>>

\* The range-for of stat_parts, without m_mutex: an iterator goes from mount to
\* mount in the order of the roots, and takes the lock of each.  It misses
\* mounts A that come after it has passed their place.
VisitMount(t) ==
    /\ pc[t] = "visit"
    /\ IF MapIsChanging(t) \/ (self[t].root # Nobody /\ LockerGone(t)) THEN Ends(t, "undefined")
       ELSE
       \/ /\ self[t].todo \cap DOMAIN m_mounts = {}
          /\ Return(t)
          /\ UNCHANGED <<mlock, tables>>
       \/ \E m \in self[t].todo \cap DOMAIN m_mounts, A \in SUBSET (self[t].todo \ DOMAIN m_mounts) :
             /\ self' = [self EXCEPT ![t].root = m, ![t].gen = m_mounts[m],
                                     ![t].todo = @ \ (A \cup {m})]
             /\ Goto(t, "wait")
             /\ UNCHANGED <<calls, mutex, mlock, tables, crashed>>

-----------------------------------------------------------------------------

Step(t) ==
    /\ crashed = "no"
    /\ \/ LockMutex(t) \/ LookUpFd(t) \/ MountAtRoot(t) \/ Proceed(t) \/ MarkFile(t)
       \/ FindMount(t) \/ EnterFs(t) \/ LeaveFs(t) \/ RemoveFd(t)
       \/ EraseMount(t) \/ BeginMount(t) \/ EndMount(t) \/ EmplaceMount(t)
       \/ BeginUmountAll(t) \/ NextMount(t) \/ TapLock(t) \/ EndUnmount(t) \/ ClearMounts(t)
       \/ ReadRoots(t) \/ VisitMount(t)

Next == \E t \in Thread : (crashed = "no" /\ StartAny(t)) \/ Step(t)

\* A thread that can go on is scheduled, and the filesystems return.  Which of
\* the threads waiting for a mutex gets it is left open.
Fairness == \A t \in Thread : WF_vars(Step(t))

Spec     == Init /\ [][Next]_vars
FairSpec == Spec /\ Fairness

-----------------------------------------------------------------------------
(* Properties.                                                             *)

\* Every variable has its type, and the descriptors in the table are numbers
\* that were given out (file_descriptor_container::insert).
TypeOK ==
    /\ pc \in [Thread -> PC]
    /\ self \in [Thread -> Local]
    /\ calls \in [Thread -> 0 .. MaxCalls]
    /\ mutex \in Thread \cup {Nobody}
    /\ mlock \in [Mount -> Thread \cup {Nobody}]
    /\ DOMAIN m_mounts \subseteq Mount
    /\ lockers \in Nat
    /\ m_mounts \in [DOMAIN m_mounts -> 0 .. lockers - 1]
    /\ idx \in FirstFd .. MaxFd + 1
    /\ DOMAIN by_id \subseteq FirstFd .. idx - 1
    /\ by_id \in [DOMAIN by_id -> [root : Mount, by : Thread]]
    /\ marked \subseteq Mount
    /\ crashed \in {"no", "undefined", "terminate"}

\* Two threads are never inside the same filesystem at once (locker.hpp), but for
\* umount_all, which unmounts without holding the lock, and symlink, which holds the
\* lock of another mount when the new name is not on the mount of the existing path.
FsExclusion ==
    crashed = "no" =>
        \A m \in Mount : \A t, u \in Thread :
            t # u /\ InFs(t, m) /\ InFs(u, m) =>
                \/ "unmounting" \in {pc[t], pc[u]}
                \/ \E v \in {t, u} : self[v].op = "symlink" /\ self[v].root # m

\* While no mount comes or goes and each thread keeps its descriptors to itself,
\* the reads outside m_mutex meet nothing another thread destroyed.
NoCrash == crashed = "no"

\* A file is marked for unlinking only while it is open: the test in unlink and
\* the mark are not torn apart by the last close (else the mark would wait in an
\* entry without descriptors and hit the next file of that name).
MarkedFileIsOpen == \A m \in marked : Holders(m) # {}

\* While the filesystem unlinks a file, for unlink or for the last close, the
\* file is not open and no open of it is under way.
UnlinkedFileIsClosed ==
    \A t, u \in Thread :
        pc[t] = "infs" /\ self[t].op \in {"unlink", "close_unlink"} =>
            /\ Holders(self[t].root) = {}
            /\ ~(pc[u] \in {"find", "wait", "infs"} /\ self[u].op = "open"
                 /\ self[u].root = self[t].root)

\* No thread waits for ever: m_mutex is always taken before the mutex of a mount
\* and each is released on every path.
EveryCallReturns ==
    \A t \in Thread : pc[t] # "idle" ~> (pc[t] = "idle" \/ crashed # "no")

=============================================================================
