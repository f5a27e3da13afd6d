--------------------------- MODULE VfsLocks_proofs ---------------------------
(***************************************************************************)
(* Theorems about VfsLocks, for any number of threads, mounts, calls and   *)
(* descriptors and for any set of calls: every variable keeps its type,    *)
(* two threads never run in one filesystem, a marked file is open, and a   *)
(* file is closed while the filesystem unlinks it. For calls that leave    *)
(* the mounts alone and descriptors that threads do not share, nothing     *)
(* undefined happens (Quiet, at the end).                                  *)
(*                                                                         *)
(* A marked file is open, and one that is unlinked closed, because m_mutex *)
(* is held over a whole open, close, unlink, mount and umount: MutexHeld   *)
(* says which program counters own it, and CloseFd, MarkOpen and           *)
(* UnlinkClosed what a thread that owns it has read of the descriptor      *)
(* table and may still rely on.                                            *)
(***************************************************************************)
EXTENDS VfsLocks, TLAPS

\* The calls that do not hold m_mutex inside the filesystem.
UnlockedOps == {"fdop", "pathop", "dirop", "symlink", "stat_parts"}

\* Where a call is, by its kind.
Place ==
    \A t \in Thread :
        /\ pc[t] = "root" => self[t].op \in {"fdop", "close", "dirop"}
        /\ pc[t] = "find" => self[t].op \in {"pathop", "symlink", "open", "unlink", "umount",
            "close_unlink"}
        /\ pc[t] = "mark" => self[t].op = "unlink"
        /\ pc[t] = "remove" => self[t].op = "close"
        /\ pc[t] = "erase" => self[t].op = "umount"
        /\ pc[t] \in {"mounting", "emplace"} => self[t].op = "mount"
        /\ pc[t] = "visit" => self[t].op = "stat_parts"

\* The calls and the places at which the root is known.
RootKnown ==
    \A t \in Thread :
        \/ self[t].op \in RootOps \cup {"close_unlink"}
        \/ pc[t] \in {"wait", "infs", "remove", "tap", "unmounting"}
        => self[t].root \in Mount

\* The places at which a thread owns m_mutex.
Owns(t) ==
    \/ pc[t] \in {"locked", "mark", "remove", "erase", "mounting", "emplace",
                  "next", "tap", "unmounting", "clear"}
    \/ pc[t] \in {"root", "find", "wait", "infs"} /\ self[t].op \notin UnlockedOps

MutexHeld == \A t \in Thread : Owns(t) => mutex = t

\* A thread inside a filesystem owns the mutex of its mount.
FsLock == \A t \in Thread : pc[t] = "infs" => mlock[self[t].root] = t

\* close: the descriptor it found stays in the table until it takes it out.
CloseFd ==
    \A t \in Thread :
        self[t].op = "close" /\ pc[t] \in {"root", "wait", "infs", "remove"} =>
            /\ self[t].fd \in DOMAIN by_id
            /\ pc[t] # "root" => by_id[self[t].fd].root = self[t].root

\* unlink: the file it found open stays open until it is marked, and one it found
\* closed stays closed until it is gone.
MarkOpen == \A t \in Thread : pc[t] = "mark" => Holders(self[t].root) # {}

UnlinkClosed ==
    \A t \in Thread :
        self[t].op \in {"unlink", "close_unlink"} /\ pc[t] \in {"find", "wait", "infs"} =>
            Holders(self[t].root) = {}

\* The inductive invariant.
IInv ==
    /\ TypeOK /\ Place /\ RootKnown /\ MutexHeld /\ FsLock
    /\ CloseFd /\ MarkOpen /\ UnlinkClosed /\ MarkedFileIsOpen

LEMMA InitIInv == Init => IInv
  BY LocksAssumption DEF Init, IInv, TypeOK, Place, RootKnown, MutexHeld, Owns, FsLock,
      CloseFd, MarkOpen, UnlinkClosed, MarkedFileIsOpen, PC, Local, Resting, AllOps, FdOps,
      RootOps, Holders, FirstFd

-----------------------------------------------------------------------------
(* Lemmas about the parts of a step.                                       *)

\* What TypeOK says of the variables that Return and a new place change.
ThreadTypes ==
    /\ pc \in [Thread -> PC] /\ self \in [Thread -> Local]
    /\ calls \in [Thread -> 0 .. MaxCalls] /\ mutex \in Thread \cup {Nobody}
    /\ crashed \in {"no", "undefined", "terminate"}

\* What it says of the tables and the mutexes of the mounts.
TableTypes ==
    /\ mlock \in [Mount -> Thread \cup {Nobody}]
    /\ DOMAIN m_mounts \subseteq Mount /\ lockers \in Nat
    /\ m_mounts \in [DOMAIN m_mounts -> 0 .. lockers - 1]
    /\ idx \in FirstFd .. MaxFd + 1
    /\ DOMAIN by_id \subseteq FirstFd .. idx - 1
    /\ by_id \in [DOMAIN by_id -> [root : Mount, by : Thread]]
    /\ marked \subseteq Mount

LEMMA LocalUpdated ==
    ASSUME NEW s \in Local, NEW root \in Mount, NEW gen \in Nat
    PROVE  [s EXCEPT !.root = root, !.gen = gen] \in Local
  BY DEF Local

LEMMA LocalUnlinks == ASSUME NEW s \in Local PROVE [s EXCEPT !.op = "close_unlink"] \in Local
  BY DEF Local

LEMMA LocalRoot ==
    ASSUME NEW s \in Local, NEW root \in Mount PROVE [s EXCEPT !.root = root] \in Local
  BY DEF Local

LEMMA LocalVisit ==
    ASSUME NEW s \in Local, NEW root \in Mount, NEW gen \in Nat, NEW todo \in SUBSET Mount
    PROVE  [s EXCEPT !.root = root, !.gen = gen, !.todo = todo] \in Local
  BY DEF Local

LEMMA LocalTodo ==
    ASSUME NEW s \in Local, NEW todo \in SUBSET Mount
    PROVE  [s EXCEPT !.todo = todo] \in Local
  BY DEF Local

LEMMA Types == TypeOK <=> ThreadTypes /\ TableTypes
  BY DEF TypeOK, ThreadTypes, TableTypes

LEMMA TypesNext == TypeOK' <=> ThreadTypes' /\ TableTypes'
  BY DEF TypeOK, ThreadTypes, TableTypes

LEMMA TablesKept == ASSUME TableTypes, UNCHANGED <<mlock, tables>> PROVE TableTypes'
  BY DEF TableTypes, tables

LEMMA ReturnTypes == ASSUME ThreadTypes, NEW t \in Thread, Return(t) PROVE ThreadTypes'
  BY DEF ThreadTypes, Return, Goto, Resting, Local, PC

LEMMA EndsTypes ==
    ASSUME TypeOK, NEW t \in Thread, NEW how \in {"undefined", "terminate"}, Ends(t, how)
    PROVE  TypeOK'
  BY DEF TypeOK, Ends, tables

LEMMA DestroyTypes ==
    ASSUME TypeOK, NEW t \in Thread, NEW M, DestroyLockers(t, M)
    PROVE  TypeOK'
<1>1. CASE Ends(t, "undefined")
  BY <1>1, EndsTypes
<1>2. CASE /\ m_mounts' = Restrict(m_mounts, DOMAIN m_mounts \ M) /\ Return(t)
           /\ UNCHANGED <<mlock, lockers, by_id, marked, idx>>
  <2>1. TableTypes'
    BY <1>2, Types DEF TableTypes, Restrict
  <2>q. QED BY <1>2, <2>1, ReturnTypes, Types, TypesNext
<1>q. QED BY <1>1, <1>2 DEF DestroyLockers

\* The first place of a call, and what is known of its arguments.
LEMMA FirstPlace ==
    ASSUME NEW op \in AllOps
    PROVE  \/ FirstStep(op) = "lock"
           \/ FirstStep(op) = "find" /\ op \in {"pathop", "symlink"}
           \/ FirstStep(op) = "root" /\ op = "dirop"
           \/ FirstStep(op) = "visit" /\ op = "stat_parts"
  BY DEF AllOps, FdOps, RootOps, MapOps, FirstStep

LEMMA StartArguments ==
    ASSUME TypeOK, NEW t \in Thread, StartAny(t)
    PROVE  \E op \in AllOps, fd \in Nat, m \in Mount \cup {Nobody}, at \in Mount \cup {Nobody} :
              (op \in RootOps => m \in Mount) /\ Start(t, op, fd, m, at)
<1>1. CASE \E op \in Ops \cap FdOps, fd \in FirstFd .. idx - 1 : Start(t, op, fd, Nobody, Nobody)
  <2>1. PICK op \in Ops \cap FdOps, fd \in FirstFd .. idx - 1 : Start(t, op, fd, Nobody, Nobody)
    BY <1>1
  <2>2. op \in AllOps /\ op \notin RootOps
    BY <2>1 DEF AllOps, FdOps, RootOps
  <2>3. fd \in Nat
    BY <2>1 DEF TypeOK, FirstFd
  <2>q. QED BY <2>1, <2>2, <2>3
<1>2. CASE \E op \in Ops \cap RootOps, m \in Mount, at \in Mount \cup {Nobody} :
              Start(t, op, 0, m, at)
  BY <1>2, LocksAssumption DEF AllOps
<1>3. CASE \E op \in Ops \cap MapOps : Start(t, op, 0, Nobody, Nobody)
  BY <1>3 DEF AllOps, RootOps, MapOps
<1>q. QED BY <1>1, <1>2, <1>3 DEF StartAny

\* A thread that starts: where it is, what it holds, and that nothing else changes.
LEMMA Started ==
    ASSUME TypeOK, NEW t \in Thread, StartAny(t)
    PROVE  /\ pc[t] = "idle" /\ UNCHANGED <<mutex, mlock, tables, crashed>>
           /\ self' \in [Thread -> Local] /\ calls' \in [Thread -> 0 .. MaxCalls]
           /\ pc' \in [Thread -> PC]
           /\ \/ pc'[t] = "lock"
              \/ pc'[t] = "find" /\ self'[t].op \in {"pathop", "symlink"}
              \/ pc'[t] = "root" /\ self'[t].op = "dirop"
              \/ pc'[t] = "visit" /\ self'[t].op = "stat_parts"
           /\ self'[t].op \in RootOps => self'[t].root \in Mount
           /\ self'[t].op # "close_unlink"
           /\ \A u \in Thread \ {t} : pc'[u] = pc[u] /\ self'[u] = self[u]
<1>1. PICK op \in AllOps, fd \in Nat, m \in Mount \cup {Nobody}, at \in Mount \cup {Nobody} :
         (op \in RootOps => m \in Mount) /\ Start(t, op, fd, m, at)
  BY StartArguments
<1>2. /\ self' \in [Thread -> Local] /\ self'[t].op = op /\ self'[t].root = m
      /\ \A u \in Thread \ {t} : self'[u] = self[u]
  BY <1>1 DEF Start, Resting, TypeOK, Local
<1>3. pc' = [pc EXCEPT ![t] = FirstStep(op)] /\ FirstStep(op) \in PC
  BY <1>1, FirstPlace DEF Start, Goto, PC
<1>4. calls' \in [Thread -> 0 .. MaxCalls]
  BY <1>1, LocksAssumption DEF Start, TypeOK
<1>q. QED BY <1>1, <1>2, <1>3, <1>4, FirstPlace DEF TypeOK, Start, AllOps, FdOps, RootOps, MapOps

\* The calls that go on after the filesystem has returned.
LEMMA AfterFsPlaces ==
    ASSUME NEW op \in DOMAIN AfterFs
    PROVE  \/ op = "close" /\ AfterFs[op] = "remove"
           \/ op = "umount" /\ AfterFs[op] = "erase"
           \/ op = "stat_parts" /\ AfterFs[op] = "visit"
  BY DEF AfterFs

\* The step of stat_parts from mount to mount.
LEMMA Visited ==
    ASSUME IInv, NEW t \in Thread, VisitMount(t)
    PROVE  /\ pc[t] = "visit" /\ self[t].op = "stat_parts" /\ UNCHANGED <<mlock, tables>>
           /\ \/ UNCHANGED <<pc, self, mutex>>
              \/ Return(t)
              \/ /\ pc' = [pc EXCEPT ![t] = "wait"] /\ mutex' = mutex
                 /\ self'[t].op = "stat_parts" /\ self'[t].root \in Mount
                 /\ \A u \in Thread \ {t} : self'[u] = self[u]
<1>1. pc[t] = "visit" /\ self[t].op = "stat_parts"
  BY DEF VisitMount, IInv, Place
<1>2. CASE Ends(t, "undefined") \/ (Return(t) /\ UNCHANGED <<mlock, tables>>)
  BY <1>1, <1>2 DEF Ends
<1>3. ASSUME NEW m \in DOMAIN m_mounts, NEW A,
             self' = [self EXCEPT ![t].root = m, ![t].gen = m_mounts[m],
                                  ![t].todo = @ \ (A \cup {m})],
             Goto(t, "wait"), UNCHANGED <<calls, mutex, mlock, tables, crashed>>
      PROVE  /\ pc' = [pc EXCEPT ![t] = "wait"] /\ UNCHANGED <<mutex, mlock, tables>>
             /\ self'[t].op = "stat_parts" /\ self'[t].root \in Mount
             /\ \A u \in Thread \ {t} : self'[u] = self[u]
  <2>1. self[t] \in Local /\ self \in [Thread -> Local] /\ m \in Mount
    BY DEF IInv, TypeOK
  <2> DEFINE v == [self[t] EXCEPT !.root = m, !.gen = m_mounts[m],
                                  !.todo = self[t].todo \ (A \cup {m})]
  <2>2. v.op = self[t].op /\ v.root = m
    BY <2>1 DEF Local
  <2>3. self' = [self EXCEPT ![t] = v]
    BY <1>3
  <2> HIDE DEF v
  <2>4. self'[t] = v /\ \A u \in Thread \ {t} : self'[u] = self[u]
    BY <2>1, <2>3
  <2>q. QED BY <1>1, <1>3, <2>1, <2>2, <2>4 DEF Goto
<1>q. QED BY <1>1, <1>2, <1>3 DEF VisitMount

-----------------------------------------------------------------------------
(* Every step keeps every conjunct: one lemma for each conjunct, one step  *)
(* for each action.                                                        *)

LEMMA KeepTypeOK ==
    ASSUME IInv, NEW t \in Thread, StartAny(t) \/ Step(t)
    PROVE  TypeOK'
<1>1. CASE StartAny(t)
  BY <1>1, Started DEF IInv, TypeOK, tables
<1>2. CASE LockMutex(t)
  BY <1>2 DEF IInv, TypeOK, LockMutex, PC, tables, Goto
<1>3. CASE LookUpFd(t)
  <2>1. TableTypes'
    BY <1>3, TablesKept, Types DEF IInv, LookUpFd, tables
  <2>2. CASE Return(t)
    BY <2>1, <2>2, ReturnTypes, Types, TypesNext DEF IInv
  <2>3. CASE ~Return(t)
    BY <1>3, <2>1, <2>3, TypesNext DEF IInv, TypeOK, ThreadTypes, LookUpFd, Goto, PC
  <2>q. QED BY <2>2, <2>3
<1>4. CASE MountAtRoot(t)
  <2>1. CASE \E how \in {"undefined", "terminate"} : Ends(t, how)
    BY <2>1, EndsTypes DEF IInv
  <2>2. CASE ~\E how \in {"undefined", "terminate"} : Ends(t, how)
    <3>1. PICK root \in DOMAIN m_mounts :
             /\ self' = [self EXCEPT ![t].root = root, ![t].gen = m_mounts[root]]
             /\ Goto(t, "wait") /\ UNCHANGED <<calls, mutex, mlock, tables, crashed>>
      BY <1>4, <2>2 DEF MountAtRoot
    <3>2. root \in Mount /\ m_mounts[root] \in Nat
      BY DEF IInv, TypeOK
    <3>3. self[t] \in Local /\ self \in [Thread -> Local]
      BY DEF IInv, TypeOK
    <3>4. self' \in [Thread -> Local]
      BY <3>1, <3>2, <3>3, LocalUpdated
    <3>q. QED BY <3>1, <3>4 DEF IInv, TypeOK, tables, Goto, PC
  <2>q. QED BY <2>1, <2>2
<1>5. CASE Proceed(t)
  BY <1>5 DEF IInv, TypeOK, Proceed, PC, tables, Goto
<1>6. CASE MarkFile(t)
  BY <1>6 DEF IInv, TypeOK, MarkFile, Local, PC, Resting, RootOps, Place, RootKnown,
      Return, Goto
<1>7. CASE FindMount(t)
  <2>1. CASE Ends(t, "undefined")
    BY <2>1, EndsTypes DEF IInv
  <2>2. CASE Return(t) /\ UNCHANGED <<mlock, tables>>
    BY <2>2, ReturnTypes, TablesKept, Types, TypesNext DEF IInv
  <2>3. CASE /\ self[t].root \in DOMAIN m_mounts
             /\ self' = [self EXCEPT ![t].gen = m_mounts[self[t].root]]
             /\ Goto(t, "wait") /\ UNCHANGED <<calls, mutex, mlock, tables, crashed>>
    <3>1. m_mounts[self[t].root] \in Nat
      BY <2>3 DEF IInv, TypeOK
    <3>2. self \in [Thread -> Local]
      BY DEF IInv, TypeOK
    <3>3. [self[t] EXCEPT !.gen = m_mounts[self[t].root]] \in Local
      BY <3>1, <3>2 DEF Local
    <3>4. self' \in [Thread -> Local]
      BY <2>3, <3>2, <3>3
    <3>q. QED BY <2>3, <3>4 DEF IInv, TypeOK, tables, Goto, PC
  <2>q. QED BY <1>7, <2>1, <2>2, <2>3 DEF FindMount
<1>8. CASE EnterFs(t)
  <2>1. CASE Ends(t, "undefined")
    BY <2>1, EndsTypes DEF IInv
  <2>2. CASE ~Ends(t, "undefined")
    BY <1>8, <2>2 DEF IInv, TypeOK, EnterFs, Goto, tables, PC
  <2>q. QED BY <2>1, <2>2
<1>9. CASE LeaveFs(t)
  <2>1. CASE Ends(t, "undefined")
    BY <2>1, EndsTypes DEF IInv
  <2>2. CASE ~Ends(t, "undefined")
    <3>1. mlock' \in [Mount -> Thread \cup {Nobody}] /\ UNCHANGED <<m_mounts, lockers,
        marked>>
      BY <1>9, <2>2 DEF IInv, TypeOK, LeaveFs
    <3>2. CASE InsertFd(t) /\ Return(t)
      <4>1. self[t].root \in Mount
        BY <1>9 DEF IInv, RootKnown, LeaveFs
      <4>2. /\ idx' \in FirstFd .. MaxFd + 1 /\ DOMAIN by_id' \subseteq FirstFd .. idx' - 1
            /\ by_id' \in [DOMAIN by_id' -> [root : Mount, by : Thread]]
        BY <3>2, <4>1, LocksAssumption DEF IInv, TypeOK, InsertFd, FirstFd
      <4>q. QED BY <3>1, <3>2, <4>2, ReturnTypes, Types, TypesNext DEF IInv, TableTypes
    <3>3. CASE Return(t) /\ UNCHANGED <<by_id, idx>>
      BY <3>1, <3>3, ReturnTypes, Types, TypesNext DEF IInv, TableTypes
    <3>4. CASE /\ \E l \in {"remove", "erase", "visit"} : Goto(t, l)
               /\ UNCHANGED <<self, calls, mutex, by_id, idx, crashed>>
      BY <3>1, <3>4 DEF IInv, TypeOK, Goto, PC
    <3>q. QED BY <1>9, <2>2, <3>2, <3>3, <3>4, AfterFsPlaces DEF LeaveFs
  <2>q. QED BY <2>1, <2>2
<1>10. CASE RemoveFd(t)
  <2>1. TableTypes'
    BY <1>10 DEF IInv, TypeOK, TableTypes, RemoveFd, Restrict
  <2>2. CASE Return(t)
    BY <2>1, <2>2, ReturnTypes, Types, TypesNext DEF IInv
  <2>3. CASE ~Return(t)
    <3>1. /\ self' = [self EXCEPT ![t].op = "close_unlink"] /\ Goto(t, "find")
          /\ UNCHANGED <<calls, mutex, crashed>>
      BY <1>10, <2>3 DEF RemoveFd
    <3>2. self' \in [Thread -> Local]
      BY <3>1, LocalUnlinks DEF IInv, TypeOK
    <3>q. QED BY <2>1, <3>1, <3>2, TypesNext DEF IInv, TypeOK, ThreadTypes, Goto, PC
  <2>q. QED BY <2>2, <2>3
<1>11. CASE EraseMount(t)
  <2>1. PICK M : DestroyLockers(t, M)
    BY <1>11 DEF EraseMount
  <2>q. QED BY <2>1, DestroyTypes DEF IInv
<1>12. CASE BeginMount(t)
  <2>1. CASE Return(t)
    BY <1>12, <2>1, ReturnTypes, TablesKept, Types, TypesNext DEF IInv, BeginMount
  <2>2. CASE ~Return(t)
    BY <1>12, <2>2 DEF IInv, TypeOK, BeginMount, Goto, tables, PC
  <2>q. QED BY <2>1, <2>2
<1>13. CASE EndMount(t)
  <2>1. CASE Return(t)
    BY <1>13, <2>1, ReturnTypes, TablesKept, Types, TypesNext DEF IInv, EndMount
  <2>2. CASE ~Return(t)
    BY <1>13, <2>2 DEF IInv, TypeOK, EndMount, Goto, tables, PC
  <2>q. QED BY <2>1, <2>2
<1>14. CASE EmplaceMount(t)
  BY <1>14 DEF IInv, TypeOK, EmplaceMount, Local, PC, Resting, RootOps, Place, RootKnown,
      Return, Goto
<1>15. CASE BeginUmountAll(t)
  <2>1. self[t] \in Local /\ DOMAIN m_mounts \in SUBSET Mount
    BY DEF IInv, TypeOK
  <2>2. self' \in [Thread -> Local]
    <3>1. [self[t] EXCEPT !.todo = DOMAIN m_mounts] \in Local
      BY <2>1, LocalTodo
    <3>q. QED BY <1>15, <3>1 DEF IInv, TypeOK, BeginUmountAll
  <2>q. QED BY <1>15, <2>2 DEF IInv, TypeOK, BeginUmountAll, Goto, tables, PC
<1>16. CASE NextMount(t)
  <2>1. self[t] \in Local /\ self[t].todo \subseteq Mount
    BY DEF IInv, TypeOK, Local
  <2>2. self' \in [Thread -> Local]
    <3>1. \A m \in self[t].todo : [self[t] EXCEPT !.root = m] \in Local
      BY <2>1, LocalRoot
    <3>q. QED BY <1>16, <3>1 DEF IInv, TypeOK, NextMount
  <2>3. pc' \in [Thread -> PC]
    BY <1>16 DEF IInv, TypeOK, NextMount, Goto, PC
  <2>4. UNCHANGED <<calls, mutex, mlock, tables, crashed>>
    BY <1>16 DEF NextMount
  <2>q. QED BY <2>2, <2>3, <2>4 DEF IInv, TypeOK, tables
<1>17. CASE TapLock(t)
  BY <1>17 DEF IInv, TypeOK, TapLock, PC, tables, Goto
<1>18. CASE EndUnmount(t)
  <2>1. self[t] \in Local /\ self[t].todo \ {self[t].root} \in SUBSET Mount
    BY DEF IInv, TypeOK, Local
  <2>2. self' \in [Thread -> Local]
    <3>1. [self[t] EXCEPT !.todo = self[t].todo \ {self[t].root}] \in Local
      BY <2>1, LocalTodo
    <3>q. QED BY <1>18, <3>1 DEF IInv, TypeOK, EndUnmount
  <2>3. pc' \in [Thread -> PC]
    BY <1>18 DEF IInv, TypeOK, EndUnmount, Goto, PC
  <2>4. UNCHANGED <<calls, mutex, mlock, tables, crashed>>
    BY <1>18 DEF EndUnmount
  <2>q. QED BY <2>2, <2>3, <2>4 DEF IInv, TypeOK, tables
<1>19. CASE ClearMounts(t)
  <2>1. PICK M : DestroyLockers(t, M)
    BY <1>19 DEF ClearMounts
  <2>q. QED BY <2>1, DestroyTypes DEF IInv
<1>20. CASE ReadRoots(t)
  <2>1. CASE Ends(t, "undefined")
    BY <2>1, EndsTypes DEF IInv
  <2>2. CASE Return(t) /\ UNCHANGED <<mlock, tables>>
    BY <2>2, ReturnTypes, TablesKept, Types, TypesNext DEF IInv
  <2>q. QED BY <1>20, <2>1, <2>2 DEF ReadRoots
<1>21. CASE VisitMount(t)
  <2>1. CASE Ends(t, "undefined")
    BY <2>1, EndsTypes DEF IInv
  <2>2. CASE Return(t) /\ UNCHANGED <<mlock, tables>>
    BY <2>2, ReturnTypes, TablesKept, Types, TypesNext DEF IInv
  <2>3. ASSUME NEW m \in DOMAIN m_mounts, NEW A,
               self' = [self EXCEPT ![t].root = m, ![t].gen = m_mounts[m],
                                    ![t].todo = @ \ (A \cup {m})],
               Goto(t, "wait"), UNCHANGED <<calls, mutex, mlock, tables, crashed>>
        PROVE  TypeOK'
    <3>1. m \in Mount /\ m_mounts[m] \in Nat
      BY DEF IInv, TypeOK
    <3>2. self[t] \in Local /\ self \in [Thread -> Local]
      BY DEF IInv, TypeOK
    <3>3. self[t].todo \ (A \cup {m}) \in SUBSET Mount
      BY <3>2 DEF Local
    <3>4. [self[t] EXCEPT !.root = m, !.gen = m_mounts[m],
                          !.todo = self[t].todo \ (A \cup {m})] \in Local
      BY <3>1, <3>2, <3>3, LocalVisit
    <3>5. self' \in [Thread -> Local]
      BY <2>3, <3>2, <3>4
    <3>q. QED BY <2>3, <3>5 DEF IInv, TypeOK, tables, Goto, PC
  <2>q. QED BY <1>21, <2>1, <2>2, <2>3 DEF VisitMount
<1>q. QED BY <1>1, <1>2, <1>3, <1>4, <1>5, <1>6, <1>7, <1>8, <1>9, <1>10, <1>11, <1>12,
    <1>13, <1>14, <1>15, <1>16, <1>17, <1>18, <1>19, <1>20, <1>21 DEF Step

LEMMA KeepPlace ==
    ASSUME IInv, NEW t \in Thread, StartAny(t) \/ Step(t)
    PROVE  Place'
<1>1. CASE StartAny(t)
  BY <1>1, Started DEF IInv, Place
<1>2. CASE LockMutex(t)
  BY <1>2 DEF IInv, Place, LockMutex, Goto
<1>3. CASE LookUpFd(t)
  BY <1>3 DEF IInv, Place, LookUpFd, FdOps, TypeOK, Return, Goto
<1>4. CASE MountAtRoot(t)
  BY <1>4 DEF IInv, Place, MountAtRoot, TypeOK, Goto, Ends
<1>5. CASE Proceed(t)
  BY <1>5 DEF IInv, Place, Proceed, Goto
<1>6. CASE MarkFile(t)
  BY <1>6 DEF IInv, Place, MarkFile, TypeOK, Return, Goto
<1>7. CASE FindMount(t)
  BY <1>7 DEF IInv, Place, FindMount, TypeOK, Return, Goto, Ends
<1>8. CASE EnterFs(t)
  BY <1>8 DEF IInv, Place, EnterFs, TypeOK, Goto, Ends
<1>9. CASE LeaveFs(t)
  BY <1>9, AfterFsPlaces DEF IInv, Place, LeaveFs, TypeOK, Return, Goto, Ends
<1>10. CASE RemoveFd(t)
  BY <1>10, LocksAssumption DEF IInv, Place, RemoveFd, Local, TypeOK, Return, Goto
<1>11. CASE EraseMount(t)
  BY <1>11 DEF IInv, Place, EraseMount, TypeOK, Return, Goto, Ends, DestroyLockers
<1>12. CASE BeginMount(t)
  BY <1>12 DEF IInv, Place, BeginMount, TypeOK, Return, Goto
<1>13. CASE EndMount(t)
  BY <1>13 DEF IInv, Place, EndMount, TypeOK, Return, Goto
<1>14. CASE EmplaceMount(t)
  BY <1>14 DEF IInv, Place, EmplaceMount, TypeOK, Return, Goto
<1>15. CASE BeginUmountAll(t)
  BY <1>15 DEF IInv, Place, BeginUmountAll, Goto
<1>16. CASE NextMount(t)
  BY <1>16 DEF IInv, Place, NextMount, TypeOK, Goto
<1>17. CASE TapLock(t)
  BY <1>17 DEF IInv, Place, TapLock, Goto
<1>18. CASE EndUnmount(t)
  BY <1>18 DEF IInv, Place, EndUnmount, TypeOK, Goto
<1>19. CASE ClearMounts(t)
  BY <1>19 DEF IInv, TypeOK, Place, ClearMounts, DestroyLockers, Return, Ends, Goto
<1>20. CASE ReadRoots(t)
  BY <1>20 DEF IInv, Place, ReadRoots, TypeOK, Return, Goto, Ends
<1>21. CASE VisitMount(t)
  BY <1>21, Visited DEF IInv, Place, TypeOK, Return, Goto
<1>q. QED BY <1>1, <1>2, <1>3, <1>4, <1>5, <1>6, <1>7, <1>8, <1>9, <1>10, <1>11, <1>12,
    <1>13, <1>14, <1>15, <1>16, <1>17, <1>18, <1>19, <1>20, <1>21 DEF Step

LEMMA KeepRootKnown ==
    ASSUME IInv, NEW t \in Thread, StartAny(t) \/ Step(t)
    PROVE  RootKnown'
<1>1. CASE StartAny(t)
  BY <1>1, Started DEF IInv, RootKnown
<1>2. CASE LockMutex(t)
  BY <1>2 DEF IInv, RootKnown, LockMutex, Goto
<1>3. CASE LookUpFd(t)
  BY <1>3 DEF IInv, RootKnown, LookUpFd, Resting, RootOps, TypeOK, Return, Goto
<1>4. CASE MountAtRoot(t)
  BY <1>4 DEF IInv, RootKnown, MountAtRoot, Local, TypeOK, Place, tables, Goto, Ends
<1>5. CASE Proceed(t)
  BY <1>5 DEF IInv, RootKnown, Proceed, Goto
<1>6. CASE MarkFile(t)
  BY <1>6 DEF IInv, RootKnown, MarkFile, Resting, RootOps, Return, Goto
<1>7. CASE FindMount(t)
  <2>1. self[t].root \in Mount
    BY <1>7 DEF IInv, Place, RootKnown, FindMount, RootOps
  <2>2. CASE Return(t)
    BY <2>2 DEF IInv, TypeOK, RootKnown, Return, Goto, Resting, RootOps
  <2>3. CASE ~Return(t)
    <3>1. \A u \in Thread : self'[u].root = self[u].root /\ self'[u].op = self[u].op
      BY <1>7, <2>3 DEF IInv, TypeOK, FindMount, Ends, Local
    <3>2. \A u \in Thread \ {t} : pc'[u] = pc[u]
      BY <1>7, <2>3 DEF IInv, TypeOK, FindMount, Ends, Goto
    <3>q. QED BY <2>1, <3>1, <3>2 DEF IInv, RootKnown
  <2>q. QED BY <2>2, <2>3
<1>8. CASE EnterFs(t)
  BY <1>8 DEF IInv, RootKnown, EnterFs, TypeOK, Goto, Ends
<1>9. CASE LeaveFs(t)
  BY <1>9 DEF IInv, RootKnown, LeaveFs, Resting, RootOps, TypeOK, Return, Goto, Ends
<1>10. CASE RemoveFd(t)
  <2>1. CASE Return(t)
    BY <2>1 DEF IInv, TypeOK, RootKnown, Return, Goto, Resting, RootOps
  <2>2. CASE ~Return(t)
    <3>1. self[t].root \in Mount
      BY <1>10 DEF IInv, RootKnown, RemoveFd
    <3>2. self' = [self EXCEPT ![t].op = "close_unlink"] /\ Goto(t, "find")
      BY <1>10, <2>2 DEF RemoveFd
    <3>3. \A u \in Thread : self'[u].root = self[u].root
      BY <3>2 DEF IInv, TypeOK, Local
    <3>4. \A u \in Thread \ {t} : self'[u] = self[u] /\ pc'[u] = pc[u]
      BY <3>2 DEF IInv, TypeOK, Goto
    <3>q. QED BY <3>1, <3>3, <3>4 DEF IInv, RootKnown
  <2>q. QED BY <2>1, <2>2
<1>11. CASE EraseMount(t)
  BY <1>11 DEF IInv, RootKnown, EraseMount, Resting, RootOps, TypeOK, Return, Goto, Ends,
      DestroyLockers
<1>12. CASE BeginMount(t)
  BY <1>12 DEF IInv, RootKnown, BeginMount, Resting, RootOps, TypeOK, Return, Goto
<1>13. CASE EndMount(t)
  BY <1>13 DEF IInv, RootKnown, EndMount, Resting, RootOps, TypeOK, Return, Goto
<1>14. CASE EmplaceMount(t)
  BY <1>14 DEF IInv, RootKnown, EmplaceMount, Resting, RootOps, Return, Goto
<1>15. CASE BeginUmountAll(t)
  BY <1>15 DEF IInv, RootKnown, BeginUmountAll, Goto
<1>16. CASE NextMount(t)
  BY <1>16 DEF IInv, RootKnown, NextMount, AllOps, Local, FirstFd, TypeOK, Place, Goto
<1>17. CASE TapLock(t)
  BY <1>17 DEF IInv, RootKnown, TapLock, Goto
<1>18. CASE EndUnmount(t)
  <2>1. self[t].root \in Mount
    BY <1>18 DEF IInv, RootKnown, EndUnmount
  <2>2. \A u \in Thread : self'[u].root = self[u].root /\ self'[u].op = self[u].op
    BY <1>18 DEF IInv, TypeOK, EndUnmount, Local
  <2>3. \A u \in Thread \ {t} : pc'[u] = pc[u]
    BY <1>18 DEF IInv, TypeOK, EndUnmount, Goto
  <2>q. QED BY <2>1, <2>2, <2>3 DEF IInv, RootKnown
<1>19. CASE ClearMounts(t)
  BY <1>19 DEF IInv, RootKnown, ClearMounts, Resting, RootOps, TypeOK, Return, Goto,
      Ends, DestroyLockers
<1>20. CASE ReadRoots(t)
  BY <1>20 DEF IInv, RootKnown, ReadRoots, Resting, RootOps, TypeOK, Return, Goto, Ends
<1>21. CASE VisitMount(t)
  BY <1>21, Visited DEF IInv, RootKnown, Resting, RootOps, TypeOK, Return, Goto
<1>q. QED BY <1>1, <1>2, <1>3, <1>4, <1>5, <1>6, <1>7, <1>8, <1>9, <1>10, <1>11, <1>12,
    <1>13, <1>14, <1>15, <1>16, <1>17, <1>18, <1>19, <1>20, <1>21 DEF Step

LEMMA KeepMutexHeld ==
    ASSUME IInv, NEW t \in Thread, StartAny(t) \/ Step(t)
    PROVE  MutexHeld'
<1>1. CASE StartAny(t)
  BY <1>1, Started DEF IInv, MutexHeld, Owns, UnlockedOps
<1>2. CASE LockMutex(t)
  BY <1>2, LocksAssumption DEF IInv, MutexHeld, LockMutex, Owns, Goto
<1>3. CASE LookUpFd(t)
  BY <1>3 DEF IInv, MutexHeld, LookUpFd, TypeOK, Owns, UnlockedOps, Return, Goto
<1>4. CASE MountAtRoot(t)
  BY <1>4 DEF IInv, MutexHeld, MountAtRoot, Local, TypeOK, Owns, Goto, Ends
<1>5. CASE Proceed(t)
  BY <1>5 DEF IInv, MutexHeld, Proceed, Owns, Goto
<1>6. CASE MarkFile(t)
  BY <1>6 DEF IInv, MutexHeld, MarkFile, TypeOK, Owns, Return, Goto
<1>7. CASE FindMount(t)
  BY <1>7 DEF IInv, MutexHeld, FindMount, Local, TypeOK, Owns, Return, Goto, Ends
<1>8. CASE EnterFs(t)
  BY <1>8 DEF IInv, MutexHeld, EnterFs, TypeOK, Owns, Goto, Ends
<1>9. CASE LeaveFs(t)
  BY <1>9, AfterFsPlaces DEF IInv, MutexHeld, LeaveFs, TypeOK, Owns, UnlockedOps, Return, Goto, Ends
<1>10. CASE RemoveFd(t)
  BY <1>10 DEF IInv, MutexHeld, RemoveFd, TypeOK, Owns, Return, Goto
<1>11. CASE EraseMount(t)
  BY <1>11 DEF IInv, MutexHeld, EraseMount, TypeOK, Owns, Return, Goto, Ends, DestroyLockers
<1>12. CASE BeginMount(t)
  BY <1>12 DEF IInv, MutexHeld, BeginMount, TypeOK, Owns, Return, Goto
<1>13. CASE EndMount(t)
  BY <1>13 DEF IInv, MutexHeld, EndMount, TypeOK, Owns, Return, Goto
<1>14. CASE EmplaceMount(t)
  BY <1>14 DEF IInv, MutexHeld, EmplaceMount, TypeOK, Owns, Return, Goto
<1>15. CASE BeginUmountAll(t)
  BY <1>15 DEF IInv, MutexHeld, BeginUmountAll, Owns, Goto
<1>16. CASE NextMount(t)
  BY <1>16 DEF IInv, MutexHeld, NextMount, TypeOK, Owns, Goto
<1>17. CASE TapLock(t)
  BY <1>17 DEF IInv, MutexHeld, TapLock, Owns, Goto
<1>18. CASE EndUnmount(t)
  BY <1>18 DEF IInv, MutexHeld, EndUnmount, TypeOK, Owns, Goto
<1>19. CASE ClearMounts(t)
  BY <1>19 DEF IInv, MutexHeld, ClearMounts, TypeOK, Owns, Return, Goto, Ends,
      DestroyLockers
<1>20. CASE ReadRoots(t)
  BY <1>20 DEF IInv, MutexHeld, ReadRoots, TypeOK, Owns, Return, Goto, Ends
<1>21. CASE VisitMount(t)
  BY <1>21, Visited DEF IInv, MutexHeld, TypeOK, Owns, UnlockedOps, Return, Goto
<1>q. QED BY <1>1, <1>2, <1>3, <1>4, <1>5, <1>6, <1>7, <1>8, <1>9, <1>10, <1>11, <1>12,
    <1>13, <1>14, <1>15, <1>16, <1>17, <1>18, <1>19, <1>20, <1>21 DEF Step

LEMMA KeepFsLock ==
    ASSUME IInv, NEW t \in Thread, StartAny(t) \/ Step(t)
    PROVE  FsLock'
<1>1. CASE StartAny(t)
  BY <1>1, Started DEF IInv, FsLock
<1>2. CASE LockMutex(t)
  BY <1>2 DEF IInv, FsLock, LockMutex, Goto
<1>3. CASE LookUpFd(t)
  BY <1>3 DEF IInv, FsLock, LookUpFd, TypeOK, Return, Goto
<1>4. CASE MountAtRoot(t)
  BY <1>4 DEF IInv, FsLock, MountAtRoot, TypeOK, Goto, Ends
<1>5. CASE Proceed(t)
  BY <1>5 DEF IInv, FsLock, Proceed, Goto
<1>6. CASE MarkFile(t)
  BY <1>6 DEF IInv, FsLock, MarkFile, Return, Goto
<1>7. CASE FindMount(t)
  BY <1>7 DEF IInv, FsLock, FindMount, TypeOK, Return, Goto, Ends
<1>8. CASE EnterFs(t)
  BY <1>8, LocksAssumption DEF IInv, FsLock, EnterFs, TypeOK, RootKnown, Goto, Ends
<1>9. CASE LeaveFs(t)
  BY <1>9, AfterFsPlaces DEF IInv, FsLock, LeaveFs, TypeOK, RootKnown, Return, Goto, Ends
<1>10. CASE RemoveFd(t)
  BY <1>10 DEF IInv, FsLock, RemoveFd, TypeOK, Return, Goto
<1>11. CASE EraseMount(t)
  BY <1>11 DEF IInv, FsLock, EraseMount, TypeOK, Return, Goto, Ends, DestroyLockers
<1>12. CASE BeginMount(t)
  BY <1>12 DEF IInv, FsLock, BeginMount, TypeOK, Return, Goto
<1>13. CASE EndMount(t)
  BY <1>13 DEF IInv, FsLock, EndMount, TypeOK, Return, Goto
<1>14. CASE EmplaceMount(t)
  BY <1>14 DEF IInv, FsLock, EmplaceMount, Return, Goto
<1>15. CASE BeginUmountAll(t)
  BY <1>15 DEF IInv, FsLock, BeginUmountAll, Goto
<1>16. CASE NextMount(t)
  BY <1>16 DEF IInv, FsLock, NextMount, TypeOK, Goto
<1>17. CASE TapLock(t)
  BY <1>17 DEF IInv, FsLock, TapLock, Goto
<1>18. CASE EndUnmount(t)
  BY <1>18 DEF IInv, FsLock, EndUnmount, TypeOK, Goto
<1>19. CASE ClearMounts(t)
  BY <1>19 DEF IInv, FsLock, ClearMounts, TypeOK, Return, Goto, Ends, DestroyLockers
<1>20. CASE ReadRoots(t)
  BY <1>20 DEF IInv, FsLock, ReadRoots, TypeOK, Return, Goto, Ends
<1>21. CASE VisitMount(t)
  BY <1>21, Visited DEF IInv, FsLock, TypeOK, Return, Goto
<1>q. QED BY <1>1, <1>2, <1>3, <1>4, <1>5, <1>6, <1>7, <1>8, <1>9, <1>10, <1>11, <1>12,
    <1>13, <1>14, <1>15, <1>16, <1>17, <1>18, <1>19, <1>20, <1>21 DEF Step

LEMMA KeepCloseFd ==
    ASSUME IInv, NEW t \in Thread, StartAny(t) \/ Step(t)
    PROVE  CloseFd'
<1>1. CASE StartAny(t)
  BY <1>1, Started DEF IInv, CloseFd, tables
<1>2. CASE LockMutex(t)
  BY <1>2 DEF IInv, CloseFd, LockMutex, tables, Goto
<1>3. CASE LookUpFd(t)
  BY <1>3 DEF IInv, CloseFd, LookUpFd, TypeOK, tables, Return, Goto
<1>4. CASE MountAtRoot(t)
  BY <1>4 DEF IInv, CloseFd, MountAtRoot, Local, FdOps, TypeOK, MutexHeld, tables, Goto,
      Ends
<1>5. CASE Proceed(t)
  BY <1>5 DEF IInv, CloseFd, Proceed, tables, Goto
<1>6. CASE MarkFile(t)
  BY <1>6 DEF IInv, CloseFd, MarkFile, Return, Goto
<1>7. CASE FindMount(t)
  <2>1. CASE Ends(t, "undefined")
    BY <2>1 DEF IInv, CloseFd, tables, Ends
  <2>2. CASE Return(t) /\ UNCHANGED <<mlock, tables>>
    BY <2>2 DEF IInv, CloseFd, TypeOK, tables, Return, Goto
  <2>3. CASE /\ self' = [self EXCEPT ![t].gen = m_mounts[self[t].root]]
             /\ Goto(t, "wait") /\ UNCHANGED <<calls, mutex, mlock, tables, crashed>>
    <3>1. self[t].op # "close"
      BY <1>7 DEF FindMount, IInv, Place
    <3>2. self'[t].op = self[t].op /\ \A u \in Thread \ {t} : self'[u] = self[u] /\ pc'[u] = pc[u]
      BY <2>3 DEF IInv, TypeOK, Local, Goto
    <3>q. QED BY <2>3, <3>1, <3>2 DEF IInv, CloseFd, tables
  <2>q. QED BY <1>7, <2>1, <2>2, <2>3 DEF FindMount
<1>8. CASE EnterFs(t)
  BY <1>8 DEF IInv, CloseFd, EnterFs, TypeOK, tables, Goto, Ends
<1>9. CASE LeaveFs(t)
  BY <1>9 DEF IInv, CloseFd, LeaveFs, TypeOK, tables, Return, Goto, Ends, InsertFd
<1>10. CASE RemoveFd(t)
  BY <1>10 DEF IInv, CloseFd, RemoveFd, PC, TypeOK, MutexHeld, Owns, UnlockedOps, Return,
      Goto
<1>11. CASE EraseMount(t)
  BY <1>11 DEF IInv, CloseFd, EraseMount, TypeOK, tables, Return, Goto, Ends, DestroyLockers
<1>12. CASE BeginMount(t)
  BY <1>12 DEF IInv, CloseFd, BeginMount, TypeOK, tables, Return, Goto
<1>13. CASE EndMount(t)
  BY <1>13 DEF IInv, CloseFd, EndMount, TypeOK, tables, Return, Goto
<1>14. CASE EmplaceMount(t)
  BY <1>14 DEF IInv, CloseFd, EmplaceMount, Return, Goto
<1>15. CASE BeginUmountAll(t)
  BY <1>15 DEF IInv, CloseFd, BeginUmountAll, tables, Goto
<1>16. CASE NextMount(t)
  BY <1>16 DEF IInv, CloseFd, NextMount, TypeOK, tables, Goto
<1>17. CASE TapLock(t)
  BY <1>17 DEF IInv, CloseFd, TapLock, tables, Goto
<1>18. CASE EndUnmount(t)
  BY <1>18 DEF IInv, CloseFd, EndUnmount, TypeOK, tables, Goto
<1>19. CASE ClearMounts(t)
  BY <1>19 DEF IInv, CloseFd, ClearMounts, TypeOK, tables, Return, Goto, Ends,
      DestroyLockers
<1>20. CASE ReadRoots(t)
  BY <1>20 DEF IInv, CloseFd, ReadRoots, TypeOK, tables, Return, Goto, Ends
<1>21. CASE VisitMount(t)
  BY <1>21, Visited DEF IInv, CloseFd, TypeOK, tables, Return, Goto
<1>q. QED BY <1>1, <1>2, <1>3, <1>4, <1>5, <1>6, <1>7, <1>8, <1>9, <1>10, <1>11, <1>12,
    <1>13, <1>14, <1>15, <1>16, <1>17, <1>18, <1>19, <1>20, <1>21 DEF Step

LEMMA KeepMarkOpen ==
    ASSUME IInv, NEW t \in Thread, StartAny(t) \/ Step(t)
    PROVE  MarkOpen'
<1>1. CASE StartAny(t)
  BY <1>1, Started DEF IInv, MarkOpen, Holders, tables
<1>2. CASE LockMutex(t)
  BY <1>2 DEF IInv, MarkOpen, LockMutex, Holders, tables, Goto
<1>3. CASE LookUpFd(t)
  BY <1>3 DEF IInv, MarkOpen, LookUpFd, TypeOK, Holders, tables, Return, Goto
<1>4. CASE MountAtRoot(t)
  BY <1>4 DEF IInv, MarkOpen, MountAtRoot, TypeOK, Holders, tables, Goto, Ends
<1>5. CASE Proceed(t)
  BY <1>5 DEF IInv, MarkOpen, Proceed, Holders, tables, Goto
<1>6. CASE MarkFile(t)
  BY <1>6 DEF IInv, MarkOpen, MarkFile, TypeOK, Holders, Return, Goto
<1>7. CASE FindMount(t)
  BY <1>7 DEF IInv, MarkOpen, FindMount, TypeOK, Holders, tables, Return, Goto, Ends
<1>8. CASE EnterFs(t)
  BY <1>8 DEF IInv, MarkOpen, EnterFs, TypeOK, Holders, tables, Goto, Ends
<1>9. CASE LeaveFs(t)
  <2>1. \A u \in Thread : pc'[u] = "mark" => pc[u] = "mark" /\ self'[u] = self[u]
    BY <1>9, AfterFsPlaces DEF IInv, TypeOK, LeaveFs, Return, Goto, Ends, tables
  <2>2. ASSUME NEW m \in Mount PROVE Holders(m) \subseteq Holders(m)'
    <3>1. CASE InsertFd(t)
      <4>1. idx \notin DOMAIN by_id
        BY LocksAssumption DEF IInv, TypeOK, FirstFd
      <4>q. QED BY <3>1, <4>1 DEF InsertFd, Holders
    <3>2. CASE UNCHANGED by_id
      BY <3>2 DEF Holders
    <3>q. QED BY <1>9, <3>1, <3>2 DEF LeaveFs, Ends, tables
  <2>3. ASSUME NEW u \in Thread, pc[u] = "mark" PROVE self[u].root \in Mount
    BY <2>3 DEF IInv, Place, RootKnown, RootOps
  <2>q. QED BY <2>1, <2>2, <2>3 DEF IInv, MarkOpen, Holders
<1>10. CASE RemoveFd(t)
  BY <1>10 DEF IInv, MarkOpen, RemoveFd, TypeOK, MutexHeld, Owns, Return, Goto
<1>11. CASE EraseMount(t)
  BY <1>11 DEF IInv, MarkOpen, EraseMount, TypeOK, Holders, tables, Return, Goto, Ends,
      DestroyLockers
<1>12. CASE BeginMount(t)
  BY <1>12 DEF IInv, MarkOpen, BeginMount, TypeOK, Holders, tables, Return, Goto
<1>13. CASE EndMount(t)
  BY <1>13 DEF IInv, MarkOpen, EndMount, TypeOK, Holders, tables, Return, Goto
<1>14. CASE EmplaceMount(t)
  BY <1>14 DEF IInv, MarkOpen, EmplaceMount, Holders, Return, Goto
<1>15. CASE BeginUmountAll(t)
  BY <1>15 DEF IInv, MarkOpen, BeginUmountAll, Holders, tables, Goto
<1>16. CASE NextMount(t)
  BY <1>16 DEF IInv, MarkOpen, NextMount, TypeOK, Holders, tables, Goto
<1>17. CASE TapLock(t)
  BY <1>17 DEF IInv, MarkOpen, TapLock, Holders, tables, Goto
<1>18. CASE EndUnmount(t)
  BY <1>18 DEF IInv, MarkOpen, EndUnmount, TypeOK, Holders, tables, Goto
<1>19. CASE ClearMounts(t)
  BY <1>19 DEF IInv, MarkOpen, ClearMounts, TypeOK, Holders, tables, Return, Goto, Ends,
      DestroyLockers
<1>20. CASE ReadRoots(t)
  BY <1>20 DEF IInv, MarkOpen, ReadRoots, TypeOK, Holders, tables, Return, Goto, Ends
<1>21. CASE VisitMount(t)
  BY <1>21, Visited DEF IInv, MarkOpen, TypeOK, Holders, tables, Return, Goto
<1>q. QED BY <1>1, <1>2, <1>3, <1>4, <1>5, <1>6, <1>7, <1>8, <1>9, <1>10, <1>11, <1>12,
    <1>13, <1>14, <1>15, <1>16, <1>17, <1>18, <1>19, <1>20, <1>21 DEF Step

LEMMA KeepUnlinkClosed ==
    ASSUME IInv, NEW t \in Thread, StartAny(t) \/ Step(t)
    PROVE  UnlinkClosed'
<1>1. CASE StartAny(t)
  BY <1>1, Started DEF IInv, UnlinkClosed, Holders, tables
<1>2. CASE LockMutex(t)
  BY <1>2 DEF IInv, UnlinkClosed, LockMutex, Holders, tables, Goto
<1>3. CASE LookUpFd(t)
  BY <1>3 DEF IInv, UnlinkClosed, LookUpFd, TypeOK, MutexHeld, Holders, tables, Return, Goto
<1>4. CASE MountAtRoot(t)
  BY <1>4 DEF IInv, UnlinkClosed, MountAtRoot, Local, FdOps, TypeOK, Place, Holders,
      tables, Goto, Ends
<1>5. CASE Proceed(t)
  BY <1>5 DEF IInv, UnlinkClosed, Proceed, Holders, tables, Goto
<1>6. CASE MarkFile(t)
  BY <1>6 DEF IInv, UnlinkClosed, MarkFile, Holders, Return, Goto
<1>7. CASE FindMount(t)
  BY <1>7 DEF IInv, UnlinkClosed, FindMount, Local, TypeOK, Holders, tables, Return,
      Goto, Ends
<1>8. CASE EnterFs(t)
  BY <1>8 DEF IInv, UnlinkClosed, EnterFs, TypeOK, Holders, tables, Goto, Ends
<1>9. CASE LeaveFs(t)
  BY <1>9 DEF IInv, UnlinkClosed, LeaveFs, TypeOK, MutexHeld, Owns, UnlockedOps, Holders,
      tables, Return, Goto, Ends
<1>10. CASE RemoveFd(t)
  BY <1>10 DEF IInv, UnlinkClosed, RemoveFd, Local, Restrict, TypeOK, Place, MutexHeld,
      Holders, Return, Goto, RemovedFds
<1>11. CASE EraseMount(t)
  BY <1>11 DEF IInv, UnlinkClosed, EraseMount, TypeOK, Holders, tables, Return, Goto,
      Ends, DestroyLockers
<1>12. CASE BeginMount(t)
  BY <1>12 DEF IInv, UnlinkClosed, BeginMount, TypeOK, Holders, tables, Return, Goto
<1>13. CASE EndMount(t)
  BY <1>13 DEF IInv, UnlinkClosed, EndMount, TypeOK, Holders, tables, Return, Goto
<1>14. CASE EmplaceMount(t)
  BY <1>14 DEF IInv, UnlinkClosed, EmplaceMount, Holders, Return, Goto
<1>15. CASE BeginUmountAll(t)
  BY <1>15 DEF IInv, UnlinkClosed, BeginUmountAll, Holders, tables, Goto
<1>16. CASE NextMount(t)
  BY <1>16 DEF IInv, UnlinkClosed, NextMount, TypeOK, Holders, tables, Goto
<1>17. CASE TapLock(t)
  BY <1>17 DEF IInv, UnlinkClosed, TapLock, Holders, tables, Goto
<1>18. CASE EndUnmount(t)
  BY <1>18 DEF IInv, UnlinkClosed, EndUnmount, TypeOK, Holders, tables, Goto
<1>19. CASE ClearMounts(t)
  BY <1>19 DEF IInv, UnlinkClosed, ClearMounts, TypeOK, Holders, tables, Return, Goto,
      Ends, DestroyLockers
<1>20. CASE ReadRoots(t)
  BY <1>20 DEF IInv, UnlinkClosed, ReadRoots, TypeOK, Holders, tables, Return, Goto, Ends
<1>21. CASE VisitMount(t)
  BY <1>21, Visited DEF IInv, UnlinkClosed, TypeOK, Holders, tables, Return, Goto
<1>q. QED BY <1>1, <1>2, <1>3, <1>4, <1>5, <1>6, <1>7, <1>8, <1>9, <1>10, <1>11, <1>12,
    <1>13, <1>14, <1>15, <1>16, <1>17, <1>18, <1>19, <1>20, <1>21 DEF Step

LEMMA KeepMarkedFileIsOpen ==
    ASSUME IInv, NEW t \in Thread, StartAny(t) \/ Step(t)
    PROVE  MarkedFileIsOpen'
<1>1. CASE StartAny(t)
  BY <1>1, Started DEF IInv, MarkedFileIsOpen, Holders, tables
<1>2. CASE LockMutex(t)
  BY <1>2 DEF IInv, MarkedFileIsOpen, LockMutex, Holders, tables
<1>3. CASE LookUpFd(t)
  BY <1>3 DEF IInv, MarkedFileIsOpen, LookUpFd, Holders, tables
<1>4. CASE MountAtRoot(t)
  BY <1>4 DEF IInv, MarkedFileIsOpen, MountAtRoot, Holders, tables, Ends
<1>5. CASE Proceed(t)
  BY <1>5 DEF IInv, MarkedFileIsOpen, Proceed, Holders, tables
<1>6. CASE MarkFile(t)
  BY <1>6 DEF IInv, MarkedFileIsOpen, MarkFile, MarkOpen, Holders
<1>7. CASE FindMount(t)
  BY <1>7 DEF IInv, MarkedFileIsOpen, FindMount, Holders, tables, Ends
<1>8. CASE EnterFs(t)
  BY <1>8 DEF IInv, MarkedFileIsOpen, EnterFs, Holders, tables, Ends
<1>9. CASE LeaveFs(t)
  <2>1. marked' = marked
    BY <1>9 DEF LeaveFs, Ends, tables
  <2>2. DOMAIN by_id \subseteq DOMAIN by_id' /\ \A fd \in DOMAIN by_id : by_id'[fd] = by_id[fd]
    <3>1. CASE UNCHANGED by_id
      BY <3>1
    <3>2. CASE InsertFd(t)
      <4>1. idx \notin DOMAIN by_id
        BY DEF IInv, TypeOK, FirstFd
      <4>q. QED BY <3>2, <4>1 DEF InsertFd
    <3>q. QED BY <1>9, <3>1, <3>2 DEF LeaveFs, Ends, tables
  <2>q. QED BY <2>1, <2>2 DEF IInv, MarkedFileIsOpen, Holders
<1>10. CASE RemoveFd(t)
  <2>1. /\ self[t].op = "close" /\ self[t].fd \in DOMAIN by_id
        /\ by_id[self[t].fd].root = self[t].root
    BY <1>10 DEF IInv, Place, CloseFd, RemoveFd
  <2>2. by_id' = [fd \in DOMAIN by_id \ {self[t].fd} |-> by_id[fd]]
    BY <1>10 DEF RemoveFd, RemovedFds, Restrict
  <2>3. \A m \in Mount : Holders(m)' = Holders(m) \ {self[t].fd}
    BY <2>2 DEF Holders
  <2>4. marked' = IF Holders(self[t].root) = {self[t].fd} THEN marked \ {self[t].root} ELSE marked
    BY <1>10 DEF RemoveFd
  <2>5. SUFFICES ASSUME NEW m \in marked' PROVE Holders(m) \ {self[t].fd} # {}
    BY <2>3, <2>4 DEF IInv, TypeOK, MarkedFileIsOpen
  <2>6. m \in marked /\ Holders(m) # {}
    BY <2>4 DEF IInv, MarkedFileIsOpen
  <2>7. CASE m = self[t].root
    BY <2>4, <2>6, <2>7
  <2>8. CASE m # self[t].root
    BY <2>1, <2>6, <2>8 DEF Holders
  <2>q. QED BY <2>7, <2>8
<1>11. CASE EraseMount(t)
  BY <1>11 DEF IInv, MarkedFileIsOpen, EraseMount, Holders, tables, Ends, DestroyLockers
<1>12. CASE BeginMount(t)
  BY <1>12 DEF IInv, MarkedFileIsOpen, BeginMount, Holders, tables
<1>13. CASE EndMount(t)
  BY <1>13 DEF IInv, MarkedFileIsOpen, EndMount, Holders, tables
<1>14. CASE EmplaceMount(t)
  BY <1>14 DEF IInv, MarkedFileIsOpen, EmplaceMount, Holders
<1>15. CASE BeginUmountAll(t)
  BY <1>15 DEF IInv, MarkedFileIsOpen, BeginUmountAll, Holders, tables
<1>16. CASE NextMount(t)
  BY <1>16 DEF IInv, MarkedFileIsOpen, NextMount, Holders, tables
<1>17. CASE TapLock(t)
  BY <1>17 DEF IInv, MarkedFileIsOpen, TapLock, Holders, tables
<1>18. CASE EndUnmount(t)
  BY <1>18 DEF IInv, MarkedFileIsOpen, EndUnmount, Holders, tables
<1>19. CASE ClearMounts(t)
  BY <1>19 DEF IInv, MarkedFileIsOpen, ClearMounts, Holders, tables, Ends, DestroyLockers
<1>20. CASE ReadRoots(t)
  BY <1>20 DEF IInv, MarkedFileIsOpen, ReadRoots, Holders, tables, Ends
<1>21. CASE VisitMount(t)
  BY <1>21, Visited DEF IInv, MarkedFileIsOpen, Holders, tables
<1>q. QED BY <1>1, <1>2, <1>3, <1>4, <1>5, <1>6, <1>7, <1>8, <1>9, <1>10, <1>11, <1>12,
    <1>13, <1>14, <1>15, <1>16, <1>17, <1>18, <1>19, <1>20, <1>21 DEF Step

-----------------------------------------------------------------------------
(* The theorems.                                                           *)

LEMMA Inductive == Spec => []IInv
<1>1. IInv /\ [Next]_vars => IInv'
  <2>1. ASSUME IInv, Next PROVE IInv'
    <3>1. PICK t \in Thread : StartAny(t) \/ Step(t)
      BY <2>1 DEF Next
    <3>q. QED
      BY <2>1, <3>1, KeepTypeOK, KeepPlace, KeepRootKnown, KeepMutexHeld, KeepFsLock,
         KeepCloseFd, KeepMarkOpen, KeepUnlinkClosed, KeepMarkedFileIsOpen DEF IInv
  <2>2. ASSUME IInv, UNCHANGED vars PROVE IInv'
    BY <2>2 DEF IInv, vars, tables, TypeOK, Place, RootKnown, MutexHeld, Owns, FsLock,
       CloseFd, MarkOpen, UnlinkClosed, MarkedFileIsOpen, Holders
  <2>q. QED BY <2>1, <2>2
<1>q. QED BY <1>1, InitIInv, PTL DEF Spec

\* The variables keep their types, and the descriptors in the table are numbers
\* that file_descriptor_container::insert gave out.
THEOREM TypeCorrect == Spec => []TypeOK
<1>1. IInv => TypeOK
  BY DEF IInv
<1>q. QED BY <1>1, Inductive, PTL

\* Two threads never run in the same filesystem, however mounts and calls
\* interleave, until the program ends by another error; the exceptions are
\* umount_all, which gives the lock back before it unmounts (locker.hpp), and
\* symlink, when it makes a name on another mount than the one it locked.
THEOREM FilesystemsAreExclusive == Spec => []FsExclusion
<1>1. IInv => FsExclusion
  <2>1. SUFFICES ASSUME IInv, NEW m \in Mount, NEW t \in Thread, NEW u \in Thread,
                        InFs(t, m), InFs(u, m), "unmounting" \notin {pc[t], pc[u]},
                        \A v \in {t, u} : self[v].op = "symlink" => self[v].root = m
                 PROVE  t = u
    BY DEF FsExclusion
  <2>2. pc[t] = "infs" /\ self[t].root = m /\ pc[u] = "infs" /\ self[u].root = m
    BY <2>1 DEF InFs, Where
  <2>3. mlock[m] = t /\ mlock[m] = u
    BY <2>1, <2>2 DEF IInv, FsLock
  <2>q. QED BY <2>3
<1>q. QED BY <1>1, Inductive, PTL

\* The test and the mark of VirtualFS::unlink are not torn apart by a last close.
THEOREM MarkedFilesAreOpen == Spec => []MarkedFileIsOpen
<1>1. IInv => MarkedFileIsOpen
  BY DEF IInv
<1>q. QED BY <1>1, Inductive, PTL

\* VirtualFS::unlink and the last close of a marked file never unlink a file that
\* is open or is being opened.
THEOREM UnlinkedFilesAreClosed == Spec => []UnlinkedFileIsClosed
<1>1. IInv => UnlinkedFileIsClosed
  <2>1. SUFFICES ASSUME IInv, NEW t \in Thread, NEW u \in Thread, pc[t] = "infs",
                        self[t].op \in {"unlink", "close_unlink"}
                 PROVE  /\ Holders(self[t].root) = {}
                        /\ ~(/\ pc[u] \in {"find", "wait", "infs"} /\ self[u].op = "open"
                             /\ self[u].root = self[t].root)
    BY DEF UnlinkedFileIsClosed
  <2>2. Holders(self[t].root) = {}
    BY <2>1 DEF IInv, UnlinkClosed
  <2>3. mutex = t
    BY <2>1 DEF IInv, MutexHeld, Owns, UnlockedOps
  <2>4. ASSUME pc[u] \in {"find", "wait", "infs"}, self[u].op = "open" PROVE FALSE
    BY <2>1, <2>3, <2>4 DEF IInv, MutexHeld, Owns, UnlockedOps
  <2>q. QED BY <2>2, <2>4
<1>q. QED BY <1>1, Inductive, PTL

-----------------------------------------------------------------------------
(* While no call mounts or unmounts and no thread uses another's descriptor. *)

\* The calls that change which mounts there are, and the places only they come to.
MountingOps    == {"mount", "umount", "umount_all"}
MountingPlaces == {"erase", "mounting", "emplace", "next", "tap", "unmounting", "clear"}

MountsStay ==
    /\ DOMAIN m_mounts = Mount
    /\ \A t \in Thread : self[t].op \notin MountingOps /\ pc[t] \notin MountingPlaces

\* The locker a call found is the one of its root.
LockerFound ==
    \A t \in Thread :
        pc[t] \in {"wait", "infs", "visit"} /\ self[t].root # Nobody =>
            self[t].gen = m_mounts[self[t].root]

\* The descriptor a call was given is its thread's if it is open, and is open once
\* the call has found it; a number that was given out is never given out again.
OwnFd ==
    \A t \in Thread :
        self[t].op \in FdOps =>
            /\ self[t].fd < idx
            /\ self[t].fd \in DOMAIN by_id => by_id[self[t].fd].by = t
            /\ pc[t] \in {"root", "wait", "infs"} => self[t].fd \in DOMAIN by_id

Quiet == NoCrash /\ MountsStay /\ LockerFound /\ OwnFd

LEMMA InitQuiet == Init => Quiet
  BY LocksAssumption DEF Init, Quiet, NoCrash, MountsStay, LockerFound, OwnFd, MountingOps,
      MountingPlaces, Resting, FdOps

\* Nothing a thread reads outside m_mutex is changing or gone.
LEMMA QuietReads ==
    ASSUME IInv, Quiet, NEW t \in Thread
    PROVE  /\ ~MapIsChanging(t)
           /\ pc[t] \in {"root", "wait", "infs"} => ~HandleGone(t)
           /\ pc[t] = "wait" => ~LockerGone(t)
           /\ pc[t] = "visit" /\ self[t].root # Nobody => ~LockerGone(t)
<1>1. ~MapIsChanging(t)
  BY DEF Quiet, MountsStay, MountingPlaces, MapIsChanging, ChangesMap
<1>2. pc[t] \in {"root", "wait", "infs"} => ~HandleGone(t)
  BY DEF Quiet, OwnFd, HandleGone
<1>3. pc[t] = "wait" => self[t].root \in Mount
  BY DEF IInv, RootKnown
<1>4. self[t].root \in Mount \cup {Nobody}
  BY DEF IInv, TypeOK, Local
<1>5. pc[t] \in {"wait", "visit"} /\ self[t].root # Nobody => ~LockerGone(t)
  BY <1>4 DEF Quiet, MountsStay, LockerFound, LockerGone
<1>q. QED BY <1>1, <1>2, <1>3, <1>5, LocksAssumption

\* What a call that starts is given.
LEMMA QuietStart ==
    ASSUME SharedFds = FALSE, Ops \cap MountingOps = {}, IInv, NEW t \in Thread, StartAny(t)
    PROVE  /\ UNCHANGED <<tables, crashed>>
           /\ \A u \in Thread \ {t} : pc'[u] = pc[u] /\ self'[u] = self[u]
           /\ self'[t].op \notin MountingOps /\ pc'[t] \notin MountingPlaces
           /\ pc'[t] \notin {"wait", "infs"}
           /\ pc'[t] = "visit" => self'[t].root = Nobody
           /\ self'[t].op \in FdOps =>
                 /\ self'[t].fd < idx /\ pc'[t] = "lock"
                 /\ self'[t].fd \in DOMAIN by_id => by_id[self'[t].fd].by = t
<1>1. ASSUME NEW op \in Ops, NEW fd \in Nat, NEW m \in Mount \cup {Nobody},
             NEW at \in Mount \cup {Nobody}, Start(t, op, fd, m, at),
             op \in MapOps => m = Nobody
      PROVE  /\ UNCHANGED <<tables, crashed>>
             /\ \A u \in Thread \ {t} : pc'[u] = pc[u] /\ self'[u] = self[u]
             /\ self'[t].op = op /\ self'[t].root = m /\ self'[t].fd = fd
             /\ pc'[t] = FirstStep(op) /\ op \in AllOps
             /\ pc'[t] \notin MountingPlaces /\ pc'[t] \notin {"wait", "infs"}
             /\ pc'[t] = "visit" => m = Nobody
  <2>1. op \in AllOps
    BY LocksAssumption
  <2>2. pc' = [pc EXCEPT ![t] = FirstStep(op)] /\ pc \in [Thread -> PC]
    BY <1>1 DEF Start, Goto, IInv, TypeOK
  <2>3. /\ self \in [Thread -> Local] /\ UNCHANGED <<tables, crashed>>
        /\ self' = [self EXCEPT ![t] = [Resting EXCEPT !.op = op, !.fd = fd, !.root = m, !.at = at,
                                       !.todo = IF op = "stat_parts" THEN Mount ELSE {}]]
    BY <1>1 DEF Start, IInv, TypeOK
  <2>4. self'[t].op = op /\ self'[t].root = m /\ self'[t].fd = fd
        /\ \A u \in Thread \ {t} : self'[u] = self[u]
    BY <2>3 DEF Resting
  <2>5. FirstStep(op) = "visit" => op = "stat_parts"
    BY <2>1, FirstPlace
  <2>6. FirstStep(op) \in {"lock", "find", "root", "visit"}
    BY <2>1, FirstPlace
  <2>q. QED BY <1>1, <2>1, <2>2, <2>3, <2>4, <2>5, <2>6 DEF MountingPlaces, MapOps
<1>2. CASE \E op \in Ops \cap FdOps, fd \in FirstFd .. idx - 1 :
              MayUse(t, fd) /\ Start(t, op, fd, Nobody, Nobody)
  <2> PICK op \in Ops \cap FdOps, fd \in FirstFd .. idx - 1 :
              MayUse(t, fd) /\ Start(t, op, fd, Nobody, Nobody)
    BY <1>2
  <2>1. fd \in Nat /\ fd < idx
    BY DEF IInv, TypeOK, FirstFd
  <2>2. fd \in DOMAIN by_id => by_id[fd].by = t
    BY DEF MayUse
  <2>3. FirstStep(op) = "lock" /\ op \notin MountingOps
    BY DEF FdOps, FirstStep, MountingOps
  <2>q. QED BY <1>1, <2>1, <2>2, <2>3
<1>3. CASE \E op \in Ops \cap RootOps, m \in Mount, at \in Mount \cup {Nobody} :
              Start(t, op, 0, m, at)
  <2> PICK op \in Ops \cap RootOps, m \in Mount, at \in Mount \cup {Nobody} : Start(t, op, 0, m, at)
    BY <1>3
  <2>1. op \notin FdOps /\ op \notin MapOps
    BY DEF RootOps, FdOps, MapOps
  <2>q. QED BY <1>1, <2>1
<1>4. CASE \E op \in Ops \cap MapOps : Start(t, op, 0, Nobody, Nobody)
  <2> PICK op \in Ops \cap MapOps : Start(t, op, 0, Nobody, Nobody)
    BY <1>4
  <2>1. op \notin FdOps
    BY DEF FdOps, MapOps
  <2>q. QED BY <1>1, <2>1
<1>q. QED BY <1>2, <1>3, <1>4 DEF StartAny

\* A step that leaves the tables as they are and the thread at a place where it
\* is known what it needs.
LEMMA QuietGoesOn ==
    ASSUME IInv, Quiet, NEW t \in Thread, crashed' = "no", m_mounts' = m_mounts,
           by_id' = by_id, idx' = idx,
           \A u \in Thread \ {t} : pc'[u] = pc[u] /\ self'[u] = self[u],
           self'[t].op \notin MountingOps, pc'[t] \notin MountingPlaces,
           pc'[t] \in {"wait", "infs", "visit"} /\ self'[t].root # Nobody =>
              self'[t].gen = m_mounts[self'[t].root],
           self'[t].op \in FdOps => self[t].op \in FdOps /\ self'[t].fd = self[t].fd,
           self'[t].op \in FdOps /\ pc'[t] \in {"root", "wait", "infs"} =>
              self'[t].fd \in DOMAIN by_id
    PROVE  Quiet'
<1>1. NoCrash' /\ MountsStay'
  BY DEF Quiet, NoCrash, MountsStay
<1>2. LockerFound'
  BY DEF Quiet, LockerFound
<1>3. OwnFd'
  BY DEF Quiet, OwnFd
<1>q. QED BY <1>1, <1>2, <1>3 DEF Quiet

LEMMA QuietReturns ==
    ASSUME IInv, Quiet, NEW t \in Thread, Return(t), m_mounts' = m_mounts, by_id' = by_id, idx' = idx
    PROVE  Quiet'
<1>1. /\ \A u \in Thread \ {t} : pc'[u] = pc[u] /\ self'[u] = self[u]
      /\ pc'[t] = "idle" /\ self'[t] = Resting /\ crashed' = "no"
  BY DEF Return, Goto, IInv, TypeOK, Quiet, NoCrash
<1>2. Resting.op = "none" /\ "none" \notin FdOps /\ "none" \notin MountingOps /\ "idle" \notin MountingPlaces
  BY DEF Resting, FdOps, MountingOps, MountingPlaces
<1>q. QED BY <1>1, <1>2, QuietGoesOn

\* A step that changes no table but for marks, and not what the call was given.
LEMMA QuietMoves ==
    ASSUME IInv, Quiet, NEW t \in Thread, NEW l \in PC, Goto(t, l), l \notin MountingPlaces,
           self' = self, UNCHANGED <<m_mounts, by_id, idx, crashed>>,
           l \in {"wait", "infs", "visit"} /\ self[t].root # Nobody =>
              self[t].gen = m_mounts[self[t].root],
           self[t].op \in FdOps /\ l \in {"root", "wait", "infs"} => self[t].fd \in DOMAIN by_id
    PROVE  Quiet'
<1>1. /\ \A u \in Thread \ {t} : pc'[u] = pc[u] /\ self'[u] = self[u]
      /\ pc'[t] = l /\ self'[t] = self[t] /\ crashed' = "no" /\ self[t].op \notin MountingOps
  BY DEF Goto, IInv, TypeOK, Quiet, NoCrash, MountsStay
<1>q. QED BY <1>1, QuietGoesOn

\* A step that finds the locker of a root.
LEMMA QuietFinds ==
    ASSUME IInv, Quiet, NEW t \in Thread, NEW s \in Local, NEW m \in Mount,
           self' = [self EXCEPT ![t] = s], Goto(t, "wait"),
           s.op = self[t].op, s.fd = self[t].fd, s.root = m, s.gen = m_mounts[m],
           UNCHANGED <<calls, mutex, mlock, tables, crashed>>,
           self[t].op \in FdOps => self[t].fd \in DOMAIN by_id
    PROVE  Quiet'
<1>1. /\ \A u \in Thread \ {t} : pc'[u] = pc[u] /\ self'[u] = self[u]
      /\ pc'[t] = "wait" /\ self'[t] = s /\ crashed' = "no" /\ self[t].op \notin MountingOps
      /\ m_mounts' = m_mounts /\ by_id' = by_id /\ idx' = idx
      /\ "wait" \notin MountingPlaces
  BY DEF Goto, IInv, TypeOK, Quiet, NoCrash, MountsStay, tables, MountingPlaces
<1>2. s.op \notin MountingOps
  BY <1>1
<1>3. s.root # Nobody => s.gen = m_mounts[s.root]
  OBVIOUS
<1>q. QED BY <1>1, <1>2, <1>3, QuietGoesOn

LEMMA QuietSteps ==
    ASSUME IInv, Quiet, NEW t \in Thread,
           \/ LockMutex(t) \/ LookUpFd(t) \/ MountAtRoot(t) \/ Proceed(t) \/ MarkFile(t)
           \/ FindMount(t) \/ EnterFs(t) \/ ReadRoots(t) \/ VisitMount(t)
    PROVE  Quiet'
<1>1. /\ ~MapIsChanging(t)
      /\ pc[t] \in {"root", "wait", "infs"} => ~HandleGone(t)
      /\ pc[t] = "wait" => ~LockerGone(t)
      /\ pc[t] = "visit" /\ self[t].root # Nobody => ~LockerGone(t)
  BY QuietReads
<1>2. /\ self[t] \in Local /\ self \in [Thread -> Local] /\ DOMAIN m_mounts = Mount
      /\ \A m \in Mount : m_mounts[m] \in Nat
  BY DEF IInv, TypeOK, Quiet, MountsStay
<1>3. {"idle", "locked", "root", "find", "mark", "wait", "infs"} \subseteq PC \ MountingPlaces
  BY DEF PC, MountingPlaces
<1>4. CASE LockMutex(t)
  BY <1>3, <1>4, QuietMoves DEF LockMutex, tables
<1>5. CASE LookUpFd(t)
  <2>1. CASE Return(t)
    BY <1>5, <2>1, QuietReturns DEF LookUpFd, tables
  <2>2. CASE Goto(t, "root") /\ self[t].fd \in DOMAIN by_id /\ UNCHANGED <<self, crashed>>
    BY <1>3, <1>5, <2>2, QuietMoves DEF LookUpFd, tables
  <2>q. QED BY <1>5, <2>1, <2>2 DEF LookUpFd
<1>6. CASE MountAtRoot(t)
  <2> DEFINE root == IF self[t].op \in FdOps THEN by_id[self[t].fd].root ELSE self[t].root
  <2>1. pc[t] = "root" /\ ~HandleGone(t)
    BY <1>1, <1>6 DEF MountAtRoot
  <2>2. self[t].op \in FdOps => self[t].fd \in DOMAIN by_id
    BY <2>1 DEF HandleGone
  <2>3. root \in Mount
    <3>1. CASE self[t].op \in FdOps
      BY <2>2, <3>1 DEF IInv, TypeOK
    <3>2. CASE self[t].op \notin FdOps
      BY <2>1, <3>2 DEF IInv, Place, RootKnown, FdOps, RootOps
    <3>q. QED BY <3>1, <3>2
  <2>4. /\ self' = [self EXCEPT ![t].root = root, ![t].gen = m_mounts[root]]
        /\ Goto(t, "wait") /\ UNCHANGED <<calls, mutex, mlock, tables, crashed>>
    BY <1>1, <1>2, <1>6, <2>1, <2>3 DEF MountAtRoot
  <2> HIDE DEF root
  <2> DEFINE s == [self[t] EXCEPT !.root = root, !.gen = m_mounts[root]]
  <2>5. s \in Local /\ s.op = self[t].op /\ s.fd = self[t].fd /\ s.root = root /\ s.gen = m_mounts[root]
    BY <1>2, <2>3, LocalUpdated DEF Local
  <2>6. self' = [self EXCEPT ![t] = s]
    BY <2>4
  <2> HIDE DEF s
  <2>q. QED BY <2>2, <2>3, <2>4, <2>5, <2>6, QuietFinds
<1>7. CASE Proceed(t)
  <2>1. PICK l \in {"mark", "find"} : Goto(t, l)
    BY <1>7 DEF Proceed
  <2>q. QED BY <1>3, <1>7, <2>1, QuietMoves DEF Proceed, tables
<1>8. CASE MarkFile(t)
  BY <1>8, QuietReturns DEF MarkFile
<1>9. CASE FindMount(t)
  <2>1. CASE Return(t)
    BY <1>1, <1>9, <2>1, QuietReturns DEF FindMount, tables, Ends
  <2>2. CASE /\ self[t].root \in Mount
             /\ self' = [self EXCEPT ![t].gen = m_mounts[self[t].root]]
             /\ Goto(t, "wait") /\ UNCHANGED <<calls, mutex, mlock, tables, crashed>>
    <3> DEFINE s == [self[t] EXCEPT !.gen = m_mounts[self[t].root]]
    <3>1. m_mounts[self[t].root] \in Nat
      BY <1>2, <2>2
    <3>2. s \in Local /\ s.op = self[t].op /\ s.fd = self[t].fd /\ s.root = self[t].root
          /\ s.gen = m_mounts[self[t].root]
      BY <1>2, <3>1 DEF Local
    <3>3. self' = [self EXCEPT ![t] = s]
      BY <2>2
    <3>4. self[t].op \notin FdOps
      BY <1>9 DEF FindMount, IInv, Place, FdOps
    <3> HIDE DEF s
    <3>q. QED BY <2>2, <3>2, <3>3, <3>4, QuietFinds
  <2>q. QED BY <1>1, <1>2, <1>9, <2>1, <2>2 DEF FindMount
<1>10. CASE EnterFs(t)
  <2>1. pc[t] = "wait" /\ Goto(t, "infs") /\ UNCHANGED <<self, tables, crashed>> /\ ~HandleGone(t)
        /\ ~LockerGone(t)
    BY <1>1, <1>10 DEF EnterFs
  <2>2. self[t].gen = m_mounts[self[t].root]
    BY <2>1 DEF LockerGone
  <2>q. QED BY <1>3, <2>1, <2>2, QuietMoves DEF tables, HandleGone
<1>11. CASE ReadRoots(t)
  BY <1>1, <1>11, QuietReturns DEF ReadRoots, tables
<1>12. CASE VisitMount(t)
  <2>1. CASE Return(t)
    BY <1>1, <1>12, <2>1, Visited, QuietReturns DEF tables
  <2>2. ASSUME NEW m \in DOMAIN m_mounts, NEW A \in SUBSET Mount,
               self' = [self EXCEPT ![t].root = m, ![t].gen = m_mounts[m],
                                    ![t].todo = @ \ (A \cup {m})],
               Goto(t, "wait"), UNCHANGED <<calls, mutex, mlock, tables, crashed>>
        PROVE  Quiet'
    <3> DEFINE rest == self[t].todo \ (A \cup {m})
    <3> DEFINE s == [self[t] EXCEPT !.root = m, !.gen = m_mounts[m], !.todo = rest]
    <3>1. m \in Mount /\ m_mounts[m] \in Nat /\ rest \in SUBSET Mount
      BY <1>2, <2>2 DEF Local
    <3>3. self' = [self EXCEPT ![t] = s]
      BY <2>2
    <3> HIDE DEF rest
    <3>2. s \in Local /\ s.op = self[t].op /\ s.fd = self[t].fd /\ s.root = m /\ s.gen = m_mounts[m]
      <4>1. s \in Local
        BY <1>2, <3>1, LocalVisit
      <4>2. self[t] \in Local
        BY <1>2
      <4>3. s.op = self[t].op /\ s.fd = self[t].fd /\ s.root = m /\ s.gen = m_mounts[m]
        BY <4>2 DEF Local
      <4>q. QED BY <4>1, <4>3
    <3>4. self[t].op \notin FdOps
      BY <1>12, Visited DEF FdOps
    <3> HIDE DEF s
    <3>q. QED BY <2>2, <3>1, <3>2, <3>3, <3>4, QuietFinds
  <2>3. self[t].todo \subseteq Mount
    BY <1>2 DEF Local
  <2>q. QED BY <1>1, <1>12, <2>1, <2>2, <2>3 DEF VisitMount
<1>q. QED BY <1>4, <1>5, <1>6, <1>7, <1>8, <1>9, <1>10, <1>11, <1>12

\* The steps that give out and take back a descriptor.
LEMMA QuietFdSteps ==
    ASSUME IInv, Quiet, NEW t \in Thread, LeaveFs(t) \/ RemoveFd(t)
    PROVE  Quiet'
<1>1. /\ pc \in [Thread -> PC] /\ self \in [Thread -> Local] /\ idx \in Nat
      /\ idx \notin DOMAIN by_id /\ DOMAIN by_id \subseteq Nat
      /\ crashed = "no" /\ self[t].op \notin MountingOps
  BY DEF IInv, TypeOK, FirstFd, Quiet, NoCrash, MountsStay
<1>2. CASE LeaveFs(t)
  <2>1. pc[t] = "infs" /\ ~HandleGone(t) /\ m_mounts' = m_mounts
    BY <1>2, QuietReads DEF LeaveFs
  <2>2. CASE self[t].op = "open" /\ InsertFd(t) /\ Return(t)
    <3>1. /\ \A u \in Thread \ {t} : pc'[u] = pc[u] /\ self'[u] = self[u]
          /\ pc'[t] = "idle" /\ self'[t].op = "none" /\ crashed' = "no"
      BY <1>1, <2>2 DEF Return, Goto, Resting
    <3>2. /\ idx' = idx + 1 /\ DOMAIN by_id' = DOMAIN by_id \cup {idx}
          /\ \A fd \in DOMAIN by_id : by_id'[fd] = by_id[fd]
      BY <1>1, <2>2 DEF InsertFd
    <3>3. NoCrash' /\ MountsStay' /\ LockerFound'
      BY <2>1, <3>1 DEF Quiet, NoCrash, MountsStay, LockerFound, MountingOps, MountingPlaces
    <3>4. ASSUME NEW u \in Thread \ {t}, self[u].op \in FdOps
          PROVE  /\ self[u].fd < idx'
                 /\ self[u].fd \in DOMAIN by_id' => by_id'[self[u].fd].by = u
                 /\ pc[u] \in {"root", "wait", "infs"} => self[u].fd \in DOMAIN by_id'
      <4>1. /\ self[u].fd \in Nat /\ self[u].fd < idx
            /\ self[u].fd \in DOMAIN by_id => by_id[self[u].fd].by = u
            /\ pc[u] \in {"root", "wait", "infs"} => self[u].fd \in DOMAIN by_id
        BY <1>1, <3>4 DEF Quiet, OwnFd, Local
      <4>2. self[u].fd # idx
        BY <1>1, <4>1
      <4>q. QED BY <1>1, <3>2, <4>1, <4>2
    <3>5. OwnFd'
      BY <3>1, <3>4 DEF OwnFd, FdOps
    <3>q. QED BY <3>3, <3>5 DEF Quiet
  <2>3. CASE Return(t) /\ UNCHANGED <<by_id, idx>>
    BY <2>1, <2>3, QuietReturns
  <2>4. CASE /\ self[t].op \in DOMAIN AfterFs /\ Goto(t, AfterFs[self[t].op])
             /\ UNCHANGED <<self, calls, mutex, by_id, idx, crashed>>
    <3>1. AfterFs[self[t].op] \in {"remove", "visit"}
      BY <1>1, <2>4, AfterFsPlaces DEF MountingOps
    <3>2. {"remove", "visit"} \subseteq PC \ MountingPlaces
      BY DEF PC, MountingPlaces
    <3>3. self[t].root # Nobody => self[t].gen = m_mounts[self[t].root]
      BY <2>1 DEF Quiet, LockerFound
    <3>q. QED BY <2>1, <2>4, <3>1, <3>2, <3>3, QuietMoves
  <2>q. QED BY <1>2, <2>1, <2>2, <2>3, <2>4 DEF LeaveFs
<1>3. CASE RemoveFd(t)
  <2>1. /\ pc[t] = "remove" /\ self[t].op = "close" /\ self[t].fd \in DOMAIN by_id
        /\ by_id[self[t].fd].by = t
    BY <1>3 DEF RemoveFd, IInv, Place, CloseFd, Quiet, OwnFd, FdOps
  <2>2. /\ DOMAIN by_id' = DOMAIN by_id \ {self[t].fd}
        /\ \A fd \in DOMAIN by_id' : by_id'[fd] = by_id[fd]
    BY <1>3 DEF RemoveFd, RemovedFds, Restrict
  <2>3. /\ \A u \in Thread \ {t} : pc'[u] = pc[u] /\ self'[u] = self[u]
        /\ pc'[t] \in {"idle", "find"} /\ self'[t].op \in {"none", "close_unlink"}
        /\ crashed' = "no" /\ m_mounts' = m_mounts /\ idx' = idx
    <3>1. CASE Return(t)
      BY <1>1, <1>3, <3>1 DEF RemoveFd, Return, Goto, Resting
    <3>2. CASE self' = [self EXCEPT ![t].op = "close_unlink"] /\ Goto(t, "find") /\ crashed' = crashed
      <4>1. self[t] \in Local
        BY <1>1
      <4>q. QED BY <1>1, <1>3, <3>2, <4>1 DEF RemoveFd, Goto, Local
    <3>q. QED BY <1>3, <3>1, <3>2 DEF RemoveFd
  <2>4. NoCrash' /\ MountsStay' /\ LockerFound'
    BY <2>3 DEF Quiet, NoCrash, MountsStay, LockerFound, MountingOps, MountingPlaces
  <2>5. ASSUME NEW u \in Thread \ {t}, self[u].op \in FdOps
        PROVE  /\ self[u].fd < idx
               /\ self[u].fd \in DOMAIN by_id' => by_id'[self[u].fd].by = u
               /\ pc[u] \in {"root", "wait", "infs"} => self[u].fd \in DOMAIN by_id'
    BY <2>1, <2>2, <2>5 DEF Quiet, OwnFd
  <2>6. OwnFd'
    BY <2>3, <2>5 DEF OwnFd, FdOps
  <2>q. QED BY <2>4, <2>6 DEF Quiet
<1>q. QED BY <1>2, <1>3

LEMMA NextQuiet ==
    ASSUME SharedFds = FALSE, Ops \cap MountingOps = {}, IInv, Quiet, [Next]_vars
    PROVE  Quiet'
<1>1. CASE UNCHANGED vars
  BY <1>1 DEF vars, tables, Quiet, NoCrash, MountsStay, LockerFound, OwnFd
<1>2. ASSUME NEW t \in Thread, StartAny(t) PROVE Quiet'
  <2>1. /\ UNCHANGED <<tables, crashed>>
        /\ \A u \in Thread \ {t} : pc'[u] = pc[u] /\ self'[u] = self[u]
        /\ self'[t].op \notin MountingOps /\ pc'[t] \notin MountingPlaces
        /\ pc'[t] \notin {"wait", "infs"}
        /\ pc'[t] = "visit" => self'[t].root = Nobody
        /\ self'[t].op \in FdOps =>
              /\ self'[t].fd < idx /\ pc'[t] = "lock"
              /\ self'[t].fd \in DOMAIN by_id => by_id[self'[t].fd].by = t
    BY <1>2, QuietStart
  <2>2. NoCrash' /\ MountsStay' /\ LockerFound'
    BY <2>1 DEF tables, Quiet, NoCrash, MountsStay, LockerFound
  <2>3. OwnFd'
    BY <2>1 DEF tables, Quiet, OwnFd
  <2>q. QED BY <2>2, <2>3 DEF Quiet
<1>3. ASSUME NEW t \in Thread, Step(t) PROVE Quiet'
  <2>1. self[t].op \notin MountingOps /\ pc[t] \notin MountingPlaces
    BY DEF Quiet, MountsStay
  <2>2. ~(\/ EraseMount(t) \/ BeginMount(t) \/ EndMount(t) \/ EmplaceMount(t) \/ BeginUmountAll(t)
          \/ NextMount(t) \/ TapLock(t) \/ EndUnmount(t) \/ ClearMounts(t))
    BY <2>1 DEF EraseMount, BeginMount, EndMount, EmplaceMount, BeginUmountAll, NextMount,
       TapLock, EndUnmount, ClearMounts, MountingOps, MountingPlaces
  <2>q. QED BY <1>3, <2>2, QuietSteps, QuietFdSteps DEF Step
<1>q. QED BY <1>1, <1>2, <1>3 DEF Next

\* While no call mounts or unmounts and each thread keeps its descriptors to
\* itself, the reads outside m_mutex (the handle that invoke_fops keeps, the map
\* that find_mount_point searches) meet nothing another thread destroyed, for any
\* number of threads, mounts and calls.
THEOREM QuietProgramsDoNotCrash ==
    ASSUME SharedFds = FALSE, Ops \cap MountingOps = {}
    PROVE  Spec => []NoCrash
<1>1. Init => IInv /\ Quiet
  BY InitIInv, InitQuiet
<1>2. IInv /\ [Next]_vars => IInv'
  <2>1. ASSUME IInv, Next PROVE IInv'
    <3>1. PICK t \in Thread : StartAny(t) \/ Step(t)
      BY <2>1 DEF Next
    <3>q. QED
      BY <2>1, <3>1, KeepTypeOK, KeepPlace, KeepRootKnown, KeepMutexHeld, KeepFsLock,
         KeepCloseFd, KeepMarkOpen, KeepUnlinkClosed, KeepMarkedFileIsOpen DEF IInv
  <2>2. ASSUME IInv, UNCHANGED vars PROVE IInv'
    BY <2>2 DEF IInv, vars, tables, TypeOK, Place, RootKnown, MutexHeld, Owns, FsLock,
       CloseFd, MarkOpen, UnlinkClosed, MarkedFileIsOpen, Holders
  <2>q. QED BY <2>1, <2>2
<1>3. Quiet => NoCrash
  BY DEF Quiet
<1>4. IInv /\ Quiet /\ [Next]_vars => Quiet'
  BY NextQuiet
<1>q. QED BY <1>1, <1>2, <1>3, <1>4, PTL DEF Spec

=============================================================================
