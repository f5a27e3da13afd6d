-------------------------- MODULE MountTable_proofs --------------------------
(***************************************************************************)
(* Theorems about MountTable, for any partitions, roots, sizes of the      *)
(* tables of lwext4 and failures: every variable keeps its type, the three *)
(* tables agree until an unmount fails, a partition is mounted once, the   *)
(* slot that an unmount finds is mounted, and mount_all reports success    *)
(* only when it mounted everything.                                        *)
(*                                                                         *)
(* The properties speak of the time between calls and of all times alike;  *)
(* the invariant says what they become while umount_all empties lwext4 and *)
(* m_mounts still holds every root: they hold of the roots still to do.    *)
(***************************************************************************)
EXTENDS MountTable, FiniteSetTheorems, WellFoundedInduction, TLAPS

Jobs == [call : {"none", "mount_all", "umount_all"}, todo : SUBSET (Part \cup Root), err : Errno]

Types ==
    /\ m_fs_factories \subseteq FsType
    /\ DOMAIN m_mounts \subseteq Root /\ m_mounts \in [DOMAIN m_mounts -> Part]
    /\ m_volume_index \in Nat
    /\ lw \in Lwext4 /\ Cardinality(lw.bdevices) <= DevCount
    /\ job \in Jobs
    /\ alien \subseteq Part
    /\ crashed \in BOOLEAN
    /\ last.err \in Errno

\* What a job has still to do, by its kind.
JobTodo ==
    /\ job.call = "none" => job = NoJob
    /\ job.call = "mount_all" => job.todo \subseteq Part
    /\ job.call = "umount_all" => job.todo \subseteq DOMAIN m_mounts

\* The roots that are mounted: those that umount_all is done with are in the map
\* until it clears it.
Live == IF job.call = "umount_all" THEN job.todo ELSE DOMAIN m_mounts

Named(l, r) == {s \in MpSlot : l.mp[s].name = r}

\* The first slot of a name is mounted.
FirstIsMounted(l, r) ==
    \E s \in Named(l, r) : l.mp[s].mounted /\ \A t \in Named(l, r) : s <= t

\* Of a set of mounted roots: the device of each is registered, and its first
\* slot is mounted.
Reached(l, mounts, R) ==
    \A r \in R : mounts[r] \in l.bdevices /\ FirstIsMounted(l, r)

\* Nothing else is: every mounted slot is that of a root, with its partition, two
\* are not of the same root, and every device is that of a root.
Exact(l, mounts, R) ==
    /\ \A s \in Mounted(l) : l.mp[s].name \in R /\ l.mp[s].part = mounts[l.mp[s].name]
    /\ \A s, t \in Mounted(l) : l.mp[s].name = l.mp[t].name => s = t
    /\ \A p \in l.bdevices : \E r \in R : mounts[r] = p

\* A mounted slot has a partition.
PartsKnown(l) == \A s \in Mounted(l) : l.mp[s].part \in Part

\* What mount_all has mounted while it saw no error.
Done ==
    job.call = "mount_all" /\ job.err = "OK" =>
        \A p \in Part \ job.todo : \E r \in DOMAIN m_mounts : m_mounts[r] = p

IInv ==
    /\ Types
    /\ JobTodo
    /\ PartsKnown(lw)
    /\ MountedOnce
    /\ Reached(lw, m_mounts, Live)
    /\ (lw.stuck \/ Exact(lw, m_mounts, Live))
    /\ Done

-----------------------------------------------------------------------------
(* The first slot of a set, and one slot written.                          *)

\* A set of numbers has a least one.
LEMMA LeastNumber ==
    ASSUME NEW S, S \subseteq Nat, S # {}
    PROVE  \E x \in S : \A y \in S : x <= y
<1> DEFINE Less == {ss \in Nat \X Nat : ss[1] < ss[2]}
<1>1. IsWellFoundedOn(Less, Nat)
  BY NatLessThanWellFounded DEF OpToRel
<1>2. \E x \in S : \A y \in S : <<y, x>> \notin Less
  BY <1>1, WFMin
<1>3. \A x, y \in S : <<y, x>> \notin Less => x <= y
  OBVIOUS
<1> QED BY <1>2, <1>3

\* Lowest is the first slot of a set.
LEMMA LowestSlot ==
    ASSUME NEW S \in SUBSET MpSlot, S # {}
    PROVE  Lowest(S) \in S /\ \A t \in S : Lowest(S) <= t
<1>1. S \subseteq Nat
  BY MountAssumption DEF MpSlot
<1>2. \E s \in S : \A t \in S : s <= t
  BY <1>1, LeastNumber
<1> QED BY <1>2 DEF Lowest

\* The slots before a slot.
LEMMA SlotsBefore ==
    ASSUME NEW n \in MpSlot
    PROVE  /\ 1 .. n - 1 \subseteq MpSlot
           /\ \A t \in MpSlot : t \in 1 .. n - 1 <=> ~(n <= t)
BY MountAssumption DEF MpSlot

Slots == [name : Root \cup {Nothing}, part : Part \cup {Nothing}, mounted : BOOLEAN]

\* The tables with one slot written.
Written(l, k, x) == [l EXCEPT !.mp = [l.mp EXCEPT ![k] = x]]

\* A slot is all that changes.
LEMMA SlotWritten ==
    ASSUME NEW l \in Lwext4, NEW k \in MpSlot, NEW x \in Slots
    PROVE  /\ Written(l, k, x) \in Lwext4
           /\ Written(l, k, x).bdevices = l.bdevices
           /\ Written(l, k, x).stuck = l.stuck
           /\ \A t \in MpSlot : Written(l, k, x).mp[t] = IF t = k THEN x ELSE l.mp[t]
BY DEF Lwext4, Slots, Written

\* A slot that is not the first of a root can be written without that root losing
\* its slot, if it does not get its name.
LEMMA OtherSlotWritten ==
    ASSUME NEW l \in Lwext4, NEW k \in MpSlot, NEW x \in Slots, NEW r \in Root,
           FirstIsMounted(l, r), x.name # r,
           ~l.mp[k].mounted \/ l.mp[k].name # r
    PROVE  FirstIsMounted(Written(l, k, x), r)
<1> DEFINE w == Written(l, k, x)
<1>1. \A t \in MpSlot : w.mp[t] = IF t = k THEN x ELSE l.mp[t]
  BY SlotWritten
<1> HIDE DEF w
<1>2. PICK s \in Named(l, r) : l.mp[s].mounted /\ \A t \in Named(l, r) : s <= t
  BY DEF FirstIsMounted
<1>3. s # k
  BY <1>2 DEF Named
<1>4. Named(w, r) \subseteq Named(l, r) /\ s \in Named(w, r) /\ w.mp[s].mounted
  BY <1>1, <1>2, <1>3 DEF Named
<1>5. FirstIsMounted(w, r)
  BY <1>2, <1>4 DEF FirstIsMounted
<1> QED BY <1>5 DEF w

-----------------------------------------------------------------------------
(* What lwext4 and its wrapper do to the tables.                           *)

\* The same slots are mounted, as they were.
SameMounted(l, m) ==
    \A s \in MpSlot : /\ m.mp[s].mounted <=> l.mp[s].mounted
                      /\ l.mp[s].mounted => m.mp[s] = l.mp[s]

\* One more slot is mounted, with this name and partition.
OneMoreMounted(l, m, p, r) ==
    \E f \in MpSlot : /\ ~l.mp[f].mounted
                      /\ m.mp[f] = [name |-> r, part |-> p, mounted |-> TRUE]
                      /\ \A s \in MpSlot \ {f} : m.mp[s] = l.mp[s]

\* The first slots of other roots are not touched.
OthersKept(l, m, r) == \A q \in Root \ {r} : FirstIsMounted(l, q) => FirstIsMounted(m, q)

NoneMounted(l, r) == \A s \in Mounted(l) : l.mp[s].name # r

\* ext4_device_register and ext4_device_unregister touch no slot.
LEMMA DevicesChanged ==
    ASSUME NEW l \in Lwext4, NEW D \in SUBSET Part
    PROVE  /\ [l EXCEPT !.bdevices = D] \in Lwext4
           /\ [l EXCEPT !.bdevices = D].bdevices = D
           /\ [l EXCEPT !.bdevices = D].mp = l.mp
           /\ [l EXCEPT !.bdevices = D].stuck = l.stuck
BY DEF Lwext4

\* What is said of slots does not depend on the devices.
LEMMA SlotsOnly ==
    ASSUME NEW l, NEW m, NEW r, l.mp = m.mp
    PROVE  /\ Mounted(l) = Mounted(m) /\ Named(l, r) = Named(m, r)
           /\ FirstIsMounted(l, r) <=> FirstIsMounted(m, r)
           /\ NoneMounted(l, r) <=> NoneMounted(m, r)
           /\ PartsKnown(l) <=> PartsKnown(m)
BY DEF Mounted, Named, FirstIsMounted, NoneMounted, PartsKnown

\* ext4_mount: on success the root has a mounted slot, a new one when it had none.
LEMMA ExtMountOutcome ==
    ASSUME NEW l \in Lwext4, NEW p \in Part, NEW r \in Root, NEW o \in ExtMount(l, p, r)
    PROVE  /\ o = Outcome(o.err, o.lw) /\ o.lw \in Lwext4 /\ o.err \in Errno
           /\ o.lw.bdevices = l.bdevices /\ o.lw.stuck = l.stuck
           /\ OthersKept(l, o.lw, r) /\ (PartsKnown(l) => PartsKnown(o.lw))
           /\ o.err # "OK" => SameMounted(l, o.lw)
           /\ o.err = "OK" => /\ FirstIsMounted(o.lw, r)
                              /\ NoneMounted(l, r) => OneMoreMounted(l, o.lw, p, r)
<1> DEFINE free   == MpSlot \ Mounted(l)
           before == IF free = {} THEN MpSlot ELSE 1 .. Lowest(free) - 1
<1>1. before \subseteq Mounted(l)
  <2>1. CASE free = {}
    BY <2>1
  <2>2. CASE free # {}
    <3>1. Lowest(free) \in MpSlot /\ \A t \in free : Lowest(free) <= t
      BY <2>2, LowestSlot
    <3>2. before \subseteq MpSlot /\ \A s \in before : ~(Lowest(free) <= s)
      BY <2>2, <3>1, SlotsBefore
    <3> QED BY <3>1, <3>2
  <2> QED BY <2>1, <2>2
<1>2. CASE \E s \in before : l.mp[s].name = r
  <2>1. o = Outcome("OK", l)
    BY <1>2 DEF ExtMount
  <2>2. PICK k \in before : l.mp[k].name = r
    BY <1>2
  <2>3. k \in Named(l, r) /\ k \in MpSlot
    BY <1>1, <2>2 DEF Named, Mounted
  <2>4. Lowest(Named(l, r)) \in Named(l, r) /\ \A t \in Named(l, r) : Lowest(Named(l, r)) <= t
    BY <2>3, LowestSlot DEF Named
  <2>5. Lowest(Named(l, r)) \in before
    <3>1. Lowest(Named(l, r)) \in MpSlot /\ Lowest(Named(l, r)) <= k
      BY <2>3, <2>4 DEF Named
    <3>2. CASE free = {}
      BY <3>1, <3>2
    <3>3. CASE free # {}
      <4>1. Lowest(free) \in MpSlot
        BY <3>3, LowestSlot
      <4> QED BY <2>2, <3>1, <3>3, <4>1, MountAssumption DEF MpSlot
    <3> QED BY <3>2, <3>3
  <2>6. FirstIsMounted(l, r) /\ ~NoneMounted(l, r)
    BY <1>1, <2>2, <2>4, <2>5 DEF FirstIsMounted, NoneMounted, Mounted
  <2> QED BY <2>1, <2>6 DEF Outcome, OthersKept, Errno
<1>3. CASE ~(\E s \in before : l.mp[s].name = r) /\ free = {}
  <2>1. o = Outcome("ENOMEM", l)
    BY <1>3 DEF ExtMount
  <2> QED BY <2>1 DEF Outcome, OthersKept, Errno, SameMounted
<1>4. CASE ~(\E s \in before : l.mp[s].name = r) /\ free # {}
  <2> DEFINE f == Lowest(free)
             new == [name |-> r, part |-> p, mounted |-> TRUE]
             old == [l.mp[f] EXCEPT !.name = r]
  <2>1. f \in MpSlot /\ ~l.mp[f].mounted /\ \A t \in free : f <= t
    BY <1>4, LowestSlot DEF Mounted
  <2>2. new \in Slots /\ old \in Slots /\ ~old.mounted /\ old.name = r
    BY <2>1 DEF Slots, Lwext4
  <2>3. o \in {Outcome("OK", Written(l, f, new)), Outcome("EIO", Written(l, f, old))}
    BY <1>4, <2>1 DEF ExtMount, Written, Lwext4
  <2> HIDE DEF f, new, old
  <2>4. CASE o = Outcome("OK", Written(l, f, new))
    <3>1. \A t \in MpSlot : Written(l, f, new).mp[t] = IF t = f THEN new ELSE l.mp[t]
      BY <2>1, <2>2, SlotWritten
    <3>2. OthersKept(l, Written(l, f, new), r)
      BY <2>1, <2>2, OtherSlotWritten DEF OthersKept, new
    <3>3. FirstIsMounted(Written(l, f, new), r)
      <4>1. new.name = r /\ new.mounted
        BY DEF new
      <4>2. before = 1 .. f - 1
        BY <1>4 DEF f
      <4>3. \A t \in MpSlot : t \in before <=> ~(f <= t)
        BY <2>1, <4>2, SlotsBefore
      <4>4. \A t \in Named(Written(l, f, new), r) : f <= t
        <5> HIDE DEF before
        <5>1. \A t \in Named(Written(l, f, new), r) : t \in MpSlot /\ (t = f \/ l.mp[t].name = r)
          BY <3>1 DEF Named
        <5>2. f <= f
          BY <2>1, MountAssumption DEF MpSlot
        <5> QED BY <1>4, <4>3, <5>1, <5>2
      <4>5. Written(l, f, new).mp[f] = new
        BY <2>1, <3>1
      <4>6. f \in Named(Written(l, f, new), r)
        BY <2>1, <4>1, <4>5 DEF Named
      <4>7. Written(l, f, new).mp[f].mounted
        BY <4>1, <4>5
      <4> QED BY <4>4, <4>6, <4>7 DEF FirstIsMounted
    <3>4. OneMoreMounted(l, Written(l, f, new), p, r)
      BY <2>1, <3>1 DEF OneMoreMounted, new
    <3>5. PartsKnown(l) => PartsKnown(Written(l, f, new))
      <4>1. new.part \in Part
        BY DEF new
      <4> QED BY <3>1, <4>1 DEF PartsKnown, Mounted
    <3> QED BY <2>1, <2>2, <2>4, <3>2, <3>3, <3>4, <3>5, SlotWritten DEF Outcome, Errno
  <2>5. CASE o = Outcome("EIO", Written(l, f, old))
    <3>1. \A t \in MpSlot : Written(l, f, old).mp[t] = IF t = f THEN old ELSE l.mp[t]
      BY <2>1, <2>2, SlotWritten
    <3>2. OthersKept(l, Written(l, f, old), r)
      BY <2>1, <2>2, OtherSlotWritten DEF OthersKept
    <3>3. SameMounted(l, Written(l, f, old))
      BY <2>1, <2>2, <3>1 DEF SameMounted
    <3>4. PartsKnown(l) => PartsKnown(Written(l, f, old))
      BY <2>2, <3>1 DEF PartsKnown, Mounted
    <3> QED BY <2>1, <2>2, <2>5, <3>2, <3>3, <3>4, SlotWritten DEF Outcome, Errno
  <2> QED BY <2>3, <2>4, <2>5
<1> QED BY <1>2, <1>3, <1>4

\* The first slot of a name, which was mounted, is not any more.
FirstGone(l, m, r) ==
    \E f \in Named(l, r) : /\ l.mp[f].mounted /\ ~m.mp[f].mounted
                           /\ \A s \in MpSlot \ {f} : m.mp[s] = l.mp[s]

\* ext4_umount of a root that has a mounted slot: that slot goes, or nothing does.
LEMMA ExtUmountOutcome ==
    ASSUME NEW l \in Lwext4, NEW r \in Root, NEW o \in ExtUmount(l, r), FirstIsMounted(l, r)
    PROVE  /\ o = Outcome(o.err, o.lw) /\ o.lw \in Lwext4 /\ o.err \in {"OK", "EIO"}
           /\ o.lw.bdevices = l.bdevices
           /\ OthersKept(l, o.lw, r) /\ (PartsKnown(l) => PartsKnown(o.lw))
           /\ o.err = "OK" => FirstGone(l, o.lw, r) /\ o.lw.stuck = l.stuck
           /\ o.err = "EIO" => o.lw.mp = l.mp /\ o.lw.stuck
<1> DEFINE f == Lowest(Named(l, r))
           gone == [l.mp[f] EXCEPT !.mounted = FALSE]
<1>1. PICK k \in Named(l, r) : l.mp[k].mounted /\ \A t \in Named(l, r) : k <= t
  BY DEF FirstIsMounted
<1>2. f \in Named(l, r) /\ \A t \in Named(l, r) : f <= t
  BY <1>1, LowestSlot DEF Named
<1>3. f = k
  <2> HIDE DEF f
  <2>1. f \in Int /\ k \in Int /\ f <= k /\ k <= f
    BY <1>1, <1>2, MountAssumption DEF Named, MpSlot
  <2> QED BY <2>1
<1>4. f \in MpSlot /\ l.mp[f].name = r /\ l.mp[f].mounted
  BY <1>1, <1>3 DEF Named
<1>5. gone \in Slots /\ ~gone.mounted /\ gone.name = r
  BY <1>4 DEF Slots, Lwext4
<1>6. Named(l, r) = {s \in MpSlot : l.mp[s].name = r} /\ Named(l, r) # {}
  BY <1>1 DEF Named
<1>7. \/ o = Outcome("OK", Written(l, f, gone))
      \/ o = Outcome("EIO", [l EXCEPT !.stuck = TRUE])
  BY <1>4, <1>6 DEF ExtUmount, Written, Lwext4
<1> HIDE DEF f, gone
<1>8. CASE o = Outcome("OK", Written(l, f, gone))
  <2>1. OthersKept(l, Written(l, f, gone), r)
    BY <1>4, <1>5, OtherSlotWritten DEF OthersKept
  <2>2. FirstGone(l, Written(l, f, gone), r)
    BY <1>2, <1>4, <1>5, SlotWritten DEF FirstGone
  <2>3. PartsKnown(l) => PartsKnown(Written(l, f, gone))
    BY <1>4, <1>5, SlotWritten DEF PartsKnown, Mounted
  <2> QED BY <1>4, <1>5, <1>8, <2>1, <2>2, <2>3, SlotWritten DEF Outcome
<1>9. CASE o = Outcome("EIO", [l EXCEPT !.stuck = TRUE])
  <2> DEFINE m == [l EXCEPT !.stuck = TRUE]
  <2>1. m \in Lwext4 /\ m.bdevices = l.bdevices /\ m.mp = l.mp /\ m.stuck
    BY DEF Lwext4
  <2> HIDE DEF m
  <2>2. OthersKept(l, m, r)
    BY <2>1 DEF OthersKept, FirstIsMounted, Named
  <2>3. o = Outcome("EIO", m)
    BY <1>9 DEF m
  <2>4. PartsKnown(l) => PartsKnown(m)
    BY <2>1, SlotsOnly DEF PartsKnown
  <2> QED BY <2>1, <2>2, <2>3, <2>4 DEF Outcome
<1> QED BY <1>7, <1>8, <1>9

\* filesystem_lwext4::mount: on success the device is registered and the root has
\* its slot; on failure the devices are those from before, and so are the mounted
\* slots unless the way back failed.
LEMMA FsMountOutcome ==
    ASSUME NEW l \in Lwext4, NEW p \in Part, NEW r \in Root, NEW o \in FsMount(l, p, r),
           Cardinality(l.bdevices) <= DevCount
    PROVE  /\ o.lw \in Lwext4 /\ Cardinality(o.lw.bdevices) <= DevCount /\ o.err \in Errno
           /\ OthersKept(l, o.lw, r) /\ (PartsKnown(l) => PartsKnown(o.lw))
           /\ l.stuck => o.lw.stuck
           /\ o.err # "OK" =>
                /\ o.lw.bdevices = l.bdevices
                /\ NoneMounted(l, r) => o.lw.stuck \/ SameMounted(l, o.lw)
           /\ o.err = "OK" =>
                /\ p \notin l.bdevices /\ o.lw.bdevices = l.bdevices \cup {p}
                /\ FirstIsMounted(o.lw, r)
                /\ NoneMounted(l, r) => OneMoreMounted(l, o.lw, p, r)
<1> DEFINE reg == [l EXCEPT !.bdevices = l.bdevices \cup {p}]
<1>1. CASE o.lw = l /\ o.err \in {"EEXIST", "ENOSPC"}
  BY <1>1 DEF OthersKept, Errno, SameMounted
<1>2. CASE p \notin l.bdevices /\ ~(Cardinality(l.bdevices) >= DevCount)
  <2>1. l.bdevices \subseteq Part
    BY DEF Lwext4
  <2>2. /\ reg \in Lwext4 /\ reg.mp = l.mp /\ reg.stuck = l.stuck
        /\ reg.bdevices = l.bdevices \cup {p}
    BY <2>1, DevicesChanged
  <2>3. Cardinality(l.bdevices \cup {p}) <= DevCount
    <3>1. IsFiniteSet(l.bdevices)
      BY <2>1, FS_Subset, MountAssumption
    <3>2. Cardinality(l.bdevices) \in Nat
      BY <3>1, FS_CardinalityType
    <3>3. Cardinality(l.bdevices \cup {p}) = Cardinality(l.bdevices) + 1
      BY <1>2, <3>1, FS_AddElement
    <3>4. ~(Cardinality(l.bdevices) >= DevCount) /\ DevCount \in Nat
      BY <1>2, MountAssumption
    <3> QED BY <3>2, <3>3, <3>4
  <2>4. PICK x \in ExtMount(reg, p, r) :
            o \in IF x.err = "OK" THEN {x} \cup RolledBack(x.lw, p, r)
                  ELSE {Outcome(x.err, Unregistered(x.lw, p))}
    BY <1>2 DEF FsMount
  <2> HIDE DEF reg
  <2>5. /\ x = Outcome(x.err, x.lw) /\ x.lw \in Lwext4 /\ x.err \in Errno
        /\ x.lw.bdevices = l.bdevices \cup {p} /\ x.lw.stuck = l.stuck
        /\ OthersKept(l, x.lw, r) /\ (PartsKnown(l) => PartsKnown(x.lw))
        /\ x.err # "OK" => SameMounted(l, x.lw)
        /\ x.err = "OK" => /\ FirstIsMounted(x.lw, r)
                           /\ NoneMounted(l, r) => OneMoreMounted(l, x.lw, p, r)
    <3>1. /\ x = Outcome(x.err, x.lw) /\ x.lw \in Lwext4 /\ x.err \in Errno
          /\ x.lw.bdevices = reg.bdevices /\ x.lw.stuck = reg.stuck
          /\ OthersKept(reg, x.lw, r) /\ (PartsKnown(reg) => PartsKnown(x.lw))
          /\ x.err # "OK" => SameMounted(reg, x.lw)
          /\ x.err = "OK" => /\ FirstIsMounted(x.lw, r)
                             /\ NoneMounted(reg, r) => OneMoreMounted(reg, x.lw, p, r)
      BY <2>2, <2>4, ExtMountOutcome
    <3>2. NoneMounted(l, r) <=> NoneMounted(reg, r)
      BY <2>2, SlotsOnly
    <3>3. OthersKept(reg, x.lw, r) <=> OthersKept(l, x.lw, r)
      BY <2>2, SlotsOnly DEF OthersKept
    <3>4. SameMounted(reg, x.lw) <=> SameMounted(l, x.lw)
      BY <2>2 DEF SameMounted
    <3>5. OneMoreMounted(reg, x.lw, p, r) <=> OneMoreMounted(l, x.lw, p, r)
      BY <2>2 DEF OneMoreMounted
    <3>6. PartsKnown(reg) <=> PartsKnown(l)
      BY <2>2, SlotsOnly
    <3> QED BY <2>2, <3>1, <3>2, <3>3, <3>4, <3>5, <3>6
  <2>6. CASE o = x /\ x.err = "OK"
    BY <1>2, <2>3, <2>5, <2>6
  <2>7. ASSUME NEW m \in Lwext4, NEW e \in Errno \ {"OK"}, o = Outcome(e, Unregistered(m, p)),
               m.bdevices = l.bdevices \cup {p}, OthersKept(l, m, r), l.stuck => m.stuck,
               PartsKnown(l) => PartsKnown(m),
               NoneMounted(l, r) => m.stuck \/ SameMounted(l, m)
        PROVE  /\ o.lw \in Lwext4 /\ o.lw.bdevices = l.bdevices /\ o.err = e
               /\ OthersKept(l, o.lw, r) /\ (l.stuck => o.lw.stuck)
               /\ PartsKnown(l) => PartsKnown(o.lw)
               /\ NoneMounted(l, r) => o.lw.stuck \/ SameMounted(l, o.lw)
    <3>1. m.bdevices \ {p} = l.bdevices
      BY <1>2, <2>7
    <3>2. Unregistered(m, p) = [m EXCEPT !.bdevices = l.bdevices]
      BY <3>1 DEF Unregistered
    <3>3. /\ Unregistered(m, p) \in Lwext4 /\ Unregistered(m, p).mp = m.mp
          /\ Unregistered(m, p).stuck = m.stuck /\ Unregistered(m, p).bdevices = l.bdevices
      BY <2>1, <3>2, DevicesChanged
    <3>4. OthersKept(l, Unregistered(m, p), r)
      BY <2>7, <3>3, SlotsOnly DEF OthersKept
    <3>5. SameMounted(l, m) <=> SameMounted(l, Unregistered(m, p))
      BY <3>3 DEF SameMounted
    <3>6. PartsKnown(m) <=> PartsKnown(Unregistered(m, p))
      BY <3>3, SlotsOnly
    <3> QED BY <2>7, <3>3, <3>4, <3>5, <3>6 DEF Outcome
  <2>8. Cardinality(l.bdevices) <= DevCount /\ Errno \ {"OK"} \subseteq Errno
    OBVIOUS
  <2>9. CASE x.err # "OK"
    <3>1. o = Outcome(x.err, Unregistered(x.lw, p))
      BY <2>4, <2>9
    <3> QED BY <2>5, <2>7, <2>8, <2>9, <3>1
  <2>10. CASE x.err = "OK" /\ o \in RolledBack(x.lw, p, r)
    <3>1. PICK u \in ExtUmount(x.lw, r) : o = Outcome("EIO", Unregistered(u.lw, p))
      BY <2>10 DEF RolledBack
    <3>2. /\ u.lw \in Lwext4 /\ u.err \in {"OK", "EIO"} /\ u.lw.bdevices = x.lw.bdevices
          /\ OthersKept(x.lw, u.lw, r) /\ (PartsKnown(x.lw) => PartsKnown(u.lw))
          /\ u.err = "OK" => FirstGone(x.lw, u.lw, r) /\ u.lw.stuck = x.lw.stuck
          /\ u.err = "EIO" => u.lw.mp = x.lw.mp /\ u.lw.stuck
      BY <2>5, <2>10, <3>1, ExtUmountOutcome
    <3>3. OthersKept(l, u.lw, r)
      BY <2>5, <3>2 DEF OthersKept
    <3>4. ASSUME NoneMounted(l, r), u.err = "OK"
          PROVE  SameMounted(l, u.lw)
      <4>1. PICK f \in MpSlot : /\ ~l.mp[f].mounted
                                /\ \A s \in MpSlot \ {f} : x.lw.mp[s] = l.mp[s]
        BY <2>5, <2>10, <3>4 DEF OneMoreMounted
      <4>2. PICK g \in Named(x.lw, r) : /\ x.lw.mp[g].mounted /\ ~u.lw.mp[g].mounted
                                        /\ \A s \in MpSlot \ {g} : u.lw.mp[s] = x.lw.mp[s]
        BY <3>2, <3>4 DEF FirstGone
      <4>3. g = f
        BY <3>4, <4>1, <4>2 DEF Named, NoneMounted, Mounted
      <4> QED BY <4>1, <4>2, <4>3 DEF SameMounted
    <3>5. NoneMounted(l, r) => u.lw.stuck \/ SameMounted(l, u.lw)
      BY <3>2, <3>4
    <3>6. l.stuck => u.lw.stuck
      BY <2>5, <3>2
    <3>7. PartsKnown(l) => PartsKnown(u.lw)
      BY <2>5, <3>2
    <3>8. "EIO" \in Errno \ {"OK"}
      BY DEF Errno
    <3> QED BY <2>5, <2>7, <2>8, <3>1, <3>2, <3>3, <3>5, <3>6, <3>7, <3>8
  <2> QED BY <2>4, <2>6, <2>9, <2>10
<1> QED
  <2>1. \/ o = Outcome("EEXIST", l) \/ o = Outcome("ENOSPC", l)
        \/ p \notin l.bdevices /\ ~(Cardinality(l.bdevices) >= DevCount)
    BY DEF FsMount
  <2> QED BY <1>1, <1>2, <2>1 DEF Outcome

\* filesystem_lwext4::unmount of a mounted root: slot and device go, or neither.
LEMMA FsUnmountOutcome ==
    ASSUME NEW l \in Lwext4, NEW p \in Part, NEW r \in Root, NEW o \in FsUnmount(l, p, r),
           Cardinality(l.bdevices) <= DevCount, FirstIsMounted(l, r), p \in l.bdevices
    PROVE  /\ o.lw \in Lwext4 /\ Cardinality(o.lw.bdevices) <= DevCount /\ o.err \in {"OK", "EIO"}
           /\ OthersKept(l, o.lw, r) /\ (PartsKnown(l) => PartsKnown(o.lw))
           /\ o.err = "OK" => /\ o.lw.bdevices = l.bdevices \ {p} /\ o.lw.stuck = l.stuck
                              /\ FirstGone(l, o.lw, r)
           /\ o.err = "EIO" => o.lw.bdevices = l.bdevices /\ o.lw.mp = l.mp /\ o.lw.stuck
<1>1. PICK u \in ExtUmount(l, r) :
          o = IF u.err # "OK" THEN u
              ELSE Outcome(IF p \in u.lw.bdevices THEN "OK" ELSE "ENOENT", Unregistered(u.lw, p))
  BY DEF FsUnmount
<1>2. /\ u.lw \in Lwext4 /\ u.err \in {"OK", "EIO"}
      /\ u.lw.bdevices = l.bdevices
      /\ OthersKept(l, u.lw, r) /\ (PartsKnown(l) => PartsKnown(u.lw))
      /\ u.err = "OK" => FirstGone(l, u.lw, r) /\ u.lw.stuck = l.stuck
      /\ u.err = "EIO" => u.lw.mp = l.mp /\ u.lw.stuck
  BY <1>1, ExtUmountOutcome
<1>3. CASE u.err = "EIO"
  BY <1>1, <1>2, <1>3
<1>4. CASE u.err = "OK"
  <2>1. o = Outcome("OK", [u.lw EXCEPT !.bdevices = l.bdevices \ {p}])
    BY <1>1, <1>2, <1>4 DEF Unregistered
  <2>2. l.bdevices \ {p} \in SUBSET Part /\ IsFiniteSet(l.bdevices)
    BY FS_Subset, MountAssumption DEF Lwext4
  <2>3. /\ o.lw \in Lwext4 /\ o.lw.bdevices = l.bdevices \ {p}
        /\ o.lw.mp = u.lw.mp /\ o.lw.stuck = u.lw.stuck
    BY <1>2, <2>1, <2>2, DevicesChanged DEF Outcome
  <2>4. Cardinality(o.lw.bdevices) <= DevCount
    <3>1. Cardinality(l.bdevices \ {p}) <= Cardinality(l.bdevices)
      BY <2>2, FS_Subset
    <3>2. Cardinality(l.bdevices \ {p}) \in Nat /\ Cardinality(l.bdevices) \in Nat
      BY <2>2, FS_Subset, FS_CardinalityType
    <3> QED BY <2>3, <3>1, <3>2, MountAssumption
  <2>5. OthersKept(l, o.lw, r)
    BY <1>2, <2>3, SlotsOnly DEF OthersKept
  <2>6. FirstGone(l, o.lw, r)
    BY <1>2, <1>4, <2>3 DEF FirstGone
  <2>7. PartsKnown(l) => PartsKnown(o.lw)
    BY <1>2, <2>3, SlotsOnly
  <2> QED BY <1>2, <1>4, <2>1, <2>3, <2>4, <2>5, <2>6, <2>7 DEF Outcome
<1> QED BY <1>2, <1>3, <1>4

-----------------------------------------------------------------------------
(* What mount and umount keep.                                             *)

\* m_mounts with a root more.
WithRoot(m, r, p) == [q \in DOMAIN m \cup {r} |-> IF q = r THEN p ELSE m[q]]

\* The map and the tables between calls.
Consistent(l, m) ==
    /\ DOMAIN m \subseteq Root /\ m \in [DOMAIN m -> Part]
    /\ l \in Lwext4 /\ Cardinality(l.bdevices) <= DevCount /\ PartsKnown(l)
    /\ \A q, r \in DOMAIN m : m[q] = m[r] => q = r
    /\ Reached(l, m, DOMAIN m)
    /\ l.stuck \/ Exact(l, m, DOMAIN m)

\* A root that is mounted joins the others.
LEMMA RootJoins ==
    ASSUME NEW l, NEW m, Consistent(l, m), NEW p \in Part, NEW r \in Root \ DOMAIN m,
           NEW o \in FsMount(l, p, r), o.err = "OK"
    PROVE  Consistent(o.lw, WithRoot(m, r, p))
<1> DEFINE w == WithRoot(m, r, p)
<1>1. /\ DOMAIN w = DOMAIN m \cup {r} /\ w[r] = p /\ \A q \in DOMAIN m : w[q] = m[q]
      /\ DOMAIN w \subseteq Root /\ w \in [DOMAIN w -> Part]
  BY DEF WithRoot, Consistent
<1> HIDE DEF w
<1>2. /\ o.lw \in Lwext4 /\ Cardinality(o.lw.bdevices) <= DevCount /\ PartsKnown(o.lw)
      /\ OthersKept(l, o.lw, r)
      /\ l.stuck => o.lw.stuck
      /\ p \notin l.bdevices /\ o.lw.bdevices = l.bdevices \cup {p}
      /\ FirstIsMounted(o.lw, r)
      /\ NoneMounted(l, r) => OneMoreMounted(l, o.lw, p, r)
  BY FsMountOutcome DEF Consistent
<1>3. \A q \in DOMAIN m : m[q] \in l.bdevices
  BY DEF Consistent, Reached
<1>4. \A q, s \in DOMAIN w : w[q] = w[s] => q = s
  BY <1>1, <1>2, <1>3 DEF Consistent
<1>5. Reached(o.lw, w, DOMAIN w)
  <2>1. \A q \in DOMAIN m : q \in Root \ {r} /\ FirstIsMounted(l, q)
    BY DEF Consistent, Reached
  <2> QED BY <1>1, <1>2, <1>3, <2>1 DEF Reached, OthersKept
<1>6. ASSUME ~o.lw.stuck PROVE Exact(o.lw, w, DOMAIN w)
  <2>1. Exact(l, m, DOMAIN m)
    BY <1>2, <1>6 DEF Consistent
  <2>2. NoneMounted(l, r)
    BY <2>1 DEF Exact, NoneMounted
  <2>3. PICK f \in MpSlot : /\ ~l.mp[f].mounted
                            /\ o.lw.mp[f] = [name |-> r, part |-> p, mounted |-> TRUE]
                            /\ \A s \in MpSlot \ {f} : o.lw.mp[s] = l.mp[s]
    BY <1>2, <2>2 DEF OneMoreMounted
  <2>4. \A s \in Mounted(o.lw) : s = f \/ (s \in Mounted(l) /\ o.lw.mp[s] = l.mp[s])
    BY <2>3 DEF Mounted
  <2>5. o.lw.mp[f].name = r /\ o.lw.mp[f].part = p
    BY <2>3
  <2>6. \A s \in Mounted(o.lw) :
            o.lw.mp[s].name \in DOMAIN w /\ o.lw.mp[s].part = w[o.lw.mp[s].name]
    BY <1>1, <2>1, <2>4, <2>5 DEF Exact
  <2>7. \A s, t \in Mounted(o.lw) : o.lw.mp[s].name = o.lw.mp[t].name => s = t
    BY <2>1, <2>2, <2>4, <2>5 DEF Exact, NoneMounted
  <2>8. \A x \in o.lw.bdevices : \E q \in DOMAIN w : w[q] = x
    BY <1>1, <1>2, <2>1 DEF Exact
  <2> QED BY <2>6, <2>7, <2>8 DEF Exact
<1> QED BY <1>1, <1>2, <1>4, <1>5, <1>6 DEF Consistent, w

\* A mount that fails leaves things as they were, or the tables stuck.
LEMMA MountFails ==
    ASSUME NEW l, NEW m, Consistent(l, m), NEW p \in Part, NEW r \in Root \ DOMAIN m,
           NEW o \in FsMount(l, p, r), o.err # "OK"
    PROVE  Consistent(o.lw, m)
<1>1. /\ o.lw \in Lwext4 /\ Cardinality(o.lw.bdevices) <= DevCount /\ PartsKnown(o.lw)
      /\ OthersKept(l, o.lw, r)
      /\ l.stuck => o.lw.stuck
      /\ o.lw.bdevices = l.bdevices
      /\ NoneMounted(l, r) => o.lw.stuck \/ SameMounted(l, o.lw)
  BY FsMountOutcome DEF Consistent
<1>2. Reached(o.lw, m, DOMAIN m)
  <2>1. \A q \in DOMAIN m : q \in Root \ {r} /\ FirstIsMounted(l, q) /\ m[q] \in l.bdevices
    BY DEF Consistent, Reached
  <2> QED BY <1>1, <2>1 DEF Reached, OthersKept
<1>3. ASSUME ~o.lw.stuck PROVE Exact(o.lw, m, DOMAIN m)
  <2>1. Exact(l, m, DOMAIN m)
    BY <1>1, <1>3 DEF Consistent
  <2>2. NoneMounted(l, r)
    BY <2>1 DEF Exact, NoneMounted
  <2>3. \A s \in Mounted(o.lw) : s \in Mounted(l) /\ o.lw.mp[s] = l.mp[s]
    BY <1>1, <1>3, <2>2 DEF SameMounted, Mounted
  <2> QED BY <1>1, <2>1, <2>3 DEF Exact
<1> QED BY <1>1, <1>2, <1>3 DEF Consistent

\* A root that is unmounted leaves the others, or the tables are stuck.
LEMMA RootLeaves ==
    ASSUME NEW l \in Lwext4, NEW m, DOMAIN m \subseteq Root, m \in [DOMAIN m -> Part],
           Cardinality(l.bdevices) <= DevCount, PartsKnown(l),
           \A q, s \in DOMAIN m : m[q] = m[s] => q = s,
           NEW R \in SUBSET DOMAIN m, Reached(l, m, R), l.stuck \/ Exact(l, m, R),
           NEW r \in R, NEW o \in FsUnmount(l, m[r], r)
    PROVE  /\ o.lw \in Lwext4 /\ Cardinality(o.lw.bdevices) <= DevCount /\ o.err \in {"OK", "EIO"}
           /\ PartsKnown(o.lw)
           /\ o.err = "OK" => Reached(o.lw, m, R \ {r}) /\ (o.lw.stuck \/ Exact(o.lw, m, R \ {r}))
           /\ o.err = "EIO" => Reached(o.lw, m, R) /\ o.lw.stuck
<1>1. /\ o.lw \in Lwext4 /\ Cardinality(o.lw.bdevices) <= DevCount /\ o.err \in {"OK", "EIO"}
      /\ OthersKept(l, o.lw, r) /\ PartsKnown(o.lw)
      /\ o.err = "OK" => /\ o.lw.bdevices = l.bdevices \ {m[r]} /\ o.lw.stuck = l.stuck
                         /\ FirstGone(l, o.lw, r)
      /\ o.err = "EIO" => o.lw.bdevices = l.bdevices /\ o.lw.mp = l.mp /\ o.lw.stuck
  <2>1. m[r] \in Part /\ r \in Root /\ FirstIsMounted(l, r) /\ m[r] \in l.bdevices
    BY DEF Reached
  <2> QED BY <2>1, FsUnmountOutcome
<1>2. ASSUME o.err = "OK" PROVE Reached(o.lw, m, R \ {r})
  <2>1. \A q \in R \ {r} : q \in Root \ {r} /\ FirstIsMounted(l, q) /\ m[q] \in l.bdevices /\ m[q] # m[r]
    BY DEF Reached
  <2> QED BY <1>1, <1>2, <2>1 DEF Reached, OthersKept
<1>3. ASSUME o.err = "OK", ~o.lw.stuck PROVE Exact(o.lw, m, R \ {r})
  <2>1. Exact(l, m, R)
    BY <1>1, <1>3
  <2>2. PICK f \in Named(l, r) : /\ l.mp[f].mounted /\ ~o.lw.mp[f].mounted
                                 /\ \A s \in MpSlot \ {f} : o.lw.mp[s] = l.mp[s]
    BY <1>1, <1>3 DEF FirstGone
  <2>3. \A s \in Mounted(o.lw) : s # f /\ s \in Mounted(l) /\ o.lw.mp[s] = l.mp[s]
    BY <2>2 DEF Mounted
  <2>4. f \in Mounted(l) /\ l.mp[f].name = r
    BY <2>2 DEF Mounted, Named
  <2>5. \A s \in Mounted(o.lw) : o.lw.mp[s].name # r
    BY <2>1, <2>3, <2>4 DEF Exact
  <2>6. \A x \in o.lw.bdevices : x \in l.bdevices /\ x # m[r]
    BY <1>1, <1>3
  <2>7. \A x \in o.lw.bdevices : \E q \in R \ {r} : m[q] = x
    BY <2>1, <2>6 DEF Exact
  <2> QED BY <2>1, <2>3, <2>5, <2>7 DEF Exact
<1>4. ASSUME o.err = "EIO" PROVE Reached(o.lw, m, R)
  BY <1>1, <1>4, SlotsOnly DEF Reached
<1> QED BY <1>1, <1>2, <1>3, <1>4

-----------------------------------------------------------------------------
(* The invariant.                                                          *)

\* The invariant between calls and during mount_all.
LEMMA LiveRoots ==
    ASSUME IInv, job.call # "umount_all"
    PROVE  Consistent(lw, m_mounts) /\ Live = DOMAIN m_mounts
BY DEF IInv, Types, MountedOnce, Live, Consistent

\* What VirtualFS::mount does in one step.
LEMMA MountStep ==
    ASSUME IInv, job.call # "umount_all", NEW p \in Part, NEW named \in UserRoot \cup {Nothing},
           NEW o \in MountOutcomes(p, named)
    PROVE  /\ Consistent(o.lw, o.mounts) /\ o.next \in Nat /\ o.err \in Errno
           /\ \A q \in DOMAIN m_mounts : q \in DOMAIN o.mounts /\ o.mounts[q] = m_mounts[q]
           /\ o.err = "OK" => \E q \in DOMAIN o.mounts : o.mounts[q] = p
<1>1. Consistent(lw, m_mounts) /\ m_volume_index \in Nat
  BY LiveRoots DEF IInv, Types
<1>2. \A c \in RootChoices(p, named) : c.root \in Root /\ c.next \in Nat
  BY <1>1, MountAssumption DEF RootChoices
<1>3. \/ /\ o.mounts = m_mounts /\ o.lw = lw /\ o.next \in Nat /\ o.err \in {"EINVAL", "EEXIST"}
      \/ \E c \in RootChoices(p, named) : \E x \in FsMount(lw, p, c.root) :
            /\ c.root \notin DOMAIN m_mounts
            /\ o = [err |-> x.err, next |-> c.next, lw |-> x.lw,
                    mounts |-> IF x.err # "OK" THEN m_mounts ELSE WithRoot(m_mounts, c.root, p)]
  BY <1>1, <1>2 DEF MountOutcomes, WithRoot
<1>4. CASE o.mounts = m_mounts /\ o.lw = lw /\ o.next \in Nat /\ o.err \in {"EINVAL", "EEXIST"}
  BY <1>1, <1>4 DEF Errno
<1>5. CASE \E c \in RootChoices(p, named) : \E x \in FsMount(lw, p, c.root) :
            /\ c.root \notin DOMAIN m_mounts
            /\ o = [err |-> x.err, next |-> c.next, lw |-> x.lw,
                    mounts |-> IF x.err # "OK" THEN m_mounts ELSE WithRoot(m_mounts, c.root, p)]
  <2> PICK c \in RootChoices(p, named) : \E x \in FsMount(lw, p, c.root) :
            /\ c.root \notin DOMAIN m_mounts
            /\ o = [err |-> x.err, next |-> c.next, lw |-> x.lw,
                    mounts |-> IF x.err # "OK" THEN m_mounts ELSE WithRoot(m_mounts, c.root, p)]
    BY <1>5
  <2>1. PICK x \in FsMount(lw, p, c.root) :
            /\ c.root \notin DOMAIN m_mounts
            /\ o = [err |-> x.err, next |-> c.next, lw |-> x.lw,
                    mounts |-> IF x.err # "OK" THEN m_mounts ELSE WithRoot(m_mounts, c.root, p)]
    OBVIOUS
  <2>2. c.root \in Root \ DOMAIN m_mounts /\ c.next \in Nat
    BY <1>2, <2>1
  <2>3. x.err \in Errno
    BY <1>1, <2>2, FsMountOutcome DEF Consistent
  <2>4. CASE x.err # "OK"
    BY <1>1, <2>1, <2>2, <2>3, <2>4, MountFails
  <2>5. CASE x.err = "OK"
    <3>1. Consistent(x.lw, WithRoot(m_mounts, c.root, p))
      BY <1>1, <2>2, <2>5, RootJoins
    <3>2. /\ \A q \in DOMAIN m_mounts : /\ q \in DOMAIN WithRoot(m_mounts, c.root, p)
                                        /\ WithRoot(m_mounts, c.root, p)[q] = m_mounts[q]
          /\ c.root \in DOMAIN WithRoot(m_mounts, c.root, p)
          /\ WithRoot(m_mounts, c.root, p)[c.root] = p
      BY <2>2 DEF WithRoot
    <3> QED BY <2>1, <2>2, <2>3, <2>5, <3>1, <3>2
  <2> QED BY <2>4, <2>5
<1> QED BY <1>3, <1>4, <1>5

\* Steps that touch neither the tables nor the job.
LEMMA TablesUntouched ==
    ASSUME IInv, UNCHANGED <<m_mounts, lw, job>>,
           m_fs_factories' \subseteq FsType, m_volume_index' \in Nat, alien' \subseteq Part,
           crashed' \in BOOLEAN, last'.err \in Errno
    PROVE  IInv'
BY DEF IInv, Types, JobTodo, MountedOnce, Reached, Exact, Live, Done, PartsKnown, Mounted,
       FirstIsMounted, Named

\* Steps that end with the map and the tables consistent, and no umount_all.
LEMMA ConsistentAgain ==
    ASSUME Consistent(lw', m_mounts'), job'.call # "umount_all", job' \in Jobs,
           m_fs_factories' \subseteq FsType, m_volume_index' \in Nat, alien' \subseteq Part,
           crashed' \in BOOLEAN, last'.err \in Errno, JobTodo', Done'
    PROVE  IInv'
<1>1. Live' = DOMAIN m_mounts'
  BY DEF Live
<1>2. Types' /\ MountedOnce'
  BY DEF Consistent, Types, MountedOnce
<1>3. /\ Reached(lw, m_mounts, Live)' /\ PartsKnown(lw)'
      /\ (lw.stuck \/ Exact(lw, m_mounts, Live))'
  BY <1>1 DEF Consistent, Reached, Exact, PartsKnown, FirstIsMounted, Named, Mounted
<1> QED BY <1>2, <1>3 DEF IInv

\* register_filesystem, unregister_filesystem, and the calls on paths.
LEMMA OtherCallsKeep ==
    ASSUME IInv,
           \/ \E t \in FsType : RegisterFilesystem(t) \/ UnregisterFilesystem(t)
           \/ \E p \in Part : FollowNull(p)
           \/ PathNext
           \/ UNCHANGED vars
    PROVE  IInv'
<1> USE DEF vfs, vars, Return
<1>1. Types
  BY DEF IInv
<1>2. CASE \E t \in FsType : RegisterFilesystem(t) \/ UnregisterFilesystem(t)
  <2>1. last'.err \in Errno /\ m_fs_factories' \subseteq FsType
    BY <1>1, <1>2 DEF RegisterFilesystem, UnregisterFilesystem, Types, Errno
  <2>2. UNCHANGED <<m_mounts, m_volume_index, lw, job, alien, crashed>>
    BY <1>2 DEF RegisterFilesystem, UnregisterFilesystem
  <2> QED BY <1>1, <2>1, <2>2, TablesUntouched DEF Types
<1>3. CASE \E p \in Part : FollowNull(p)
  <2>1. UNCHANGED <<vfs, lw, job, alien, last>> /\ crashed' = TRUE
    BY <1>3 DEF FollowNull
  <2> QED BY <1>1, <2>1, TablesUntouched DEF Types
<1>4. CASE PathNext
  <2>1. UNCHANGED <<vfs, lw, job, crashed>>
    BY <1>4 DEF PathNext, StatPartsOf, Rename
  <2>2. last'.err \in Errno
    BY <1>4 DEF PathNext, StatPartsOf, Rename, Errno
  <2>3. ASSUME NEW q, NEW r, Rename(q, r) PROVE alien' \subseteq Part
    <3>1. \A t \in LwMount(r) : lw.mp[t].part \in Part
      BY DEF LwMount, IInv, PartsKnown
    <3>2. alien \subseteq Part
      BY <1>1 DEF Types
    <3> QED BY <2>3, <3>1, <3>2 DEF Rename
  <2>4. alien' \subseteq Part
    BY <1>1, <1>4, <2>3 DEF PathNext, StatPartsOf, Types
  <2> QED BY <1>1, <2>1, <2>2, <2>4, TablesUntouched DEF Types
<1>5. CASE UNCHANGED vars
  BY <1>1, <1>5, TablesUntouched DEF Types
<1> QED BY <1>2, <1>3, <1>4, <1>5

\* mount and mount_all.
LEMMA MountKeeps ==
    ASSUME IInv, NEW p \in Part, NEW named \in UserRoot \cup {Nothing}, Mount(p, named)
    PROVE  IInv'
<1>1. PICK o \in MountOutcomes(p, named) : MountedAs(o) /\ Return("mount", p, named, o.err)
  BY DEF Mount
<1>2. job' = job /\ job = NoJob /\ Types
  BY DEF Mount, Idle, IInv
<1>3. job.call = "none" /\ job.todo = {}
  BY <1>2 DEF NoJob
<1>4. Consistent(o.lw, o.mounts) /\ o.next \in Nat /\ o.err \in Errno
  BY <1>3, MountStep
<1>5. /\ Consistent(lw', m_mounts') /\ m_volume_index' \in Nat /\ last'.err \in Errno
      /\ UNCHANGED <<m_fs_factories, alien, crashed>>
  BY <1>1, <1>4 DEF MountedAs, Return
<1> QED BY <1>2, <1>3, <1>5, ConsistentAgain DEF Types, JobTodo, Done

LEMMA MountAllBeginKeeps ==
    ASSUME IInv, MountAllBegin
    PROVE  IInv'
<1>1. /\ UNCHANGED <<vfs, lw, alien, crashed, last>> /\ Types
      /\ job' = [call |-> "mount_all", todo |-> Part, err |-> "OK"]
  BY DEF MountAllBegin, IInv
<1>2. Consistent(lw, m_mounts)
  BY LiveRoots DEF MountAllBegin, Idle, NoJob
<1>3. job'.call = "mount_all" /\ job'.todo = Part /\ job' \in Jobs
  BY <1>1 DEF Jobs, Errno
<1> QED BY <1>1, <1>2, <1>3, ConsistentAgain DEF vfs, Types, JobTodo, Done

LEMMA MountAllNextKeeps ==
    ASSUME IInv, NEW p \in Part, MountAllNext(p)
    PROVE  IInv'
<1>1. PICK o \in MountOutcomes(p, Nothing) :
          MountedAs(o) /\ job' = [job EXCEPT !.todo = @ \ {p}, !.err = FirstError(@, o.err)]
  BY DEF MountAllNext
<1>2. job.call = "mount_all" /\ last' = last /\ Types /\ job.todo \subseteq Part
  BY DEF MountAllNext, IInv, JobTodo
<1>3. /\ Consistent(o.lw, o.mounts) /\ o.next \in Nat /\ o.err \in Errno
      /\ \A q \in DOMAIN m_mounts : q \in DOMAIN o.mounts /\ o.mounts[q] = m_mounts[q]
      /\ o.err = "OK" => \E q \in DOMAIN o.mounts : o.mounts[q] = p
  BY <1>2, MountStep
<1>4. /\ Consistent(lw', m_mounts') /\ m_volume_index' \in Nat /\ last'.err \in Errno
      /\ UNCHANGED <<m_fs_factories, alien, crashed>> /\ m_mounts' = o.mounts
  BY <1>1, <1>2, <1>3 DEF MountedAs, Types
<1>5. /\ job'.call = "mount_all" /\ job'.todo = job.todo \ {p}
      /\ job'.err = FirstError(job.err, o.err) /\ job' \in Jobs
  BY <1>1, <1>2, <1>3 DEF Types, Jobs, FirstError
<1>6. Done'
  <2>1. SUFFICES ASSUME job'.err = "OK", NEW x \in Part \ job'.todo
                 PROVE  \E r \in DOMAIN m_mounts' : m_mounts'[r] = x
    BY DEF Done
  <2>2. job.err = "OK" /\ o.err = "OK"
    BY <1>5, <2>1 DEF FirstError
  <2>3. x = p \/ \E r \in DOMAIN m_mounts : m_mounts[r] = x
    BY <1>2, <1>5, <2>1, <2>2 DEF IInv, Done
  <2> QED BY <1>3, <1>4, <2>2, <2>3
<1>7. JobTodo'
  BY <1>2, <1>5 DEF JobTodo
<1> QED BY <1>2, <1>4, <1>5, <1>6, <1>7, ConsistentAgain DEF Types

LEMMA MountAllEndKeeps ==
    ASSUME IInv, MountAllEnd
    PROVE  IInv'
<1>1. UNCHANGED <<vfs, lw, alien, crashed>> /\ Types /\ job' = NoJob /\ last'.err = job.err
  BY DEF MountAllEnd, IInv, Return
<1>2. Consistent(lw, m_mounts)
  BY LiveRoots DEF MountAllEnd
<1>3. job'.call = "none" /\ job' \in Jobs /\ job.err \in Errno
  BY <1>1 DEF NoJob, Jobs, Errno, Types
<1> QED BY <1>1, <1>2, <1>3, ConsistentAgain DEF vfs, Types, JobTodo, Done

\* umount.
LEMMA UmountKeeps ==
    ASSUME IInv, NEW r \in Root, Umount(r)
    PROVE  IInv'
<1>1. job' = job /\ job.call = "none" /\ job = NoJob /\ Types /\ UNCHANGED <<m_fs_factories, m_volume_index, alien, crashed>>
  BY DEF Umount, Idle, NoJob, IInv
<1>2. Consistent(lw, m_mounts)
  BY <1>1, LiveRoots
<1>3. CASE r \notin DOMAIN m_mounts
  <2>1. UNCHANGED <<m_mounts, lw>> /\ last'.err = "EINVAL"
    BY <1>3 DEF Umount, Return
  <2> QED BY <1>1, <2>1, TablesUntouched DEF Types, Errno
<1>4. CASE r \in DOMAIN m_mounts
  <2> DEFINE rest == DOMAIN m_mounts \ {r}
  <2>1. PICK o \in FsUnmount(lw, m_mounts[r], r) :
            /\ lw' = o.lw
            /\ m_mounts' = IF o.err = "OK" THEN Restrict(m_mounts, rest) ELSE m_mounts
            /\ Return("umount", r, m_mounts[r], o.err)
    BY <1>4 DEF Umount
  <2>2. /\ lw' \in Lwext4 /\ Cardinality(lw'.bdevices) <= DevCount /\ PartsKnown(lw')
        /\ o.err \in {"OK", "EIO"}
        /\ o.err = "OK" => Reached(lw', m_mounts, rest) /\ (lw'.stuck \/ Exact(lw', m_mounts, rest))
        /\ o.err = "EIO" => Reached(lw', m_mounts, DOMAIN m_mounts) /\ lw'.stuck
    BY <1>2, <1>4, <2>1, RootLeaves DEF Consistent
  <2>3. Consistent(lw', m_mounts')
    <3>1. CASE o.err = "EIO"
      BY <1>2, <2>1, <2>2, <3>1 DEF Consistent
    <3>2. CASE o.err = "OK"
      <4>1. DOMAIN m_mounts' = rest /\ \A q \in rest : m_mounts'[q] = m_mounts[q]
        BY <2>1, <3>2 DEF Restrict
      <4>2. m_mounts' \in [rest -> Part] /\ rest \subseteq Root
        BY <1>2, <2>1, <3>2 DEF Restrict, Consistent
      <4>3. Reached(lw', m_mounts', rest)
        BY <2>2, <3>2, <4>1 DEF Reached
      <4>4. lw'.stuck \/ Exact(lw', m_mounts', rest)
        BY <2>2, <3>2, <4>1 DEF Exact
      <4>5. \A q, s \in rest : m_mounts'[q] = m_mounts'[s] => q = s
        BY <1>2, <4>1 DEF Consistent
      <4> QED BY <2>2, <4>1, <4>2, <4>3, <4>4, <4>5 DEF Consistent
    <3> QED BY <2>2, <3>1, <3>2
  <2>4. last'.err \in Errno
    BY <2>1, <2>2 DEF Return, Errno
  <2> QED BY <1>1, <2>3, <2>4, ConsistentAgain DEF Types, JobTodo, Done
<1> QED BY <1>3, <1>4

\* umount_all: a root that is done is out of lwext4 and still in the map.
LEMMA UmountAllBeginKeeps ==
    ASSUME IInv, UmountAllBegin
    PROVE  IInv'
<1>1. /\ UNCHANGED <<vfs, lw, alien, crashed, last>> /\ Types
      /\ job' = [call |-> "umount_all", todo |-> DOMAIN m_mounts, err |-> "OK"]
  BY DEF UmountAllBegin, IInv
<1>2. Consistent(lw, m_mounts)
  BY LiveRoots DEF UmountAllBegin, Idle, NoJob
<1>3. job'.call = "umount_all" /\ job'.todo = DOMAIN m_mounts /\ job' \in Jobs
  BY <1>1 DEF Jobs, Errno, Types
<1>4. m_mounts' = m_mounts /\ lw' = lw /\ Live' = DOMAIN m_mounts
  BY <1>1, <1>3 DEF Live, vfs
<1>5. Types' /\ JobTodo' /\ Done'
  BY <1>1, <1>3, <1>4 DEF Types, JobTodo, Done, vfs
<1> QED BY <1>2, <1>4, <1>5 DEF IInv, Consistent, MountedOnce

LEMMA UmountAllNextKeeps ==
    ASSUME IInv, NEW r \in Root, UmountAllNext(r)
    PROVE  IInv'
<1>1. job.call = "umount_all" /\ r \in job.todo /\ UNCHANGED <<vfs, alien, crashed, last>>
  BY DEF UmountAllNext
<1>2. PICK o \in FsUnmount(lw, m_mounts[r], r) :
          /\ lw' = o.lw
          /\ job' = IF o.err = "OK" THEN [job EXCEPT !.todo = @ \ {r}]
                                    ELSE [job EXCEPT !.todo = {}, !.err = o.err]
  BY DEF UmountAllNext
<1>3. Live = job.todo /\ job.todo \subseteq DOMAIN m_mounts /\ Types
  BY <1>1 DEF Live, IInv, JobTodo
<1>4. /\ lw' \in Lwext4 /\ Cardinality(lw'.bdevices) <= DevCount /\ PartsKnown(lw')
      /\ o.err \in {"OK", "EIO"}
      /\ o.err = "OK" => /\ Reached(lw', m_mounts, job.todo \ {r})
                         /\ lw'.stuck \/ Exact(lw', m_mounts, job.todo \ {r})
      /\ o.err = "EIO" => lw'.stuck
  <2>1. /\ lw \in Lwext4 /\ DOMAIN m_mounts \subseteq Root /\ m_mounts \in [DOMAIN m_mounts -> Part]
        /\ Cardinality(lw.bdevices) <= DevCount /\ PartsKnown(lw)
        /\ \A q, s \in DOMAIN m_mounts : m_mounts[q] = m_mounts[s] => q = s
        /\ Reached(lw, m_mounts, job.todo) /\ (lw.stuck \/ Exact(lw, m_mounts, job.todo))
    BY <1>3 DEF IInv, Types, MountedOnce
  <2> QED BY <1>1, <1>2, <1>3, <2>1, RootLeaves
<1>5. /\ job'.call = "umount_all" /\ job' \in Jobs
      /\ job'.todo = IF o.err = "OK" THEN job.todo \ {r} ELSE {}
  BY <1>1, <1>2, <1>3, <1>4 DEF Types, Jobs, Errno
<1>6. Live' = job'.todo /\ job'.todo \subseteq DOMAIN m_mounts /\ m_mounts' = m_mounts
  BY <1>1, <1>3, <1>5 DEF Live, vfs
<1>7. Types' /\ JobTodo' /\ Done' /\ MountedOnce'
  BY <1>1, <1>3, <1>4, <1>5, <1>6 DEF Types, JobTodo, Done, MountedOnce, IInv, vfs
<1>8. Reached(lw', m_mounts, job'.todo) /\ (lw'.stuck \/ Exact(lw', m_mounts, job'.todo))
  BY <1>4, <1>5 DEF Reached
<1> QED BY <1>4, <1>6, <1>7, <1>8 DEF IInv

LEMMA UmountAllEndClears ==
    ASSUME IInv, UmountAllEnd
    PROVE  IInv'
<1>1. /\ m_mounts' = << >> /\ m_volume_index' = 0 /\ job' = NoJob /\ last'.err = job.err
      /\ UNCHANGED <<m_fs_factories, lw, alien, crashed>> /\ Types
  BY DEF UmountAllEnd, IInv, Return
<1>2. Live = {}
  BY DEF UmountAllEnd, Live
<1>3. DOMAIN m_mounts' = {} /\ m_mounts' \in [{} -> Part]
  BY <1>1
<1>4. Consistent(lw', m_mounts')
  BY <1>1, <1>2, <1>3 DEF Consistent, IInv, Types, Reached, Exact
<1>5. job'.call = "none" /\ job' \in Jobs /\ job.err \in Errno
  BY <1>1 DEF NoJob, Jobs, Errno, Types
<1> QED BY <1>1, <1>4, <1>5, ConsistentAgain DEF Types, JobTodo, Done

LEMMA InitInvariant ==
    ASSUME Init
    PROVE  IInv
<1>1. lw.bdevices = {} /\ ~lw.stuck /\ \A s \in MpSlot : ~lw.mp[s].mounted
  BY DEF Init
<1>2. lw \in Lwext4
  BY DEF Init, Lwext4
<1>3. DOMAIN m_mounts = {} /\ m_mounts \in [{} -> Part] /\ job = NoJob /\ job \in Jobs
  BY DEF Init, NoJob, Jobs, Errno
<1>4. Cardinality(lw.bdevices) <= DevCount
  BY <1>1, FS_EmptySet, MountAssumption
<1>5. Types /\ JobTodo /\ Done
  <2>1. m_fs_factories = {} /\ m_volume_index = 0 /\ alien = {} /\ crashed = FALSE /\ last.err = "OK"
    BY DEF Init
  <2>2. job.call = "none"
    BY <1>3 DEF NoJob
  <2> QED BY <1>2, <1>3, <1>4, <2>1, <2>2 DEF Types, JobTodo, Done, Errno
<1>6. Live = {} /\ Mounted(lw) = {}
  BY <1>1, <1>3 DEF Live, NoJob, Mounted
<1> QED BY <1>1, <1>3, <1>5, <1>6 DEF IInv, PartsKnown, MountedOnce, Reached, Exact

LEMMA NextKeepsInvariant ==
    ASSUME IInv, [MountNext \/ PathNext]_vars
    PROVE  IInv'
<1>1. CASE \/ \E t \in FsType : RegisterFilesystem(t) \/ UnregisterFilesystem(t)
           \/ \E p \in Part : FollowNull(p)
           \/ PathNext
           \/ UNCHANGED vars
  BY <1>1, OtherCallsKeep
<1>2. ASSUME NEW p \in Part, NEW r \in UserRoot \cup {Nothing}, Mount(p, r) PROVE IInv'
  BY <1>2, MountKeeps
<1>3. ASSUME NEW p \in Part, MountAllNext(p) PROVE IInv'
  BY <1>3, MountAllNextKeeps
<1>4. CASE MountAllBegin \/ MountAllEnd
  BY <1>4, MountAllBeginKeeps, MountAllEndKeeps
<1>5. ASSUME NEW r \in Root, Umount(r) \/ UmountAllNext(r) PROVE IInv'
  BY <1>5, UmountKeeps, UmountAllNextKeeps
<1>6. CASE UmountAllBegin \/ UmountAllEnd
  BY <1>6, UmountAllBeginKeeps, UmountAllEndClears
<1> QED BY <1>1, <1>2, <1>3, <1>4, <1>5, <1>6 DEF MountNext

-----------------------------------------------------------------------------
(* The theorems.                                                           *)

LEMMA InvariantHolds == Spec => []IInv
BY InitInvariant, NextKeepsInvariant, PTL DEF Spec

\* Every variable keeps its type, and lwext4 never has more devices than it has
\* room for (vfs.cpp, filesystem_lwext4.cpp and ext4.c).
THEOREM TypeCorrect == Spec => []TypeOK
<1>1. IInv => TypeOK
  <2>1. \A x : x \in Jobs => x.call \in {"none", "mount_all", "umount_all"}
                             /\ x.todo \subseteq Part \cup Root /\ x.err \in Errno
    BY DEF Jobs
  <2> QED BY <2>1 DEF IInv, Types, TypeOK
<1> QED BY <1>1, InvariantHolds, PTL

\* A partition is mounted at one root at most, whatever failed before: mount
\* registers its device, which lwext4 refuses while a root still has it.
THEOREM PartitionsMountOnce == Spec => []MountedOnce
<1>1. IInv => MountedOnce
  BY DEF IInv
<1> QED BY <1>1, InvariantHolds, PTL

\* umount and umount_all never finalise a filesystem twice: the slot that
\* ext4_umount finds for a root between calls is mounted, whatever failed before.
THEOREM RootsHaveLiveSlots == Spec => []RootHasLiveSlot
<1>1. ASSUME IInv PROVE RootHasLiveSlot
  <2>1. SUFFICES ASSUME job = NoJob, NEW r \in DOMAIN m_mounts
                 PROVE  Named(lw, r) # {} /\ lw.mp[Lowest(Named(lw, r))].mounted
    BY DEF RootHasLiveSlot, Named
  <2>2. FirstIsMounted(lw, r)
    BY <1>1, <2>1 DEF IInv, Live, NoJob, Reached
  <2>3. PICK s \in Named(lw, r) : lw.mp[s].mounted /\ \A t \in Named(lw, r) : s <= t
    BY <2>2 DEF FirstIsMounted
  <2> DEFINE f == Lowest(Named(lw, r))
  <2>4. f \in Named(lw, r) /\ \A t \in Named(lw, r) : f <= t
    BY <2>3, LowestSlot DEF Named
  <2> HIDE DEF f
  <2>5. f \in Int /\ s \in Int /\ f <= s /\ s <= f
    BY <2>3, <2>4, MountAssumption DEF Named, MpSlot
  <2>6. f = s
    BY <2>5
  <2> QED BY <2>3, <2>6 DEF f
<1> QED BY <1>1, InvariantHolds, PTL

\* Between calls, until an unmount fails, the mounted slots of lwext4, its devices
\* and m_mounts tell the same story, at whatever step a mount failed.
THEOREM ThreeTablesAgree == Spec => []TablesAgree
<1>1. ASSUME IInv PROVE TablesAgree
  <2>1. SUFFICES ASSUME job = NoJob, ~lw.stuck
                 PROVE  /\ \A s \in Mounted(lw) :
                             lw.mp[s].name \in DOMAIN m_mounts /\ m_mounts[lw.mp[s].name] = lw.mp[s].part
                        /\ \A r \in DOMAIN m_mounts :
                             Cardinality({s \in Mounted(lw) : lw.mp[s].name = r}) = 1
                        /\ lw.bdevices = Range(m_mounts)
    BY DEF TablesAgree
  <2>2. Exact(lw, m_mounts, DOMAIN m_mounts) /\ Reached(lw, m_mounts, DOMAIN m_mounts)
    BY <1>1, <2>1 DEF IInv, Live, NoJob
  <2>3. ASSUME NEW r \in DOMAIN m_mounts
        PROVE  Cardinality({s \in Mounted(lw) : lw.mp[s].name = r}) = 1
    <3>1. PICK s \in Named(lw, r) : lw.mp[s].mounted
      BY <2>2 DEF Reached, FirstIsMounted
    <3>2. {t \in Mounted(lw) : lw.mp[t].name = r} = {s}
      BY <2>2, <3>1 DEF Exact, Named, Mounted
    <3> QED BY <3>2, FS_Singleton
  <2>4. lw.bdevices = Range(m_mounts)
    BY <2>2 DEF Exact, Reached, Range
  <2> QED BY <2>2, <2>3, <2>4 DEF Exact
<1> QED BY <1>1, InvariantHolds, PTL

\* mount_all returns success only when every partition is mounted: it keeps the
\* first error and goes on.
THEOREM MountAllSuccessMeansAll == Spec => MountAllMeansAll
<1>1. ASSUME IInv, [MountNext \/ PathNext]_vars,
             job.call = "mount_all", job' = NoJob, job.err = "OK"
      PROVE  Range(m_mounts) = Part
  <2>1. job'.call = "none"
    BY <1>1 DEF NoJob
  <2>2. job' # job
    BY <1>1, <2>1
  <2>3. ~\E p \in Part : MountAllNext(p)
    <3>1. ASSUME NEW p \in Part, MountAllNext(p) PROVE job'.call = "mount_all"
      BY <1>1, <3>1 DEF MountAllNext, IInv, Types, Jobs
    <3> QED BY <2>1, <3>1
  <2>4. MountAllEnd
    BY <1>1, <2>2, <2>3 DEF MountNext, PathNext, vars, Idle, NoJob, RegisterFilesystem,
       UnregisterFilesystem, Mount, MountAllBegin, FollowNull, Umount, UmountAllBegin,
       UmountAllNext, UmountAllEnd, StatPartsOf, Rename
  <2>5. \A p \in Part : \E r \in DOMAIN m_mounts : m_mounts[r] = p
    BY <1>1, <2>4 DEF MountAllEnd, IInv, Done
  <2>6. \A r \in DOMAIN m_mounts : m_mounts[r] \in Part
    BY <1>1 DEF IInv, Types
  <2> QED BY <2>5, <2>6 DEF Range
<1>2. IInv /\ [MountNext \/ PathNext]_vars =>
        [job.call = "mount_all" /\ job' = NoJob /\ job.err = "OK" => Range(m_mounts) = Part]_vars
  BY <1>1
<1> QED BY <1>2, InvariantHolds, PTL DEF Spec, MountAllMeansAll

=============================================================================
