---------------------------- MODULE DirWalk_proofs ---------------------------
(***************************************************************************)
(* Theorems about DirWalk, for any tree, any changes by other threads and  *)
(* any failures: every variable keeps its type, the iterator is at its end *)
(* exactly when no directory is open, the open directories are a path, a   *)
(* walk returns nothing twice and misses nothing, and an erasure leaves    *)
(* nothing behind but open files in the root.                              *)
(*                                                                         *)
(* The path needs that the names a level has still to give are in its      *)
(* directory (InDirectory), that what the iterator is about to descend to  *)
(* is a directory, and that the directory that __erase opens and looks     *)
(* into before it descends is the one the iterator stands at (ProbeOfTop). *)
(* The others need to know where the nodes are that are still due: in or   *)
(* below a name some level has still to give, or below the entry it stands *)
(* at (NothingMissed, NothingKept); and that none of those names is above  *)
(* what was visited (NothingTwice).                                        *)
(***************************************************************************)
EXTENDS DirWalk, SequenceTheorems, TLAPS

Level == [dir : Dirs, entry : Nodes, left : SUBSET Nodes, gone : SUBSET Nodes]

InDirectory(l) == \A n \in l.left \cup l.gone : n # Root /\ Parent[n] = l.dir
EntryInDirectory(l) == l.entry # Root => Parent[l.entry] = l.dir
Good(l) == InDirectory(l) /\ EntryInDirectory(l)

ProbeOfTop ==
    /\ pc = "probe" => probe.dir = Top.entry
    /\ pc = "descend" => Top.entry \in Dirs

\* Each level is in the entry of the one above it.
IsPath(s) ==
    /\ s # <<>> => s[1].dir = Root
    /\ \A i \in 1..(Len(s) - 1) : s[i + 1].dir = s[i].entry
    /\ \A i \in 1..Len(s) : Good(s[i])

\* The inductive invariant.
IInv ==
    /\ TypeOK
    /\ IsPath(stack)
    /\ InDirectory(probe)
    /\ ProbeOfTop

-----------------------------------------------------------------------------
(* The tree: what is above a node.                                          *)
LEMMA AboveMember ==
  ASSUME NEW n \in Nodes
  PROVE  n \in Above[n] /\ Root \in Above[n] /\ Above[n] \subseteq Nodes
  BY TreeAssumption DEF Above

\* The least set: what holds of a node and of the directory of whatever it holds
\* of, holds of all that is above the node.
LEMMA AboveLeast ==
  ASSUME NEW n \in Nodes, NEW S \in SUBSET Nodes, n \in S, \A k \in S \ {Root} : Parent[k] \in S
  PROVE  Above[n] \subseteq S
  BY DEF Above

LEMMA AboveClosed ==
  ASSUME NEW n \in Nodes, NEW k \in Above[n] \ {Root}
  PROVE  Parent[k] \in Above[n]
<1>1. Parent[k] \in Nodes /\ k \in Nodes
  BY TreeAssumption, AboveMember
<1> SUFFICES ASSUME NEW S \in SUBSET Nodes, n \in S, \A m \in S \ {Root} : Parent[m] \in S
             PROVE  Parent[k] \in S
  BY <1>1 DEF Above
<1>2. Above[n] \subseteq S
  BY AboveLeast
<1> QED
  BY <1>2

LEMMA AboveTransitive ==
  ASSUME NEW n \in Nodes, NEW d \in Above[n]
  PROVE  Above[d] \subseteq Above[n]
<1>1. Above[n] \in SUBSET Nodes /\ d \in Nodes
  BY AboveMember
<1>2. \A k \in Above[n] \ {Root} : Parent[k] \in Above[n]
  BY AboveClosed
<1> QED
  BY <1>1, <1>2, AboveLeast

LEMMA AboveRoot == Above[Root] = {Root}
<1>1. Root \in Nodes /\ {Root} \in SUBSET Nodes
  BY TreeAssumption
<1>2. Above[Root] \subseteq {Root}
  <2> DEFINE S == {Root}
  <2>1. \A k \in S \ {Root} : Parent[k] \in S
    OBVIOUS
  <2> HIDE DEF S
  <2> QED
    BY <1>1, <2>1, AboveLeast DEF S
<1> QED
  BY <1>1, <1>2, AboveMember

LEMMA AboveOf ==
  ASSUME NEW n \in Nodes \ {Root}
  PROVE  Parent[n] \in Nodes /\ Above[n] = {n} \cup Above[Parent[n]]
<1>1. Parent[n] \in Nodes
  BY TreeAssumption
<1> DEFINE S == {n} \cup Above[Parent[n]]
<1>2. S \in SUBSET Nodes /\ n \in S /\ Parent[n] \in S
  BY <1>1, AboveMember
<1>3. \A k \in S \ {Root} : Parent[k] \in S
  BY <1>1, <1>2, AboveClosed
<1>4. Above[n] \subseteq S
  <2> HIDE DEF S
  <2> QED
    BY <1>2, <1>3, AboveLeast
<1>5. Parent[n] \in Above[n]
  BY AboveMember, AboveClosed
<1>6. Above[Parent[n]] \subseteq Above[n]
  BY <1>5, AboveTransitive
<1> QED
  BY <1>1, <1>4, <1>6, AboveMember

\* The root is above every node, so that no node is above its own directory.
LEMMA AboveAcyclic ==
  ASSUME NEW n \in Nodes \ {Root}
  PROVE  n \notin Above[Parent[n]]
<1> SUFFICES ASSUME n \in Above[Parent[n]] PROVE FALSE
  OBVIOUS
<1> DEFINE S == {m \in Nodes : n \in Above[m]}
<1>1. S \in SUBSET Nodes /\ n \in S
  BY AboveMember
<1>2. ASSUME NEW k \in S \ {Root} PROVE Parent[k] \in S
  <2>1. Parent[k] \in Nodes /\ Above[k] = {k} \cup Above[Parent[k]]
    BY AboveOf
  <2> QED
    BY <2>1
<1>3. Above[n] \subseteq S
  <2> HIDE DEF S
  <2> QED
    BY <1>1, <1>2, AboveLeast
<1>4. n \in Above[Root]
  BY <1>3, AboveMember
<1> QED
  BY <1>4, AboveRoot

\* The way from a directory down to a node below it begins with a child.
LEMMA AboveChild ==
  ASSUME NEW n \in Nodes, NEW d \in Above[n], d # n
  PROVE  \E m \in Above[n] \ {Root} : Parent[m] = d
<1> SUFFICES ASSUME \A m \in Above[n] \ {Root} : Parent[m] # d PROVE FALSE
  OBVIOUS
<1> DEFINE S == Above[n] \ {d}
<1>1. S \in SUBSET Nodes /\ n \in S
  BY AboveMember
<1>2. \A k \in S \ {Root} : Parent[k] \in S
  BY AboveClosed
<1>3. Above[n] \subseteq S
  <2> HIDE DEF S
  <2> QED
    BY <1>1, <1>2, AboveLeast
<1> QED
  BY <1>3

-----------------------------------------------------------------------------
(* Levels.                                                                  *)
LEMMA ChildrenInDirectory ==
  ASSUME NEW d \in Dirs, present \subseteq Nodes
  PROVE  Children(d) \subseteq Nodes \ {Root} /\ \A n \in Children(d) : Parent[n] = d
  BY DEF Children

LEMMA OpenedLevel ==
  ASSUME NEW d \in Dirs, present \subseteq Nodes
  PROVE  OpenDir(d) \in Level /\ Good(OpenDir(d)) /\ OpenDir(d).dir = d
<1>1. Children(d) \subseteq Nodes \ {Root} /\ \A n \in Children(d) : Parent[n] = d
  BY ChildrenInDirectory
<1>2. Root \in Nodes
  BY TreeAssumption
<1>3. OpenDir(d) \in Level
  BY <1>1, <1>2 DEF OpenDir, Level
<1>4. InDirectory(OpenDir(d)) /\ EntryInDirectory(OpenDir(d)) /\ OpenDir(d).dir = d
  BY <1>1 DEF OpenDir, InDirectory, EntryInDirectory
<1> QED BY <1>3, <1>4 DEF Good

LEMMA AdvancedLevel ==
  ASSUME NEW l \in Level, InDirectory(l), NEW k \in Advanced(l)
  PROVE  k \in Level /\ Good(k) /\ k.dir = l.dir
<1>1. CASE \E n \in l.left : k = [l EXCEPT !.entry = n, !.left = @ \ {n}]
  <2>1. PICK n \in l.left : k = [l EXCEPT !.entry = n, !.left = @ \ {n}]
    BY <1>1
  <2>2. k \in Level
    BY <2>1 DEF Level
  <2>3. k.dir = l.dir /\ k.entry = n /\ k.left = l.left \ {n} /\ k.gone = l.gone
    BY <2>1 DEF Level
  <2> QED BY <2>2, <2>3 DEF Good, InDirectory, EntryInDirectory
<1>2. CASE \E n \in l.gone : k = [l EXCEPT !.entry = n, !.gone = @ \ {n}]
  <2>1. PICK n \in l.gone : k = [l EXCEPT !.entry = n, !.gone = @ \ {n}]
    BY <1>2
  <2>2. k \in Level
    BY <2>1 DEF Level
  <2>3. k.dir = l.dir /\ k.entry = n /\ k.left = l.left /\ k.gone = l.gone \ {n}
    BY <2>1 DEF Level
  <2> QED BY <2>2, <2>3 DEF Good, InDirectory, EntryInDirectory
<1> QED BY <1>1, <1>2 DEF Advanced

LEMMA JoinedLevel ==
  ASSUME NEW l \in Level, NEW n \in Nodes \ {Root}
  PROVE  LET k == Joins(l, n)
         IN  /\ k \in Level /\ k.dir = l.dir /\ k.entry = l.entry
             /\ InDirectory(l) => InDirectory(k)
             /\ Good(l) => Good(k)
  BY DEF Joins, Level, Good, InDirectory, EntryInDirectory

LEMMA LeftLevel ==
  ASSUME NEW l \in Level, NEW n \in Nodes \ {Root}
  PROVE  LET k == Leaves(l, n)
         IN  /\ k \in Level /\ k.dir = l.dir /\ k.entry = l.entry
             /\ InDirectory(l) => InDirectory(k)
             /\ Good(l) => Good(k)
  BY DEF Leaves, Level, Good, InDirectory, EntryInDirectory

-----------------------------------------------------------------------------
(* Stacks.                                                                  *)
LEMMA TopFacts ==
  ASSUME stack \in Seq(Level), stack # <<>>
  PROVE  /\ Len(stack) \in Nat \ {0} /\ Top \in Level /\ Top = stack[Len(stack)]
         /\ IsPath(stack) => Good(Top)
  BY EmptySeq, ElementOfSeq DEF Top, IsPath

LEMMA PoppedFacts ==
  ASSUME stack \in Seq(Level), stack # <<>>
  PROVE  /\ Popped \in Seq(Level)
         /\ Len(Popped) = Len(stack) - 1
         /\ \A i \in 1..(Len(stack) - 1) : Popped[i] = stack[i]
         /\ (Popped = <<>>) = (Len(stack) = 1)
         /\ IsPath(stack) => IsPath(Popped)
<1>1. Len(stack) \in Nat \ {0}
  BY TopFacts
<1>2. /\ Popped \in Seq(Level) /\ Len(Popped) = Len(stack) - 1
      /\ \A i \in 1..(Len(stack) - 1) : Popped[i] = stack[i]
  <2> DEFINE n == Len(stack) - 1
             s == SubSeq(stack, 1, n)
  <2>1. n \in Nat /\ \A i \in 1..n : stack[i] \in Level
    BY <1>1, ElementOfSeq
  <2>2. s \in Seq(Level)
    BY <2>1, SubSeqProperties
  <2>3. Len(s) = IF 1 <= n THEN n - 1 + 1 ELSE 0
    BY <2>1, SubSeqProperties
  <2>4. \A i \in 1..(n - 1 + 1) : s[i] = stack[1 + i - 1]
    BY <2>1, SubSeqProperties
  <2>5. Popped = s
    BY DEF Popped
  <2> HIDE DEF s
  <2>6. Len(s) = n
    <3> HIDE DEF n
    <3>1. CASE n = 0
      BY <3>1, <2>3
    <3>2. CASE n >= 1
      BY <2>1, <2>3, <3>2
    <3> QED
      BY <2>1, <3>1, <3>2
  <2>7. ASSUME NEW i \in 1..n PROVE s[i] = stack[i]
    <3>1. i \in 1..(n - 1 + 1) /\ 1 + i - 1 = i
      BY <1>1
    <3>2. s[i] = stack[1 + i - 1]
      BY <3>1, <2>4
    <3> QED
      BY <3>1, <3>2
  <2> QED
    BY <2>2, <2>5, <2>6, <2>7
<1>3. (Popped = <<>>) = (Len(stack) = 1)
  BY <1>1, <1>2, EmptySeq
<1>4. ASSUME IsPath(stack) PROVE IsPath(Popped)
  <2>1. Popped # <<>> => Popped[1].dir = Root
    <3>1. ASSUME Popped # <<>> PROVE 1 \in 1..(Len(stack) - 1)
      <4>1. Len(stack) # 1
        BY <1>3, <3>1, Zenon
      <4>2. \A n \in Nat \ {0} : n # 1 => 1 \in 1..(n - 1)
        OBVIOUS
      <4> QED BY <1>1, <4>1, <4>2
    <3>2. ASSUME Popped # <<>> PROVE Popped[1] = stack[1]
      BY <1>2, <3>1, <3>2
    <3>3. stack[1].dir = Root
      BY <1>4 DEF IsPath
    <3> QED BY <3>2, <3>3
  <2>2. ASSUME NEW i \in 1..(Len(Popped) - 1) PROVE Popped[i + 1].dir = Popped[i].entry
    <3>1. i \in 1..(Len(stack) - 1) /\ i + 1 \in 1..(Len(stack) - 1)
      BY <1>1, <1>2, <2>2
    <3>2. Popped[i] = stack[i] /\ Popped[i + 1] = stack[i + 1]
      BY <1>2, <3>1
    <3> QED BY <1>4, <3>1, <3>2 DEF IsPath
  <2>3. ASSUME NEW i \in 1..Len(Popped) PROVE Good(Popped[i])
    <3>1. i \in 1..(Len(stack) - 1) /\ i \in 1..Len(stack)
      BY <1>1, <1>2, <2>3
    <3> QED BY <1>2, <1>4, <3>1 DEF IsPath
  <2> QED BY <2>1, <2>2, <2>3 DEF IsPath
<1> QED
  BY <1>2, <1>3, <1>4

LEMMA PushedFacts ==
  ASSUME NEW s \in Seq(Level), NEW l \in Level
  PROVE  /\ Append(s, l) \in Seq(Level)
         /\ Append(s, l) # <<>>
         /\ Append(s, l)[Len(Append(s, l))] = l
         /\ IsPath(s) /\ Good(l) /\ l.dir = (IF s = <<>> THEN Root ELSE s[Len(s)].entry)
              => IsPath(Append(s, l))
<1>1. /\ Append(s, l) \in Seq(Level) /\ Len(Append(s, l)) = Len(s) + 1
      /\ \A i \in 1..Len(s) : Append(s, l)[i] = s[i]
      /\ Append(s, l)[Len(s) + 1] = l
      /\ Append(s, l) # <<>>
  BY AppendProperties
<1>2. Len(s) \in Nat /\ (s = <<>> <=> Len(s) = 0)
  BY EmptySeq, LenProperties
<1>3. ASSUME IsPath(s), Good(l), l.dir = (IF s = <<>> THEN Root ELSE s[Len(s)].entry)
      PROVE  IsPath(Append(s, l))
  BY <1>1, <1>2, <1>3 DEF IsPath
<1> QED
  BY <1>1, <1>2, <1>3

LEMMA WithTopFacts ==
  ASSUME stack \in Seq(Level), stack # <<>>, NEW l \in Level, l.dir = Top.dir
  PROVE  /\ WithTop(l) \in Seq(Level) /\ WithTop(l) # <<>>
         /\ WithTop(l)[Len(WithTop(l))] = l
         /\ IsPath(stack) /\ Good(l) => IsPath(WithTop(l))
<1>1. Len(stack) \in Nat \ {0} /\ Popped \in Seq(Level)
  BY TopFacts, PoppedFacts
<1>2. ASSUME IsPath(stack) PROVE l.dir = (IF Popped = <<>> THEN Root ELSE Popped[Len(Popped)].entry)
  BY <1>1, <1>2, PoppedFacts, TopFacts DEF IsPath
<1> QED
  BY <1>1, <1>2, PoppedFacts, PushedFacts DEF WithTop

\* A step of another thread changes what the levels have still to give.
LEMMA ChangedFacts ==
  ASSUME stack \in Seq(Level), NEW s, s \in [1..Len(stack) -> Level],
         \A i \in 1..Len(stack) : s[i].dir = stack[i].dir /\ s[i].entry = stack[i].entry,
         \A i \in 1..Len(stack) : Good(stack[i]) => Good(s[i])
  PROVE  /\ s \in Seq(Level) /\ Len(s) = Len(stack) /\ (s = <<>>) = (stack = <<>>)
         /\ IsPath(stack) => IsPath(s)
<1>1. Len(stack) \in Nat
  BY LenProperties
<1>2. s \in Seq(Level) /\ Len(s) = Len(stack)
  BY <1>1, SeqDef, LenProperties
<1>3. (s = <<>>) = (stack = <<>>)
  BY <1>1, <1>2, EmptySeq
<1>4. ASSUME IsPath(stack) PROVE IsPath(s)
  <2>1. s # <<>> => s[1].dir = Root
    <3>1. s # <<>> => Len(stack) \in Nat \ {0}
      BY <1>3, EmptySeq
    <3> QED
      BY <1>3, <1>4, <3>1 DEF IsPath
  <2>2. \A i \in 1..(Len(s) - 1) : s[i + 1].dir = s[i].entry
    <3> SUFFICES ASSUME NEW i \in 1..(Len(stack) - 1) PROVE s[i + 1].dir = s[i].entry
      BY <1>2
    <3>1. i \in 1..Len(stack) /\ i + 1 \in 1..Len(stack)
      BY <1>1
    <3> QED
      BY <1>4, <3>1 DEF IsPath
  <2>3. \A i \in 1..Len(s) : Good(s[i])
    BY <1>2, <1>4 DEF IsPath
  <2> QED
    BY <2>1, <2>2, <2>3 DEF IsPath
<1> QED
  BY <1>2, <1>3, <1>4

-----------------------------------------------------------------------------
(* Steps.                                                                   *)
Places == {"start", "idle", "descend", "advance", "erase", "probe", "rmdir", "next",
           "last", "done"}

\* The types of the variables that say where the iterator is.
WalkTypes ==
    /\ (stack = <<>>) = (pc \in {"start", "last", "done"})
    /\ pc \in Places
    /\ stack \in Seq(Level)
    /\ probe \in Level

\* The types of the others.
OtherTypes ==
    /\ present \subseteq Nodes /\ mode \in {"walk", "erase"}
    /\ pending \in BOOLEAN /\ ec \in BOOLEAN /\ cut \in BOOLEAN
    /\ visited \subseteq Nodes /\ stayed \subseteq present /\ pruned \subseteq Nodes
    /\ changes \in 0..Changes

LEMMA Types == TypeOK <=> WalkTypes /\ OtherTypes
  BY DEF TypeOK, WalkTypes, OtherTypes, Level, Places

Where == IsPath(stack) /\ InDirectory(probe) /\ ProbeOfTop

LEMMA InitIInv == Init => IInv
<1> SUFFICES ASSUME Init PROVE IInv
  OBVIOUS
<1>1. <<>> \in Seq(Level) /\ Len(<<>>) = 0
  BY EmptySeq
<1>2. NoLevel \in Level /\ InDirectory(NoLevel)
  BY TreeAssumption DEF NoLevel, Level, InDirectory
<1>3. WalkTypes /\ OtherTypes
  <2>1. WalkTypes
    BY <1>1, <1>2 DEF Init, WalkTypes, Places
  <2>2. present \subseteq Nodes /\ stayed = present
    BY DEF Init
  <2>3. changes \in 0..Changes
    BY TreeAssumption DEF Init
  <2> QED
    BY <2>1, <2>2, <2>3 DEF Init, OtherTypes
<1>4. Where
  BY <1>1, <1>2 DEF Init, Where, IsPath, ProbeOfTop
<1> QED
  BY <1>3, <1>4, Types DEF IInv, Where

\* What the cases below need of the invariant.
LEMMA Facts ==
  ASSUME IInv, stack # <<>>
  PROVE  /\ stack \in Seq(Level) /\ Top \in Level /\ Good(Top) /\ Top.entry \in Nodes
         /\ Top.dir \in Dirs /\ Len(stack) \in Nat \ {0}
         /\ Popped \in Seq(Level) /\ IsPath(Popped) /\ (Popped = <<>>) = (Len(stack) = 1)
<1>1. stack \in Seq(Level) /\ IsPath(stack)
  BY DEF IInv, TypeOK, Level
<1>2. Top \in Level /\ Good(Top) /\ Len(stack) \in Nat \ {0}
  BY <1>1, TopFacts
<1>3. Popped \in Seq(Level) /\ IsPath(Popped) /\ (Popped = <<>>) = (Len(stack) = 1)
  BY <1>1, PoppedFacts
<1> QED
  BY <1>1, <1>2, <1>3 DEF Level

\* The four ways in which a step of the iterator changes the stack.
LEMMA KeptStack ==
  ASSUME IInv, stack' = stack, pc' \in Places,
         (stack = <<>>) = (pc' \in {"start", "last", "done"}),
         probe' \in Level, InDirectory(probe'), pc' = "probe" => probe'.dir = Top.entry,
         pc' = "descend" => Top.entry \in Dirs
  PROVE  WalkTypes' /\ Where'
  BY DEF IInv, TypeOK, WalkTypes, Where, ProbeOfTop, Top, IsPath, Level

LEMMA ResetStack ==
  ASSUME IInv, Fail, probe' \in Level, InDirectory(probe')
  PROVE  WalkTypes' /\ Where'
<1>1. <<>> \in Seq(Level) /\ Len(<<>>) = 0
  BY EmptySeq
<1> QED
  BY <1>1 DEF Fail, WalkTypes, Where, IsPath, ProbeOfTop, Places

LEMMA PoppedStack ==
  ASSUME IInv, stack # <<>>, stack' = Popped, probe' = probe, NEW p, NEW q,
         p \in {"idle", "advance"}, q \in {"last", "done"},
         pc' = (IF Len(stack) = 1 THEN q ELSE p)
  PROVE  WalkTypes' /\ Where'
<1>1. Popped \in Seq(Level) /\ IsPath(Popped) /\ (Popped = <<>>) = (Len(stack) = 1)
  BY Facts
<1>2. probe \in Level /\ InDirectory(probe)
  BY DEF IInv, TypeOK, Level
<1> QED
  BY <1>1, <1>2 DEF WalkTypes, Where, ProbeOfTop, Places, IsPath

LEMMA AdvancedStack ==
  ASSUME IInv, stack # <<>>, NEW l \in Advanced(Top), stack' = WithTop(l), probe' = probe,
         pc' = "idle"
  PROVE  WalkTypes' /\ Where'
<1>1. l \in Level /\ Good(l) /\ l.dir = Top.dir
  BY Facts, AdvancedLevel DEF Good
<1>2. WithTop(l) \in Seq(Level) /\ WithTop(l) # <<>> /\ IsPath(WithTop(l))
  BY <1>1, Facts, WithTopFacts DEF IInv
<1>3. probe \in Level /\ InDirectory(probe)
  BY DEF IInv, TypeOK, Level
<1> QED
  BY <1>2, <1>3 DEF WalkTypes, Where, ProbeOfTop, Places, IsPath

LEMMA PushedStack ==
  ASSUME IInv, stack # <<>>, NEW l \in Level, Good(l), l.dir = Top.entry,
         stack' = Append(stack, l), probe' \in Level, InDirectory(probe'),
         pc' \in {"advance", "erase"}
  PROVE  WalkTypes' /\ Where'
<1>1. Append(stack, l) \in Seq(Level) /\ Append(stack, l) # <<>> /\ IsPath(Append(stack, l))
  BY Facts, PushedFacts DEF IInv, Top
<1> QED
  BY <1>1 DEF WalkTypes, Where, ProbeOfTop, Places, IsPath

\* What a step of the iterator leaves of the other types.
LEMMA Unlinking ==
  ASSUME IInv, NEW N, Unlinked(N)
  PROVE  present' \subseteq Nodes /\ stayed' \subseteq present'
  BY DEF IInv, TypeOK, Unlinked

-----------------------------------------------------------------------------
(* One lemma for the steps of a walk, one for those of an erasure, one for  *)
(* other threads.                                                           *)
USE DEF Finished

LEMMA WalkSteps ==
  ASSUME IInv, Construct \/ Increment \/ Descend \/ Advance \/ pop \/ disable_recursion_pending
  PROVE  WalkTypes' /\ OtherTypes' /\ Where'
<1> USE TreeAssumption
<1>1. /\ WalkTypes /\ OtherTypes /\ stack \in Seq(Level) /\ probe \in Level /\ InDirectory(probe)
      /\ present \subseteq Nodes
  BY Types DEF IInv, WalkTypes, OtherTypes
<1>2. CASE Construct
  <2>1. OtherTypes'
    BY <1>1, <1>2 DEF Construct, OtherTypes, tree, Fail
  <2>2. CASE Fail
    BY <1>1, <1>2, <2>1, <2>2, ResetStack DEF Construct
  <2>3. CASE stack' = <<OpenDir(Root)>> /\ pc' = "advance"
    <3>1. OpenDir(Root) \in Level /\ Good(OpenDir(Root)) /\ OpenDir(Root).dir = Root
      BY <1>1, OpenedLevel
    <3>2. <<OpenDir(Root)>> \in Seq(Level) /\ Len(<<OpenDir(Root)>>) = 1 /\ <<OpenDir(Root)>> # <<>>
      BY <3>1
    <3>3. IsPath(<<OpenDir(Root)>>)
      BY <3>1, <3>2 DEF IsPath
    <3> QED
      BY <1>1, <1>2, <2>1, <2>3, <3>2, <3>3 DEF Construct, WalkTypes, Where, ProbeOfTop, Places, IsPath
  <2> QED
    BY <1>2, <2>1, <2>2, <2>3 DEF Construct
<1>3. CASE Increment
  <2>1. stack # <<>> /\ Top.entry \in Nodes
    BY <1>1, <1>3, Facts DEF Increment, WalkTypes
  <2>2. OtherTypes'
    BY <1>1, <1>3, <2>1 DEF Increment, OtherTypes, tree
  <2>3. pc' \in {"descend", "advance"}
    BY <1>3 DEF Increment
  <2> QED
    BY <1>1, <1>3, <2>1, <2>2, <2>3, KeptStack DEF Increment, Places, ShouldRecurse
<1>4. CASE Descend
  <2>1. stack # <<>> /\ Top.entry \in Dirs
    BY <1>1, <1>4, Facts DEF Descend, WalkTypes, IInv, ProbeOfTop
  <2>2. OtherTypes'
    BY <1>1, <1>4 DEF Descend, OtherTypes, tree, Fail
  <2>3. CASE Fail
    BY <1>1, <1>4, <2>2, <2>3, ResetStack DEF Descend
  <2>4. CASE stack' = Append(stack, OpenDir(Top.entry)) /\ pc' = "advance"
    BY <1>1, <1>4, <2>1, <2>2, <2>4, OpenedLevel, PushedStack DEF Descend
  <2> QED
    BY <1>4, <2>2, <2>3, <2>4 DEF Descend
<1>5. CASE Advance
  <2>1. stack # <<>> /\ Top \in Level
    BY <1>1, <1>5, Facts DEF Advance, WalkTypes
  <2>2. CASE \E l \in Advanced(Top) :
               /\ stack' = WithTop(l) /\ visited' = visited \cup {l.entry}
               /\ pc' = "idle" /\ cut' = cut
    <3> PICK l \in Advanced(Top) : /\ stack' = WithTop(l) /\ visited' = visited \cup {l.entry}
                                   /\ pc' = "idle" /\ cut' = cut
      BY <2>2
    <3>1. l.entry \in Nodes
      BY <2>1, Facts, AdvancedLevel DEF Level, Good
    <3>2. OtherTypes'
      BY <1>1, <1>5, <3>1 DEF Advance, OtherTypes, tree
    <3> QED
      BY <1>5, <2>1, <3>2, AdvancedStack DEF Advance
  <2>3. CASE /\ Ends(Top) /\ stack' = Popped /\ visited' = visited
             /\ pc' = IF Len(stack) = 1 THEN Finished ELSE "advance"
    <3>1. OtherTypes'
      BY <1>1, <1>5, <2>3 DEF Advance, OtherTypes, tree, Ends
    <3> QED
      BY <1>5, <2>1, <2>3, <3>1, PoppedStack DEF Advance
  <2> QED
    BY <1>5, <2>2, <2>3 DEF Advance
<1>6. CASE pop
  <2>1. stack # <<>> /\ Top \in Level
    BY <1>1, <1>6, Facts DEF pop, WalkTypes
  <2>2. OtherTypes'
    BY <1>1, <1>6, <2>1 DEF pop, OtherTypes, tree, Level
  <2> QED
    BY <1>6, <2>1, <2>2, PoppedStack DEF pop
<1>7. CASE disable_recursion_pending
  <2>1. OtherTypes'
    BY <1>1, <1>7 DEF disable_recursion_pending, OtherTypes, tree
  <2> QED
    BY <1>1, <1>7, <2>1, KeptStack DEF disable_recursion_pending, WalkTypes, Places
<1> QED
  BY <1>2, <1>3, <1>4, <1>5, <1>6, <1>7

LEMMA EraseSteps ==
  ASSUME IInv, Erase \/ EraseFile \/ EraseOpen \/ EraseProbe \/ EraseDir \/ EraseNext \/ RemoveRoot
  PROVE  WalkTypes' /\ OtherTypes' /\ Where'
<1> USE TreeAssumption
<1>1. /\ WalkTypes /\ OtherTypes /\ stack \in Seq(Level) /\ probe \in Level /\ InDirectory(probe)
      /\ present \subseteq Nodes
  BY Types DEF IInv, WalkTypes, OtherTypes
<1>2. NoLevel \in Level /\ InDirectory(NoLevel)
  BY DEF NoLevel, Level, InDirectory
<1>3. CASE Erase
  <2>1. OtherTypes'
    BY <1>1, <1>3 DEF Erase, OtherTypes, tree
  <2> QED
    BY <1>1, <1>3, <2>1, KeptStack DEF Erase, WalkTypes, Places
<1>4. CASE EraseFile
  <2>1. present' \subseteq Nodes /\ stayed' \subseteq present'
    BY <1>4, Unlinking DEF EraseFile
  <2>2. OtherTypes'
    BY <1>1, <1>4, <2>1 DEF EraseFile, OtherTypes, Fail
  <2>3. CASE Fail
    BY <1>1, <1>4, <2>2, <2>3, ResetStack DEF EraseFile
  <2>4. CASE pc' = "next" /\ stack' = stack
    BY <1>1, <1>4, <2>2, <2>4, KeptStack DEF EraseFile, WalkTypes, Places
  <2> QED
    BY <1>4, <2>3, <2>4 DEF EraseFile
<1>5. CASE EraseOpen
  <2>1. OtherTypes'
    BY <1>1, <1>5 DEF EraseOpen, OtherTypes, tree, Fail
  <2>2. CASE Fail /\ probe' = probe
    BY <1>1, <1>5, <2>1, <2>2, ResetStack DEF EraseOpen
  <2>3. CASE probe' = OpenDir(Top.entry) /\ pc' = "probe" /\ stack' = stack
    <3>1. /\ OpenDir(Top.entry) \in Level /\ Good(OpenDir(Top.entry))
          /\ OpenDir(Top.entry).dir = Top.entry
      BY <1>1, <1>5, OpenedLevel DEF EraseOpen
    <3> QED
      BY <1>1, <1>5, <2>1, <2>3, <3>1, KeptStack DEF EraseOpen, WalkTypes, Places, Good
  <2> QED
    BY <1>5, <2>2, <2>3 DEF EraseOpen
<1>6. CASE EraseProbe
  <2>1. stack # <<>> /\ probe.dir = Top.entry
    BY <1>1, <1>6 DEF EraseProbe, WalkTypes, IInv, ProbeOfTop
  <2>2. OtherTypes'
    BY <1>1, <1>6 DEF EraseProbe, OtherTypes, tree, Ends
  <2>3. CASE \E l \in Advanced(probe) : stack' = Append(stack, l) /\ pc' = "erase"
    <3> PICK l \in Advanced(probe) : stack' = Append(stack, l) /\ pc' = "erase"
      BY <2>3
    <3>1. l \in Level /\ Good(l) /\ l.dir = Top.entry
      BY <1>1, <2>1, AdvancedLevel
    <3> QED
      BY <1>2, <1>6, <2>1, <2>2, <3>1, PushedStack DEF EraseProbe
  <2>4. CASE pc' = "rmdir" /\ stack' = stack
    BY <1>1, <1>2, <1>6, <2>2, <2>4, KeptStack DEF EraseProbe, WalkTypes, Places
  <2> QED
    BY <1>6, <2>3, <2>4 DEF EraseProbe
<1>7. CASE EraseDir
  <2>1. present' \subseteq Nodes /\ stayed' \subseteq present'
    BY <1>1, <1>7, Unlinking DEF EraseDir, InPart, OtherTypes
  <2>2. OtherTypes'
    BY <1>1, <1>7, <2>1 DEF EraseDir, OtherTypes, Fail
  <2>3. CASE Fail
    BY <1>1, <1>7, <2>2, <2>3, ResetStack DEF EraseDir
  <2>4. CASE pc' \in {"next", "erase"} /\ stack' = stack
    BY <1>1, <1>7, <2>2, <2>4, KeptStack DEF EraseDir, WalkTypes, Places
  <2> QED
    BY <1>7, <2>3, <2>4 DEF EraseDir
<1>8. CASE EraseNext
  <2>1. stack # <<>>
    BY <1>1, <1>8 DEF EraseNext, WalkTypes
  <2>2. OtherTypes'
    BY <1>1, <1>8 DEF EraseNext, OtherTypes, tree, Ends
  <2>3. CASE \E l \in Advanced(Top) : stack' = WithTop(l) /\ pc' = "idle"
    BY <1>8, <2>1, <2>2, <2>3, AdvancedStack DEF EraseNext
  <2>4. CASE stack' = Popped /\ pc' = IF Len(stack) = 1 THEN Finished ELSE "idle"
    BY <1>8, <2>1, <2>2, <2>4, PoppedStack DEF EraseNext
  <2> QED
    BY <1>8, <2>3, <2>4 DEF EraseNext
<1>9. CASE RemoveRoot
  <2>1. present' \subseteq Nodes /\ stayed' \subseteq present'
    BY <1>9, Unlinking DEF RemoveRoot, InPart
  <2>2. OtherTypes'
    BY <1>1, <1>9, <2>1 DEF RemoveRoot, OtherTypes, Fail
  <2>3. CASE Fail
    BY <1>1, <1>9, <2>2, <2>3, ResetStack DEF RemoveRoot
  <2>4. CASE pc' = "done" /\ stack' = stack
    BY <1>1, <1>9, <2>2, <2>4, KeptStack DEF RemoveRoot, WalkTypes, Places
  <2> QED
    BY <1>9, <2>3, <2>4 DEF RemoveRoot
<1> QED
  BY <1>3, <1>4, <1>5, <1>6, <1>7, <1>8, <1>9

\* What another thread does to the directories that are being read.
LEMMA ChangedStack ==
  ASSUME IInv, stack' \in [1..Len(stack) -> Level], pc' = pc,
         \A i \in 1..Len(stack) : /\ stack[i].dir = stack'[i].dir
                                  /\ stack[i].entry = stack'[i].entry
                                  /\ Good(stack[i]) => Good(stack'[i]),
         probe' \in Level, InDirectory(probe'), probe'.dir = probe.dir
  PROVE  WalkTypes' /\ Where'
<1>1. stack \in Seq(Level) /\ IsPath(stack) /\ pc \in Places
      /\ (stack = <<>>) = (pc \in {"start", "last", "done"})
  BY Types DEF IInv, WalkTypes
<1>2. /\ stack' \in Seq(Level) /\ Len(stack') = Len(stack) /\ (stack' = <<>>) = (stack = <<>>)
      /\ IsPath(stack')
  BY <1>1, ChangedFacts
<1>3. ProbeOfTop'
  <2> SUFFICES ASSUME pc \in {"probe", "descend"}
               PROVE  Top'.entry = Top.entry
    BY DEF ProbeOfTop, IInv
  <2>1. Len(stack) \in 1..Len(stack)
    BY <1>1, TopFacts
  <2> QED
    BY <1>2, <2>1 DEF Top
<1> QED
  BY <1>1, <1>2, <1>3 DEF WalkTypes, Where, IsPath

LEMMA OtherSteps ==
  ASSUME IInv, NEW n \in Nodes \ {Root}, Create(n) \/ Delete(n)
  PROVE  WalkTypes' /\ OtherTypes' /\ Where'
<1>1. /\ OtherTypes /\ stack \in Seq(Level) /\ probe \in Level /\ InDirectory(probe)
      /\ Len(stack) \in Nat /\ \A i \in 1..Len(stack) : stack[i] \in Level
  BY Types, ElementOfSeq, LenProperties DEF IInv, WalkTypes
<1>2. stack \in [1..Len(stack) -> Level]
  BY <1>1, SeqDef, LenProperties
<1>3. changes \in Nat /\ changes \in 0..Changes /\ Changes \in Nat
  BY <1>1, TreeAssumption DEF OtherTypes
<1>4. CASE Create(n)
  <2>1. OtherTypes'
    BY <1>1, <1>3, <1>4 DEF Create, OtherTypes
  <2>2. probe' \in Level /\ InDirectory(probe') /\ probe'.dir = probe.dir
    BY <1>1, <1>4, JoinedLevel DEF Create
  <2>3. CASE stack' = [i \in 1..Len(stack) |-> Joins(stack[i], n)]
    <3>1. \A i \in 1..Len(stack) : /\ stack'[i] \in Level
                                   /\ stack[i].dir = stack'[i].dir
                                   /\ stack[i].entry = stack'[i].entry
                                   /\ Good(stack[i]) => Good(stack'[i])
      BY <1>1, <2>3, JoinedLevel
    <3>2. stack' \in [1..Len(stack) -> Level]
      BY <2>3, <3>1
    <3> QED
      BY <1>4, <2>1, <2>2, <3>1, <3>2, ChangedStack DEF Create
  <2>4. CASE stack' = stack
    <3>1. stack' \in [1..Len(stack) -> Level]
      BY <1>2, <2>4
    <3> QED
      BY <1>4, <2>1, <2>2, <2>4, <3>1, ChangedStack DEF Create
  <2> QED
    BY <1>4, <2>3, <2>4 DEF Create
<1>5. CASE Delete(n)
  <2>1. OtherTypes'
    BY <1>1, <1>3, <1>5 DEF Delete, OtherTypes
  <2>2. probe' \in Level /\ InDirectory(probe') /\ probe'.dir = probe.dir
    BY <1>1, <1>5, LeftLevel DEF Delete
  <2>3. \A i \in 1..Len(stack) : /\ stack'[i] \in Level
                                 /\ stack[i].dir = stack'[i].dir
                                 /\ stack[i].entry = stack'[i].entry
                                 /\ Good(stack[i]) => Good(stack'[i])
    BY <1>1, <1>5, LeftLevel DEF Delete
  <2>4. stack' \in [1..Len(stack) -> Level]
    BY <1>5, <2>3 DEF Delete
  <2> QED
    BY <1>5, <2>1, <2>2, <2>3, <2>4, ChangedStack DEF Delete
<1> QED
  BY <1>4, <1>5

-----------------------------------------------------------------------------
LEMMA NextIInv == IInv /\ [Next]_vars => IInv'
<1> SUFFICES ASSUME IInv, [Next]_vars PROVE WalkTypes' /\ OtherTypes' /\ Where'
  BY Types DEF IInv, WalkTypes, OtherTypes, Where, TypeOK, Level, Places
<1>1. CASE Next
  BY <1>1, WalkSteps, EraseSteps, OtherSteps DEF Next, Step
<1>2. CASE UNCHANGED vars
  <2>1. WalkTypes /\ OtherTypes /\ Where
    BY Types DEF IInv, Where
  <2> QED
    BY <1>2, <2>1 DEF vars, WalkTypes, OtherTypes, Where, IsPath, ProbeOfTop, Top
<1> QED
  BY <1>1, <1>2

LEMMA Invariance == Spec => []IInv
  BY InitIInv, NextIInv, PTL DEF Spec

\* Every variable keeps its type, and the iterator is at its end exactly when
\* no directory is open, through every walk and every erasure of any tree.
THEOREM TypeCorrect == Spec => []TypeOK
<1>1. IInv => TypeOK
  BY DEF IInv
<1> QED
  BY <1>1, Invariance, PTL

\* The open directories of the iterator are a path from its root: descending,
\* going back up, popping and erasing keep it, whatever other threads create or
\* remove and whatever fails.
THEOREM StackStaysAPath == Spec => []StackIsAPath
<1>1. IInv => StackIsAPath
  BY DEF IInv, IsPath, Good, EntryInDirectory, StackIsAPath
<1> QED
  BY <1>1, Invariance, PTL

-----------------------------------------------------------------------------
(* What the stack is after a step, place by place.                          *)
LEMMA Places1 ==
  ASSUME IInv, stack # <<>>
  PROVE  /\ Len(stack) \in Nat \ {0} /\ Top = stack[Len(stack)]
         /\ \A i \in 1..Len(stack) : stack[i] \in Level /\ Good(stack[i])
         /\ Len(Popped) = Len(stack) - 1
         /\ \A i \in 1..(Len(stack) - 1) : Popped[i] = stack[i]
<1>1. stack \in Seq(Level) /\ IsPath(stack)
  BY DEF IInv, TypeOK, Level
<1>2. \A i \in 1..Len(stack) : stack[i] \in Level
  BY <1>1, ElementOfSeq
<1> QED
  BY <1>1, <1>2, TopFacts, PoppedFacts DEF IsPath

LEMMA PushedPlaces ==
  ASSUME NEW s \in Seq(Level), NEW l \in Level
  PROVE  /\ Len(s) \in Nat /\ Len(Append(s, l)) = Len(s) + 1
         /\ \A i \in 1..Len(s) : Append(s, l)[i] = s[i]
         /\ Append(s, l)[Len(s) + 1] = l
  BY AppendProperties, LenProperties

LEMMA WithTopPlaces ==
  ASSUME IInv, stack # <<>>, NEW l \in Level
  PROVE  /\ Len(WithTop(l)) = Len(stack)
         /\ \A i \in 1..(Len(stack) - 1) : WithTop(l)[i] = stack[i]
         /\ WithTop(l)[Len(stack)] = l
<1>1. Popped \in Seq(Level)
  BY Facts
<1>2. Len(stack) \in Nat \ {0} /\ Len(Popped) = Len(stack) - 1
  BY Places1
<1>3. Len(stack) - 1 + 1 = Len(stack)
  BY <1>2
<1> QED
  BY <1>1, <1>2, <1>3, Places1, PushedPlaces DEF WithTop

\* Another thread changes what the levels have still to give, place by place.
LEMMA ChangedPlaces ==
  ASSUME IInv, NEW n \in Nodes \ {Root}, Create(n) \/ Delete(n)
  PROVE  /\ Len(stack) \in Nat /\ Len(stack') = Len(stack) /\ (stack' = <<>>) = (stack = <<>>)
         /\ \A i \in 1..Len(stack) :
               /\ stack[i] \in Level /\ Good(stack[i])
               /\ stack'[i].dir = stack[i].dir /\ stack'[i].entry = stack[i].entry
               /\ stack'[i].left \subseteq stack[i].left \cup {n}
               /\ stack[i].left \ {n} \subseteq stack'[i].left
               /\ stack'[i].gone \subseteq stack[i].gone \cup {n}
               /\ Create(n) => stack'[i].gone = stack[i].gone /\ stack[i].left \subseteq stack'[i].left
         /\ pc' = pc /\ mode' = mode /\ ec' = ec /\ cut' = cut /\ visited' = visited
         /\ pruned' = pruned
         /\ stayed' \subseteq stayed /\ present' \subseteq Nodes
<1>1. stack \in Seq(Level) /\ Len(stack) \in Nat /\ IsPath(stack)
      /\ \A i \in 1..Len(stack) : stack[i] \in Level /\ Good(stack[i])
  BY ElementOfSeq, LenProperties DEF IInv, TypeOK, Level, IsPath
<1>2. Len(stack') = Len(stack) /\ (stack' = <<>>) = (stack = <<>>)
  BY <1>1, EmptySeq DEF Create, Delete
<1>3. ASSUME NEW i \in 1..Len(stack)
      PROVE  /\ stack'[i].dir = stack[i].dir /\ stack'[i].entry = stack[i].entry
             /\ stack'[i].left \subseteq stack[i].left \cup {n}
             /\ stack[i].left \ {n} \subseteq stack'[i].left
             /\ stack'[i].gone \subseteq stack[i].gone \cup {n}
             /\ Create(n) => stack'[i].gone = stack[i].gone /\ stack[i].left \subseteq stack'[i].left
  <2>1. stack[i] \in Level
    BY <1>1
  <2>2. CASE Create(n)
    <3>1. stack'[i] = Joins(stack[i], n) \/ stack'[i] = stack[i]
      BY <2>2 DEF Create
    <3> QED
      BY <2>1, <3>1 DEF Joins, Level
  <2>3. CASE Delete(n) /\ ~Create(n)
    <3>1. stack'[i] = Leaves(stack[i], n)
      BY <2>3 DEF Delete
    <3> QED
      BY <2>1, <2>3, <3>1 DEF Leaves, Level
  <2> QED
    BY <2>2, <2>3
<1>4. /\ pc' = pc /\ mode' = mode /\ ec' = ec /\ cut' = cut /\ visited' = visited
      /\ pruned' = pruned /\ stayed' \subseteq stayed /\ present' \subseteq Nodes
  BY DEF Create, Delete, IInv, TypeOK
<1> QED
  BY <1>1, <1>2, <1>3, <1>4

\* Only the place a level has not read yet has no name.
EntriesAreNames ==
    \A i \in 1..Len(stack) : stack[i].entry = Root => i = Len(stack) /\ pc = "advance"

\* The directory of what was there all the time was there all the time.
StayedIsATree ==
    /\ \A n \in stayed \ {Root} : Parent[n] \in stayed
    /\ pc # "done" => Root \in stayed

\* Each use of the iterator has places of its own.
PlaceOfMode ==
    /\ pc = "start" => visited = {}
    /\ mode = "walk" => pc \in {"start", "idle", "descend", "advance", "done"}
    /\ mode = "erase" => pc \notin {"descend"} /\ (pc = "advance" => Len(stack) = 1)

Shape == EntriesAreNames /\ StayedIsATree /\ PlaceOfMode

\* What EntriesAreNames gives where the iterator stands at an entry.
LEMMA StandsAtName ==
  ASSUME IInv, Shape, stack # <<>>
  PROVE  /\ pc # "advance" => Top.entry \in Nodes \ {Root}
         /\ \A i \in 1..(Len(stack) - 1) : stack[i].entry # Root
<1>1. Len(stack) \in Nat \ {0} /\ Len(stack) \in 1..Len(stack) /\ Top \in Level
  BY Places1, Facts
<1> QED
  BY <1>1, Places1 DEF Shape, EntriesAreNames, Level

\* What an entry read has: a name, in its directory.
LEMMA AdvancedName ==
  ASSUME NEW l \in Level, InDirectory(l), NEW k \in Advanced(l)
  PROVE  /\ k \in Level /\ k.entry \in Nodes \ {Root} /\ Parent[k.entry] = l.dir /\ k.dir = l.dir
         /\ k.entry \in l.left \cup l.gone
         /\ k.left \subseteq l.left /\ k.gone \subseteq l.gone
         /\ l.left \ {k.entry} \subseteq k.left
         /\ k.entry \in l.gone \/ k.entry \notin k.left
<1>1. k \in Level /\ k.dir = l.dir
  BY AdvancedLevel
<1>2. CASE \E n \in l.left : k = [l EXCEPT !.entry = n, !.left = l.left \ {n}]
  BY <1>1, <1>2 DEF Level, InDirectory
<1>3. CASE \E n \in l.gone : k = [l EXCEPT !.entry = n, !.gone = l.gone \ {n}]
  BY <1>1, <1>3 DEF Level, InDirectory
<1> QED
  BY <1>2, <1>3 DEF Advanced

LEMMA NamesKept ==
  ASSUME IInv, Shape,
         \/ /\ stack' = stack
            /\ stack = <<>> \/ (pc # "advance") \/ pc' = "advance"
         \/ stack' = <<>>
         \/ /\ stack # <<>> /\ stack' = Popped
         \/ /\ stack # <<>> /\ \E l \in Advanced(Top) : stack' = WithTop(l)
         \/ /\ stack # <<>> /\ pc # "advance" /\ pc' = "advance"
            /\ \E l \in Level : stack' = Append(stack, l)
         \/ /\ stack # <<>> /\ pc # "advance"
            /\ \E l \in Level : l.entry # Root /\ stack' = Append(stack, l)
         \/ /\ pc' = "advance" /\ \E l \in Level : stack' = <<l>>
         \/ \E n \in Nodes \ {Root} : Create(n) \/ Delete(n)
  PROVE  EntriesAreNames'
<1>1. CASE stack' = stack /\ (stack = <<>> \/ (pc # "advance") \/ pc' = "advance")
  <2>1. stack \in Seq(Level) /\ (stack = <<>> => Len(stack) = 0)
    BY EmptySeq DEF IInv, TypeOK, Level
  <2> QED
    BY <1>1, <2>1 DEF Shape, EntriesAreNames
<1>2. CASE stack' = <<>>
  BY <1>2, EmptySeq DEF EntriesAreNames
<1>3. CASE stack # <<>> /\ stack' = Popped
  <2>1. \A i \in 1..Len(stack') : stack'[i].entry # Root
    BY <1>3, Places1, StandsAtName
  <2> QED
    BY <2>1 DEF EntriesAreNames
<1>4. CASE stack # <<>> /\ \E l \in Advanced(Top) : stack' = WithTop(l)
  <2> PICK l \in Advanced(Top) : stack' = WithTop(l)
    BY <1>4
  <2>1. l \in Level /\ l.entry # Root
    BY <1>4, Facts, AdvancedName DEF Good
  <2>2. Len(stack) \in Nat \ {0} /\ Len(stack') = Len(stack)
    BY <1>4, <2>1, Places1, WithTopPlaces
  <2>3. ASSUME NEW i \in 1..Len(stack') PROVE stack'[i].entry # Root
    <3>1. CASE i = Len(stack)
      BY <1>4, <2>1, <3>1, WithTopPlaces
    <3>2. CASE i \in 1..(Len(stack) - 1)
      BY <1>4, <2>1, <3>2, WithTopPlaces, StandsAtName
    <3> QED
      BY <2>2, <3>1, <3>2
  <2> QED
    BY <2>3 DEF EntriesAreNames
<1>5. CASE /\ stack # <<>> /\ pc # "advance"
           /\ \E l \in Level : (l.entry # Root \/ pc' = "advance") /\ stack' = Append(stack, l)
  <2> PICK l \in Level : (l.entry # Root \/ pc' = "advance") /\ stack' = Append(stack, l)
    BY <1>5
  <2>1. stack \in Seq(Level)
    BY <1>5, Facts
  <2>2. Len(stack) \in Nat /\ Len(stack') = Len(stack) + 1
    BY <2>1, PushedPlaces
  <2>3. ASSUME NEW i \in 1..Len(stack'), stack'[i].entry = Root
        PROVE  i = Len(stack') /\ pc' = "advance"
    <3>1. CASE i = Len(stack) + 1
      BY <2>1, <2>2, <2>3, <3>1, PushedPlaces
    <3>2. CASE i \in 1..Len(stack)
      BY <1>5, <2>1, <2>3, <3>2, PushedPlaces DEF Shape, EntriesAreNames
    <3> QED
      BY <2>2, <3>1, <3>2
  <2> QED
    BY <2>3 DEF EntriesAreNames
<1>6. CASE pc' = "advance" /\ \E l \in Level : stack' = <<l>>
  BY <1>6 DEF EntriesAreNames
<1>7. CASE \E n \in Nodes \ {Root} : Create(n) \/ Delete(n)
  <2>1. /\ Len(stack') = Len(stack) /\ pc' = pc
        /\ \A i \in 1..Len(stack) : stack'[i].entry = stack[i].entry
    BY <1>7, ChangedPlaces
  <2> QED
    BY <2>1 DEF Shape, EntriesAreNames
<1> QED
  BY <1>1, <1>2, <1>3, <1>4, <1>5, <1>6, <1>7

\* Removing with a node what is below it leaves a tree.
LEMMA StayedKept ==
  ASSUME IInv, Shape, NEW N, Unlinked(N),
         \A k \in (stayed \ {Root}) \ N : Parent[k] \notin N,
         Root \notin N \/ pc' = "done"
  PROVE  StayedIsATree' \/ pc = "done"
  BY DEF Shape, StayedIsATree, Unlinked

LEMMA PartKept ==
  ASSUME IInv, Shape, NEW d \in Nodes, InPart(d), pc' = "done", pc # "done"
  PROVE  StayedIsATree'
<1> PICK N \in SUBSET (Below(d) \cap present) :
       (\A n \in N : Children(n) \subseteq N) /\ Unlinked(N)
  BY DEF InPart
<1>1. ASSUME NEW k \in (stayed \ {Root}) \ N, Parent[k] \in N PROVE FALSE
  <2>1. k \in Children(Parent[k])
    BY <1>1 DEF IInv, TypeOK, Children
  <2> QED
    BY <1>1, <2>1
<1> QED
  BY <1>1, StayedKept

LEMMA BelowKept ==
  ASSUME IInv, Shape, NEW d \in Nodes \ {Root}
  PROVE  Root \notin Below(d) /\ \A k \in (stayed \ {Root}) \ Below(d) : Parent[k] \notin Below(d)
<1>1. Root \notin Below(d)
  BY AboveRoot DEF Below
<1>2. ASSUME NEW k \in (stayed \ {Root}) \ Below(d), Parent[k] \in Below(d) PROVE FALSE
  <2>1. k \in Nodes \ {Root}
    BY DEF IInv, TypeOK
  <2>2. Above[k] = {k} \cup Above[Parent[k]]
    BY <2>1, AboveOf
  <2> QED
    BY <1>2, <2>1, <2>2 DEF Below
<1> QED
  BY <1>1, <1>2

LEMMA InitShape == Init => Shape
<1> SUFFICES ASSUME Init PROVE Shape
  OBVIOUS
<1>1. stack = <<>> /\ Len(stack) = 0 /\ present \subseteq Nodes /\ stayed = present /\ Root \in present
  BY EmptySeq DEF Init
<1>2. ASSUME NEW n \in stayed \ {Root} PROVE Parent[n] \in stayed
  <2>1. n \in Nodes /\ Above[n] \subseteq present
    BY <1>1 DEF Init
  <2> QED
    BY <1>1, <2>1, AboveMember, AboveClosed
<1> QED
  BY <1>1, <1>2 DEF Init, Shape, EntriesAreNames, StayedIsATree, PlaceOfMode

\* The steps of the iterator that remove nothing.
LEMMA WalkShape ==
  ASSUME IInv, Shape,
         \/ Construct \/ Increment \/ Descend \/ Advance \/ pop \/ disable_recursion_pending
         \/ Erase \/ EraseOpen \/ EraseProbe \/ EraseNext
  PROVE  Shape'
<1>1. /\ (stack = <<>>) = (pc \in {"start", "last", "done"}) /\ stack \in Seq(Level)
      /\ present \subseteq Nodes /\ probe \in Level /\ InDirectory(probe)
  BY DEF IInv, TypeOK, Level
<1>2. stayed' = stayed /\ pc # "done"
  BY DEF Construct, Increment, Descend, Advance, pop, disable_recursion_pending,
         Erase, EraseOpen, EraseProbe, EraseNext, tree
<1>3. StayedIsATree'
  BY <1>2 DEF Shape, StayedIsATree
<1>4. mode' = mode /\ mode \in {"walk", "erase"}
  BY DEF Construct, Increment, Descend, Advance, pop, disable_recursion_pending,
         Erase, EraseOpen, EraseProbe, EraseNext, IInv, TypeOK
<1>5. CASE Construct
  <2>1. OpenDir(Root) \in Level
    BY <1>1, OpenedLevel, TreeAssumption
  <2>2. EntriesAreNames'
    BY <1>5, <2>1, NamesKept DEF Construct, Fail
  <2>3. PlaceOfMode'
    BY <1>4, <1>5 DEF Construct, PlaceOfMode, Fail
  <2> QED
    BY <1>3, <2>2, <2>3 DEF Shape
<1>6. CASE Increment \/ disable_recursion_pending \/ Erase
  <2>1. stack' = stack /\ pc # "advance" /\ pc' \in {"idle", "descend", "advance", "erase"}
    BY <1>6 DEF Increment, disable_recursion_pending, Erase
  <2>2. EntriesAreNames'
    BY <2>1, NamesKept
  <2>3. PlaceOfMode'
    BY <1>4, <1>6 DEF Increment, disable_recursion_pending, Erase, PlaceOfMode, Shape
  <2> QED
    BY <1>3, <2>2, <2>3 DEF Shape
<1>7. CASE Descend
  <2>1. stack # <<>> /\ Top.entry \in Dirs
    BY <1>1, <1>7 DEF Descend, IInv, ProbeOfTop
  <2>2. OpenDir(Top.entry) \in Level
    BY <1>1, <2>1, OpenedLevel
  <2>3. EntriesAreNames'
    BY <1>7, <2>1, <2>2, NamesKept DEF Descend, Fail
  <2>4. PlaceOfMode'
    BY <1>4, <1>7 DEF Descend, PlaceOfMode, Shape, Fail
  <2> QED
    BY <1>3, <2>3, <2>4 DEF Shape
<1>8. CASE Advance \/ pop \/ EraseNext
  <2>1. stack # <<>>
    BY <1>1, <1>8 DEF Advance, pop, EraseNext
  <2>2. (\E l \in Advanced(Top) : stack' = WithTop(l)) \/ stack' = Popped
    BY <1>8 DEF Advance, pop, EraseNext
  <2>3. EntriesAreNames'
    BY <2>1, <2>2, NamesKept
  <2>4. PlaceOfMode'
    BY <1>4, <1>8 DEF Advance, pop, EraseNext, PlaceOfMode, Shape
  <2> QED
    BY <1>3, <2>3, <2>4 DEF Shape
<1>9. CASE EraseOpen
  <2>1. (stack' = stack /\ pc # "advance") \/ stack' = <<>>
    BY <1>9 DEF EraseOpen, Fail
  <2>2. EntriesAreNames'
    BY <2>1, NamesKept
  <2>3. PlaceOfMode'
    BY <1>4, <1>9 DEF EraseOpen, PlaceOfMode, Shape, Fail
  <2> QED
    BY <1>3, <2>2, <2>3 DEF Shape
<1>10. CASE EraseProbe
  <2>1. stack # <<>> /\ pc # "advance"
    BY <1>1, <1>10 DEF EraseProbe
  <2>2. \/ stack' = stack
        \/ \E l \in Level : l.entry # Root /\ stack' = Append(stack, l)
    BY <1>1, <1>10, AdvancedName DEF EraseProbe
  <2>3. EntriesAreNames'
    BY <2>1, <2>2, NamesKept
  <2>4. PlaceOfMode'
    BY <1>4, <1>10 DEF EraseProbe, PlaceOfMode, Shape
  <2> QED
    BY <1>3, <2>3, <2>4 DEF Shape
<1> QED
  BY <1>5, <1>6, <1>7, <1>8, <1>9, <1>10

\* The steps that remove, of __erase and of other threads.
LEMMA RemovingShape ==
  ASSUME IInv, Shape,
         \/ EraseFile \/ EraseDir \/ RemoveRoot
         \/ \E n \in Nodes \ {Root} : Create(n) \/ Delete(n)
  PROVE  Shape'
<1>1. /\ (stack = <<>>) = (pc \in {"start", "last", "done"}) /\ stack \in Seq(Level)
      /\ present \subseteq Nodes /\ mode \in {"walk", "erase"} /\ stayed \subseteq present
  BY DEF IInv, TypeOK, Level
<1>2. CASE EraseFile
  <2>1. Top.entry \notin Dirs /\ pc # "advance" /\ pc # "done"
    BY <1>2 DEF EraseFile
  <2>2. EntriesAreNames'
    <3>1. (stack' = stack /\ pc # "advance") \/ stack' = <<>>
      BY <1>2 DEF EraseFile, Fail
    <3> QED
      BY <3>1, NamesKept
  <2>3. \E N \in SUBSET {Top.entry} : Unlinked(N)
    BY <1>2 DEF EraseFile
  <2>4. StayedIsATree'
    <3> PICK N \in SUBSET {Top.entry} : Unlinked(N)
      BY <2>3
    <3>1. \A k \in (stayed \ {Root}) \ N : Parent[k] \notin N
      BY <1>1, <2>1, TreeAssumption
    <3>2. Root \notin N
      BY <2>1, TreeAssumption
    <3> QED
      BY <2>1, <3>1, <3>2, StayedKept
  <2>5. PlaceOfMode'
    BY <1>2 DEF EraseFile, PlaceOfMode, Shape, Fail
  <2> QED
    BY <2>2, <2>4, <2>5 DEF Shape
<1>3. CASE EraseDir
  <2>1. stack # <<>> /\ pc # "advance" /\ pc # "done"
    BY <1>1, <1>3 DEF EraseDir
  <2>2. Top.entry \in Nodes \ {Root}
    BY <2>1, StandsAtName
  <2>3. EntriesAreNames'
    <3>1. (stack' = stack /\ pc # "advance") \/ stack' = <<>>
      BY <1>3 DEF EraseDir, Fail
    <3> QED
      BY <3>1, NamesKept
  <2>4. CASE Unlinked(Below(Top.entry))
    <3>1. StayedIsATree'
      BY <2>1, <2>2, <2>4, BelowKept, StayedKept
    <3> QED
      BY <1>3, <2>3, <3>1 DEF EraseDir, PlaceOfMode, Shape, Fail
  <2>5. CASE stayed' = stayed
    <3>1. StayedIsATree'
      BY <2>1, <2>5 DEF StayedIsATree, Shape
    <3> QED
      BY <1>3, <2>3, <3>1 DEF EraseDir, PlaceOfMode, Shape, Fail
  <2>6. CASE InPart(Top.entry) /\ Fail
    <3>1. StayedIsATree'
      BY <2>1, <2>2, <2>6, PartKept DEF Fail
    <3> QED
      BY <1>3, <2>3, <3>1 DEF EraseDir, PlaceOfMode, Shape, Fail
  <2> QED
    BY <1>3, <2>4, <2>5, <2>6 DEF EraseDir
<1>4. CASE RemoveRoot
  <2>1. stack = <<>> /\ pc = "last" /\ pc' = "done" /\ mode' = mode
    BY <1>1, <1>4 DEF RemoveRoot, Fail
  <2>2. EntriesAreNames'
    <3>1. (stack' = stack /\ pc # "advance") \/ stack' = <<>>
      BY <1>4 DEF RemoveRoot, Fail
    <3> QED
      BY <3>1, NamesKept
  <2>3. Root \in Nodes
    BY TreeAssumption
  <2>4. CASE Unlinked(Nodes)
    <3>1. stayed' = {}
      BY <1>1, <2>4 DEF Unlinked
    <3> QED
      BY <2>1, <2>2, <3>1 DEF PlaceOfMode, Shape, StayedIsATree
  <2>5. CASE InPart(Root)
    <3>1. StayedIsATree'
      BY <2>1, <2>3, <2>5, PartKept
    <3> QED
      BY <2>1, <2>2, <3>1 DEF PlaceOfMode, Shape
  <2> QED
    BY <1>4, <2>4, <2>5 DEF RemoveRoot
<1>5. CASE \E n \in Nodes \ {Root} : Create(n) \/ Delete(n)
  <2> PICK n \in Nodes \ {Root} : Create(n) \/ Delete(n)
    BY <1>5
  <2>1. EntriesAreNames'
    BY NamesKept
  <2>2. StayedIsATree'
    <3>1. CASE Create(n)
      BY <3>1 DEF Create, StayedIsATree, Shape
    <3>2. CASE Delete(n)
      <4>1. ASSUME NEW k \in stayed \ {Root} PROVE Parent[k] # n
        BY <1>1, <3>2 DEF Delete, Children
      <4> QED
        BY <3>2, <4>1 DEF Delete, StayedIsATree, Shape
    <3> QED
      BY <3>1, <3>2
  <2>3. PlaceOfMode'
    BY ChangedPlaces DEF PlaceOfMode, Shape
  <2> QED
    BY <2>1, <2>2, <2>3 DEF Shape
<1> QED
  BY <1>2, <1>3, <1>4, <1>5

LEMMA NextShape == IInv /\ Shape /\ [Next]_vars => Shape'
<1> SUFFICES ASSUME IInv, Shape, [Next]_vars PROVE Shape'
  OBVIOUS
<1>1. CASE Next
  BY <1>1, WalkShape, RemovingShape DEF Next, Step
<1>2. CASE UNCHANGED vars
  BY <1>2 DEF vars, Shape, EntriesAreNames, StayedIsATree, PlaceOfMode
<1> QED
  BY <1>1, <1>2

-----------------------------------------------------------------------------
(* A walk returns nothing twice.                                            *)
\* Each level is below the ones before it.
Deeper ==
    \A j \in 1..Len(stack) : \A i \in 1..(j - 1) :
        stack[i].dir \in Above[stack[j].dir] /\ stack[i].dir # stack[j].dir

\* A name to come is not on the way to where the walk is, and nothing in or
\* below it is visited.
StillNew(m) ==
    /\ m \notin Above[Top.dir]
    /\ pc \in {"idle", "descend"} => m # Top.entry
    /\ \A k \in visited \cap stayed : m \notin Above[k]

NothingTwice ==
    mode = "walk" =>
        /\ Deeper
        /\ \A i \in 1..Len(stack) : stack[i].gone \cap stayed = {}
        /\ \A i \in 1..Len(stack) : \A m \in stack[i].left \cap stayed : StillNew(m)
        /\ pc \in {"idle", "descend"} =>
              \A k \in visited \cap stayed : Top.entry \in Above[k] => k = Top.entry

LEMMA StayedAbove ==
  ASSUME IInv, Shape, NEW n \in stayed, pc # "done"
  PROVE  n \in Nodes /\ Above[n] \subseteq stayed
<1>1. n \in Nodes /\ stayed \in SUBSET Nodes
  BY DEF IInv, TypeOK
<1>2. \A k \in stayed \ {Root} : Parent[k] \in stayed
  BY DEF Shape, StayedIsATree
<1> QED
  BY <1>1, <1>2, AboveLeast

\* Of two levels the lower one is the deeper, and holds none of the names to come
\* in the other.
LEMMA LevelsApart ==
  ASSUME IInv, Deeper, NEW i \in 1..(Len(stack) - 1), stack # <<>>
  PROVE  /\ stack[i].dir \in Above[Top.dir] /\ stack[i].dir # Top.dir
         /\ \A n \in stack[i].left : Parent[n] = stack[i].dir
         /\ \A n \in Top.left \cup Top.gone : n \in Nodes \ {Root} /\ Parent[n] = Top.dir
<1>1. Len(stack) \in Nat \ {0} /\ Len(stack) \in 1..Len(stack) /\ i \in 1..Len(stack)
  BY Places1
<1>2. Top = stack[Len(stack)] /\ Good(stack[i]) /\ Good(Top) /\ Top \in Level
  BY <1>1, Places1
<1>3. stack[i].dir \in Above[Top.dir] /\ stack[i].dir # Top.dir
  BY <1>1, <1>2 DEF Deeper
<1> QED
  BY <1>2, <1>3 DEF Good, InDirectory, Level

\* The level below, when the walk goes back up.
LEMMA TwicePopped ==
  ASSUME IInv, Shape, NothingTwice, mode = "walk", stack # <<>>, stack' = Popped,
         pc' \in {"advance", "done"}, visited' = visited, stayed' = stayed, mode' = mode
  PROVE  NothingTwice'
<1>1. /\ Len(stack) \in Nat \ {0} /\ Len(stack') = Len(stack) - 1
      /\ \A i \in 1..Len(stack') : stack'[i] = stack[i] /\ i \in 1..Len(stack)
  BY Places1
<1>2. Deeper'
  <2>1. Deeper
    BY DEF NothingTwice
  <2>2. ASSUME NEW j \in 1..Len(stack'), NEW i \in 1..(j - 1)
        PROVE  /\ stack'[i].dir \in Above[stack'[j].dir]
               /\ stack'[i].dir # stack'[j].dir
    <3>1. i \in 1..Len(stack') /\ j \in 1..Len(stack)
      BY <1>1
    <3> QED BY <1>1, <2>1, <3>1 DEF Deeper
  <2> QED BY <2>2 DEF Deeper
<1>3. ASSUME NEW i \in 1..Len(stack'), NEW m \in stack'[i].left \cap stayed'
      PROVE  StillNew(m)'
  <2>1. StillNew(m)
    BY <1>1, <1>3 DEF NothingTwice
  <2>2. Len(stack') \in 1..(Len(stack) - 1) /\ Top' = stack[Len(stack')]
    BY <1>1 DEF Top
  <2>3. stack[Len(stack')].dir \in Above[Top.dir] /\ Top.dir \in Nodes
    BY <1>1, <2>2, LevelsApart, Facts, TreeAssumption DEF NothingTwice
  <2>4. Above[Top'.dir] \subseteq Above[Top.dir]
    BY <2>2, <2>3, AboveTransitive
  <2> QED
    BY <2>1, <2>4 DEF StillNew
<1> QED
  BY <1>1, <1>2, <1>3 DEF NothingTwice

\* The walk reads an entry.
LEMMA TwiceAdvanced ==
  ASSUME IInv, Shape, NothingTwice, mode = "walk", stack # <<>>, pc # "done",
         NEW l \in Advanced(Top), stack' = WithTop(l),
         pc' = "idle", visited' = visited \cup {l.entry}, stayed' = stayed, mode' = mode
  PROVE  NothingTwice' /\ l.entry \notin visited \cap stayed
<1> DEFINE e == l.entry
           z == Len(stack)
<1>1. /\ l \in Level /\ e \in Nodes \ {Root} /\ Parent[e] = Top.dir /\ l.dir = Top.dir
      /\ e \in Top.left \cup Top.gone
      /\ l.left \subseteq Top.left /\ l.gone \subseteq Top.gone
      /\ e \in Top.gone \/ e \notin l.left
  BY Facts, AdvancedName DEF Good
<1>2. /\ z \in Nat \ {0} /\ Top = stack[z] /\ Len(stack') = z
      /\ (\A i \in 1..(z - 1) : stack'[i] = stack[i]) /\ stack'[z] = l /\ Top' = l
  BY <1>1, Places1, WithTopPlaces DEF Top
<1>3. z \in 1..z /\ \A i \in 1..z : i = z \/ i \in 1..(z - 1)
  BY <1>2
<1> HIDE DEF e, z
<1>4. Deeper'
  <2>1. \A i \in 1..z : stack'[i].dir = stack[i].dir
    BY <1>1, <1>2, <1>3
  <2>2. \A j \in 1..z : \A i \in 1..(j - 1) : i \in 1..z
    BY <1>2
  <2> QED
    BY <1>2, <2>1, <2>2 DEF Deeper, NothingTwice, z
<1>5. \A i \in 1..z : stack'[i].gone \cap stayed' = {}
  BY <1>1, <1>2, <1>3 DEF NothingTwice, z
<1>6. \A i \in 1..z : stack'[i].left \subseteq stack[i].left
  BY <1>1, <1>2, <1>3
<1>7. e \in Top.gone => e \notin stayed
  BY <1>2, <1>3 DEF NothingTwice, z
<1>8. \A k \in visited \cap stayed : e \in stayed => e \notin Above[k]
  BY <1>1, <1>2, <1>3, <1>7 DEF NothingTwice, StillNew, z
<1>9. e \notin visited \cap stayed
  BY <1>1, <1>8, AboveMember
<1>10. ASSUME NEW i \in 1..z, NEW m \in stack'[i].left \cap stayed'
       PROVE  StillNew(m)'
  <2>1. StillNew(m)
    BY <1>6, <1>10 DEF NothingTwice, z
  <2>2. m # e
    <3>1. CASE i = z
      BY <1>1, <1>2, <1>7, <1>10, <3>1
    <3>2. CASE i \in 1..(z - 1)
      BY <1>1, <1>2, <1>10, <3>2, LevelsApart DEF NothingTwice, z
    <3> QED
      BY <1>3, <3>1, <3>2
  <2>3. Above[e] = {e} \cup Above[Top.dir]
    BY <1>1, AboveOf
  <2>4. m \notin Above[e]
    BY <2>1, <2>2, <2>3 DEF StillNew
  <2> QED
    BY <1>1, <1>2, <2>1, <2>2, <2>4 DEF StillNew, e
<1>11. ASSUME NEW k \in visited' \cap stayed', e \in Above[k] PROVE k = e
  <2>1. k \in stayed /\ e \in stayed
    BY <1>11, StayedAbove
  <2> QED
    BY <1>8, <1>11, <2>1 DEF e
<1> QED
  BY <1>2, <1>4, <1>5, <1>9, <1>10, <1>11 DEF NothingTwice, z, e

\* The walk descends.
LEMMA TwiceDescended ==
  ASSUME IInv, Shape, NothingTwice, mode = "walk", stack # <<>>, pc = "descend",
         NEW l \in Level, l = OpenDir(Top.entry), stack' = Append(stack, l),
         pc' = "advance", visited' = visited, stayed' = stayed, mode' = mode
  PROVE  NothingTwice'
<1> DEFINE e == Top.entry
           z == Len(stack)
<1>1. /\ e \in Nodes \ {Root} /\ Parent[e] = Top.dir /\ Top.dir \in Nodes
  BY Facts, StandsAtName, TreeAssumption DEF Good, EntryInDirectory
<1>2. /\ l.dir = e /\ l.gone = {} /\ l.left = Children(e)
  BY DEF OpenDir
<1>3. /\ z \in Nat \ {0} /\ Top = stack[z] /\ Len(stack') = z + 1
      /\ (\A i \in 1..z : stack'[i] = stack[i]) /\ stack'[z + 1] = l /\ Top' = l
  BY Facts, Places1, PushedPlaces DEF Top
<1>4. z \in 1..z /\ \A i \in 1..(z + 1) : i = z + 1 \/ i \in 1..z
  BY <1>3
<1>5. Above[e] = {e} \cup Above[Top.dir] /\ e \notin Above[Top.dir]
  BY <1>1, AboveOf, AboveAcyclic
<1> HIDE DEF e, z
<1>6. Deeper'
  <2>1. ASSUME NEW i \in 1..z PROVE stack[i].dir \in Above[e] /\ stack[i].dir # e
    <3>1. CASE i = z
      BY <1>1, <1>3, <1>5, <3>1, AboveMember
    <3>2. CASE i \in 1..(z - 1)
      <4>1. stack[i].dir \in Above[Top.dir]
        BY <3>2, LevelsApart DEF NothingTwice, z
      <4> QED
        BY <1>5, <4>1
    <3> QED
      BY <1>3, <3>1, <3>2
  <2>2. ASSUME NEW j \in 1..(z + 1), NEW i \in 1..(j - 1)
        PROVE  stack'[i].dir \in Above[stack'[j].dir] /\ stack'[i].dir # stack'[j].dir
    <3>1. CASE j = z + 1
      <4>1. i \in 1..z
        BY <1>3, <3>1
      <4> QED
        BY <1>2, <1>3, <2>1, <3>1, <4>1
    <3>2. CASE j \in 1..z
      <4>1. i \in 1..z
        BY <1>3, <3>2
      <4> QED
        BY <1>3, <3>2, <4>1 DEF Deeper, NothingTwice, z
    <3> QED
      BY <1>4, <3>1, <3>2
  <2> QED
    BY <1>3, <2>2 DEF Deeper
<1>7. ASSUME NEW i \in 1..(z + 1) PROVE stack'[i].gone \cap stayed' = {}
  <2>1. CASE i = z + 1
    BY <1>2, <1>3, <2>1
  <2>2. CASE i \in 1..z
    BY <1>3, <2>2 DEF NothingTwice, z
  <2> QED
    BY <1>4, <2>1, <2>2
<1>8. ASSUME NEW i \in 1..(z + 1), NEW m \in stack'[i].left \cap stayed'
      PROVE  StillNew(m)'
  <2>1. CASE i \in 1..z
    <3>1. StillNew(m)
      BY <1>3, <1>8, <2>1 DEF NothingTwice, z
    <3>2. m \notin Above[e]
      BY <1>5, <3>1 DEF StillNew, e
    <3> QED
      BY <1>2, <1>3, <3>1, <3>2 DEF StillNew
  <2>2. CASE i = z + 1
    <3>1. m \in Nodes \ {Root} /\ Parent[m] = e
      BY <1>2, <1>3, <1>8, <2>2 DEF Children, IInv, TypeOK
    <3>2. m \notin Above[e]
      BY <3>1, AboveAcyclic
    <3>3. ASSUME NEW k \in visited \cap stayed, m \in Above[k] PROVE FALSE
      <4>1. k \in Nodes /\ e \in Above[k]
        BY <3>1, <3>3, AboveClosed DEF IInv, TypeOK
      <4>2. k = e
        BY <4>1, <3>3 DEF NothingTwice, e
      <4> QED
        BY <3>2, <3>3, <4>2
    <3> QED
      BY <1>2, <1>3, <3>2, <3>3 DEF StillNew
  <2> QED
    BY <1>4, <2>1, <2>2
<1> QED
  BY <1>3, <1>6, <1>7, <1>8 DEF NothingTwice

LEMMA TwiceKept ==
  ASSUME IInv, Shape, NothingTwice, mode = "walk", stack' = stack,
         pc' \in {"idle", "descend"} => pc = "idle",
         visited' = visited, stayed' = stayed, mode' = mode
  PROVE  NothingTwice'
<1>1. Top' = Top
  BY DEF Top
<1>2. Deeper'
  BY DEF NothingTwice, Deeper
<1>3. ASSUME NEW i \in 1..Len(stack), NEW m \in stack[i].left \cap stayed
      PROVE  StillNew(m)'
  BY <1>1, <1>3 DEF NothingTwice, StillNew
<1> QED
  BY <1>1, <1>2, <1>3 DEF NothingTwice

LEMMA TwiceChanged ==
  ASSUME IInv, Shape, NothingTwice, mode = "walk",
         NEW n \in Nodes \ {Root}, Create(n) \/ Delete(n)
  PROVE  NothingTwice'
<1>1. n \notin stayed'
  BY DEF Create, Delete, IInv, TypeOK
<1>2. /\ Len(stack) \in Nat /\ Len(stack') = Len(stack)
      /\ pc' = pc /\ visited' = visited /\ stayed' \subseteq stayed
  BY ChangedPlaces
<1>3. \A i \in 1..Len(stack) :
         /\ stack'[i].dir = stack[i].dir /\ stack'[i].entry = stack[i].entry
         /\ stack'[i].left \subseteq stack[i].left \cup {n}
         /\ stack'[i].gone \subseteq stack[i].gone \cup {n}
  BY ChangedPlaces
<1>4. Deeper'
  <2>1. \A j \in 1..Len(stack) : \A i \in 1..(j - 1) : i \in 1..Len(stack)
    BY <1>2
  <2> QED
    BY <1>2, <1>3, <2>1 DEF NothingTwice, Deeper
<1>5. \A i \in 1..Len(stack) : stack'[i].gone \cap stayed' = {}
  BY <1>1, <1>2, <1>3 DEF NothingTwice
<1>6. Len(stack) = 0 \/ Len(stack) \in 1..Len(stack)
  BY <1>2
<1>7. ASSUME NEW i \in 1..Len(stack), NEW m \in stack'[i].left \cap stayed'
      PROVE  StillNew(m)'
  <2>1. StillNew(m)
    BY <1>1, <1>2, <1>3, <1>7 DEF NothingTwice
  <2>2. Len(stack) \in 1..Len(stack)
    BY <1>2, <1>6
  <2>3. Top'.dir = Top.dir /\ Top'.entry = Top.entry
    BY <1>2, <1>3, <2>2 DEF Top
  <2> QED
    BY <1>2, <2>1, <2>3 DEF StillNew
<1>8. ASSUME pc \in {"idle", "descend"}, NEW k \in visited \cap stayed', Top'.entry \in Above[k]
      PROVE  k = Top'.entry
  <2>1. Len(stack) \in 1..Len(stack)
    BY <1>6, <1>8, EmptySeq DEF IInv, TypeOK
  <2>2. Top'.entry = Top.entry
    BY <1>2, <1>3, <2>1 DEF Top
  <2> QED
    BY <1>2, <1>8, <2>2 DEF NothingTwice
<1> QED
  BY <1>2, <1>4, <1>5, <1>7, <1>8 DEF NothingTwice

LEMMA InitTwice == Init => NothingTwice
  BY EmptySeq DEF Init, NothingTwice, Deeper

\* Where a walk is: the steps it takes.
LEMMA WalksOnly ==
  ASSUME IInv, Shape, mode = "walk", [Next]_vars
  PROVE  /\ mode' = mode
         /\ \/ Construct \/ Increment \/ Descend \/ Advance \/ pop \/ disable_recursion_pending
            \/ \E n \in Nodes \ {Root} : Create(n) \/ Delete(n)
            \/ UNCHANGED vars
<1>1. pc \in {"start", "idle", "descend", "advance", "done"}
  BY DEF Shape, PlaceOfMode
<1>2. ~(Erase \/ EraseFile \/ EraseOpen \/ EraseProbe \/ EraseDir \/ EraseNext \/ RemoveRoot)
  BY <1>1 DEF Erase, EraseFile, EraseOpen, EraseProbe, EraseDir, EraseNext, RemoveRoot
<1>3. \/ Construct \/ Increment \/ Descend \/ Advance \/ pop \/ disable_recursion_pending
      \/ \E n \in Nodes \ {Root} : Create(n) \/ Delete(n)
      \/ UNCHANGED vars
  BY <1>2 DEF Next, Step
<1>4. mode' = mode
  <2>1. (\E n \in Nodes \ {Root} : Create(n) \/ Delete(n)) => mode' = mode
    BY DEF Create, Delete
  <2> QED
    BY <1>3, <2>1 DEF Construct, Increment, Descend, Advance, pop, disable_recursion_pending, vars
<1> QED
  BY <1>3, <1>4

LEMMA NextTwice ==
  ASSUME IInv, Shape, NothingTwice, [Next]_vars
  PROVE  NothingTwice'
<1>1. CASE mode # "walk"
  <2>1. mode' = mode
    BY DEF Next, Step, vars, Construct, Increment, Descend, Advance, pop, disable_recursion_pending,
           Erase, EraseFile, EraseOpen, EraseProbe, EraseDir, EraseNext, RemoveRoot, Create, Delete
  <2> QED
    BY <1>1, <2>1 DEF NothingTwice
<1>2. CASE mode = "walk"
  <2>1. /\ mode' = mode
        /\ (stack = <<>>) = (pc \in {"start", "last", "done"})
        /\ stack \in Seq(Level) /\ present \subseteq Nodes
    BY <1>2, WalksOnly DEF IInv, TypeOK, Level
  <2>2. CASE Construct
    <3>1. visited' = {} /\ stayed' = stayed
      BY <2>2 DEF Construct, Shape, PlaceOfMode, tree
    <3>2. CASE Fail
      BY <3>2, EmptySeq DEF Fail, NothingTwice, Deeper
    <3>3. CASE stack' = <<OpenDir(Root)>> /\ pc' = "advance"
      <4> DEFINE l == OpenDir(Root)
      <4>1. l.dir = Root /\ l.gone = {} /\ Root \notin l.left
        BY DEF OpenDir, Children
      <4> HIDE DEF l
      <4>2. Len(stack') = 1 /\ stack'[1] = l /\ Top' = l
        BY <3>3 DEF l, Top
      <4>3. Deeper'
        BY <4>2 DEF Deeper
      <4>4. \A m \in l.left \cap stayed' : StillNew(m)'
        BY <3>1, <3>3, <4>1, <4>2, AboveRoot DEF StillNew
      <4> QED
        BY <3>1, <3>3, <4>1, <4>2, <4>3, <4>4 DEF NothingTwice
    <3> QED
      BY <2>2, <3>2, <3>3 DEF Construct
  <2>3. CASE Increment \/ disable_recursion_pending
    <3>1. /\ stack' = stack /\ visited' = visited /\ stayed' = stayed
          /\ pc' \in {"idle", "descend"} => pc = "idle"
      BY <2>3 DEF Increment, disable_recursion_pending, tree
    <3> QED
      BY <1>2, <2>1, <3>1, TwiceKept
  <2>4. CASE Descend
    <3>1. stack # <<>> /\ OpenDir(Top.entry) \in Level
      BY <2>1, <2>4, OpenedLevel DEF Descend, IInv, ProbeOfTop
    <3>2. CASE Fail
      BY <3>2, EmptySeq DEF Fail, NothingTwice, Deeper
    <3>3. CASE stack' = Append(stack, OpenDir(Top.entry)) /\ pc' = "advance"
      BY <1>2, <2>1, <2>4, <3>1, <3>3, TwiceDescended DEF Descend, tree
    <3> QED
      BY <2>4, <3>2, <3>3 DEF Descend
  <2>5. CASE Advance
    <3>1. stack # <<>> /\ pc = "advance" /\ stayed' = stayed
      BY <2>1, <2>5 DEF Advance, tree
    <3>2. CASE \E l \in Advanced(Top) :
                  /\ stack' = WithTop(l) /\ visited' = visited \cup {l.entry} /\ pc' = "idle"
      BY <1>2, <2>1, <3>1, <3>2, TwiceAdvanced
    <3>3. CASE stack' = Popped /\ visited' = visited /\ pc' \in {"advance", "done"}
      BY <1>2, <2>1, <3>1, <3>3, TwicePopped
    <3> QED
      BY <1>2, <2>5, <3>2, <3>3 DEF Advance, Finished
  <2>6. CASE pop
    <3>1. stack # <<>> /\ stayed' = stayed /\ visited' = visited /\ stack' = Popped
          /\ pc' \in {"advance", "done"}
      BY <2>1, <2>6 DEF pop, tree
    <3> QED
      BY <1>2, <2>1, <3>1, TwicePopped
  <2>7. CASE \E n \in Nodes \ {Root} : Create(n) \/ Delete(n)
    BY <1>2, <2>7, TwiceChanged
  <2>8. CASE UNCHANGED vars
    BY <2>8 DEF vars, NothingTwice, Deeper, StillNew, Top
  <2> QED
    BY <1>2, <2>2, <2>3, <2>4, <2>5, <2>6, <2>7, <2>8, WalksOnly
<1> QED
  BY <1>1, <1>2

LEMMA TwiceInvariance == Spec => [](IInv /\ Shape /\ NothingTwice)
<1>1. Init => IInv /\ Shape /\ NothingTwice
  BY InitIInv, InitShape, InitTwice
<1>2. IInv /\ Shape /\ NothingTwice /\ [Next]_vars => (IInv /\ Shape /\ NothingTwice)'
  BY NextIInv, NextShape, NextTwice
<1> QED
  BY <1>1, <1>2, PTL DEF Spec

\* No walk returns a node twice that was there all the time, into however many
\* directories it descends and whatever other threads create and remove.
THEOREM NothingIsReturnedTwice == Spec => VisitedOnce
<1>1. ASSUME IInv, Shape, NothingTwice, [Next]_vars,
             mode = "walk", pc = "advance", pc' = "idle"
      PROVE  Top.entry' \notin visited \cap stayed
  <2>1. stack # <<>>
    BY <1>1 DEF IInv, TypeOK
  <2>2. mode' = mode /\ Advance
    <3>1. pc' # pc
      BY <1>1
    <3>2. ~(Construct \/ Increment \/ Descend \/ pop \/ disable_recursion_pending \/ UNCHANGED vars)
      BY <1>1, <3>1 DEF Construct, Increment, Descend, pop, disable_recursion_pending, vars
    <3>3. ~ \E n \in Nodes \ {Root} : Create(n) \/ Delete(n)
      BY <3>1 DEF Create, Delete
    <3> QED
      BY <1>1, <3>2, <3>3, WalksOnly
  <2>3. PICK l \in Advanced(Top) : stack' = WithTop(l) /\ visited' = visited \cup {l.entry}
    BY <1>1, <2>2 DEF Advance, Finished
  <2>4. l.entry \notin visited \cap stayed
    BY <1>1, <2>1, <2>2, <2>3, TwiceAdvanced DEF Advance, tree
  <2>5. l \in Level
    BY <1>1, <2>1, Facts, AdvancedName DEF Good
  <2>6. Top' = l
    BY <1>1, <2>1, <2>3, <2>5, WithTopPlaces DEF Top
  <2> QED
    BY <2>4, <2>6
<1>2. ASSUME IInv, Shape, NothingTwice, [Next]_vars
      PROVE  [(mode = "walk" /\ pc = "advance" /\ pc' = "idle") =>
                Top.entry' \notin visited \cap stayed]_vars
  BY <1>1, <1>2
<1> QED
  BY <1>2, TwiceInvariance, PTL DEF Spec, VisitedOnce

-----------------------------------------------------------------------------
(* A walk misses nothing.                                                   *)
\* What a walk has still to come to: what is in or below a name to come, and what
\* is below the entry it stands at while it may descend.
ToVisit(n) ==
    \/ \E i \in 1..Len(stack) : Above[n] \cap stack[i].left # {}
    \/ pc \in {"idle", "descend"} /\ n # Top.entry /\ Top.entry \in Above[n]

NothingMissed ==
    mode = "walk" /\ pc # "start" /\ ~ec /\ ~cut =>
        \A n \in stayed \ {Root} : n \in visited \/ Above[n] \cap pruned # {} \/ ToVisit(n)

\* A directory that is opened gives the way to everything below it.
LEMMA OpenedGives ==
  ASSUME IInv, Shape, pc # "done", NEW d \in Nodes, NEW n \in stayed \ {d}, d \in Above[n]
  PROVE  Above[n] \cap OpenDir(d).left # {}
<1>1. n \in Nodes /\ Above[n] \subseteq stayed /\ stayed \subseteq present
  BY StayedAbove DEF IInv, TypeOK
<1> PICK m \in Above[n] \ {Root} : Parent[m] = d
  BY <1>1, AboveChild
<1>2. m \in Children(d)
  BY <1>1 DEF Children
<1> QED
  BY <1>2 DEF OpenDir

\* Nothing is below what is not a directory.
LEMMA FilesAreLeaves ==
  ASSUME NEW d \in Nodes \ Dirs, NEW n \in Nodes, d \in Above[n]
  PROVE  n = d
<1> SUFFICES ASSUME n # d PROVE FALSE
  OBVIOUS
<1> PICK m \in Above[n] \ {Root} : Parent[m] = d
  BY AboveChild
<1> QED
  BY AboveMember, TreeAssumption

\* At the end of a directory, or where the program leaves the rest of it out,
\* nothing is lost that the levels below had still to give.
LEMMA MissedPopped ==
  ASSUME IInv, Shape, stack # <<>>, stack' = Popped, NEW n \in Nodes,
         \E i \in 1..Len(stack) : Above[n] \cap stack[i].left # {}
  PROVE  Above[n] \cap Top.left # {} \/ \E i \in 1..Len(stack') : Above[n] \cap stack'[i].left # {}
<1> PICK i \in 1..Len(stack) : Above[n] \cap stack[i].left # {}
  OBVIOUS
<1>1. Len(stack) \in Nat \ {0}
  BY Places1
<1>2. CASE i = Len(stack)
  BY <1>2 DEF Top
<1>3. CASE i \in 1..(Len(stack) - 1)
  BY <1>3, Places1
<1> QED
  BY <1>1, <1>2, <1>3

\* An entry that is read is what it stands at, and the rest is still to come.
LEMMA MissedAdvanced ==
  ASSUME IInv, Shape, stack # <<>>, NEW l \in Advanced(Top), stack' = WithTop(l), NEW n \in Nodes,
         \E i \in 1..Len(stack) : Above[n] \cap stack[i].left # {}
  PROVE  \/ l.entry \in Above[n]
         \/ \E i \in 1..Len(stack') : Above[n] \cap stack'[i].left # {}
<1> PICK i \in 1..Len(stack) : Above[n] \cap stack[i].left # {}
  OBVIOUS
<1>1. l \in Level /\ Top.left \ {l.entry} \subseteq l.left
  BY Facts, AdvancedName DEF Good
<1>2. /\ Len(stack) \in Nat \ {0} /\ Len(stack') = Len(stack) /\ stack'[Len(stack)] = l
      /\ \A j \in 1..(Len(stack) - 1) : stack'[j] = stack[j]
  BY <1>1, Places1, WithTopPlaces
<1>3. CASE i = Len(stack)
  BY <1>1, <1>2, <1>3 DEF Top
<1>4. CASE i \in 1..(Len(stack) - 1)
  BY <1>2, <1>4
<1> QED
  BY <1>2, <1>3, <1>4

\* What is still to come after another thread's step.
LEMMA MissedChanged ==
  ASSUME IInv, Shape, pc # "done", NEW o \in Nodes \ {Root}, Create(o) \/ Delete(o),
         NEW n \in stayed', NEW i \in 1..Len(stack), Above[n] \cap stack[i].left # {}
  PROVE  i \in 1..Len(stack') /\ Above[n] \cap stack'[i].left # {}
<1> PICK m \in Above[n] : m \in stack[i].left
  OBVIOUS
<1>1. /\ Len(stack') = Len(stack) /\ stack[i].left \ {o} \subseteq stack'[i].left
      /\ Create(o) => stack[i].left \subseteq stack'[i].left
      /\ stayed' \subseteq stayed /\ pc' = pc
  BY ChangedPlaces
<1>2. CASE Create(o)
  BY <1>1, <1>2
<1>3. CASE Delete(o)
  <2>1. n \in stayed /\ o \notin stayed' /\ stayed' = stayed \ {o}
    BY <1>3 DEF Delete
  <2>2. \A k \in stayed' \ {Root} : Parent[k] \in stayed'
    <3>1. Shape'
      BY RemovingShape
    <3> QED
      BY <3>1 DEF Shape, StayedIsATree
  <2>3. n \in Nodes /\ stayed' \in SUBSET Nodes
    BY <2>1 DEF IInv, TypeOK
  <2>4. Above[n] \subseteq stayed'
    BY <2>2, <2>3, AboveLeast
  <2> QED
    BY <1>1, <2>1, <2>4
<1> QED
  BY <1>2, <1>3

\* What a step has to keep, for one node.
Due(n) == n \in visited \/ Above[n] \cap pruned # {} \/ ToVisit(n)

LEMMA NextMissed ==
  ASSUME IInv, Shape, NothingMissed, [Next]_vars
  PROVE  NothingMissed'
<1> SUFFICES ASSUME mode' = "walk", pc' # "start", ~ec', ~cut', NEW n \in stayed', n # Root
             PROVE  Due(n)'
  BY DEF NothingMissed, Due
<1>1. mode = "walk"
  BY DEF Next, Step, vars, Construct, Increment, Descend, Advance, pop, disable_recursion_pending,
         Erase, EraseFile, EraseOpen, EraseProbe, EraseDir, EraseNext, RemoveRoot, Create, Delete
<1>2. /\ (stack = <<>>) = (pc \in {"start", "last", "done"})
      /\ stack \in Seq(Level) /\ present \subseteq Nodes /\ stayed \subseteq present
      /\ ec \in BOOLEAN /\ cut \in BOOLEAN
  BY DEF IInv, TypeOK, Level
<1>3. stayed' \subseteq stayed
  <2>1. (\E o \in Nodes \ {Root} : Create(o) \/ Delete(o)) => stayed' \subseteq stayed
    BY ChangedPlaces
  <2> QED
    BY <1>1, <2>1, WalksOnly
         DEF vars, tree, Construct, Increment, Descend, Advance, pop, disable_recursion_pending
<1>4. n \in stayed /\ n \in Nodes /\ n \in Above[n]
  BY <1>2, <1>3, AboveMember
<1>5. CASE Construct
  <2>1. stack' = <<OpenDir(Root)>> /\ pc' = "advance" /\ pc = "start"
    BY <1>5 DEF Construct, Fail
  <2>2. Above[n] \cap OpenDir(Root).left # {}
    BY <1>4, <2>1, OpenedGives, AboveMember, TreeAssumption
  <2>3. Len(stack') = 1 /\ stack'[1] = OpenDir(Root)
    BY <2>1
  <2> QED
    BY <2>2, <2>3 DEF Due, ToVisit
<1> SUFFICES ASSUME ~Construct PROVE Due(n)'
  BY <1>5
<1>6. ASSUME pc # "start", ~ec, ~cut PROVE Due(n)
  BY <1>1, <1>4, <1>6 DEF NothingMissed, Due
<1>7. CASE Increment
  <2>1. /\ pc = "idle" /\ stack # <<>> /\ stack' = stack /\ visited' = visited
        /\ pruned \subseteq pruned' /\ Due(n)
    BY <1>2, <1>6, <1>7 DEF Increment
  <2>2. CASE pc' = "descend"
    BY <2>1, <2>2 DEF Due, ToVisit, Top
  <2>3. CASE pc' = "advance"
    <3>1. CASE n # Top.entry /\ Top.entry \in Above[n]
      <4>1. CASE pending
        <5>1. Top.entry \in Nodes \ Dirs
          BY <1>2, <1>7, <2>1, <2>3, <4>1, Facts DEF Increment, ShouldRecurse
        <5> QED
          BY <1>4, <3>1, <5>1, FilesAreLeaves
      <4>2. CASE ~pending
        <5>1. Top.entry \in pruned'
          BY <1>7, <4>2 DEF Increment
        <5> QED
          BY <3>1, <5>1 DEF Due
      <4> QED
        BY <4>1, <4>2
    <3>2. CASE ~(n # Top.entry /\ Top.entry \in Above[n])
      BY <2>1, <3>2 DEF Due, ToVisit
    <3> QED
      BY <3>1, <3>2
  <2> QED
    BY <1>7, <2>2, <2>3 DEF Increment
<1>8. CASE Descend
  <2>1. /\ pc = "descend" /\ stack # <<>> /\ pc' = "advance" /\ visited' = visited
        /\ pruned' = pruned /\ stack' = Append(stack, OpenDir(Top.entry)) /\ Due(n)
        /\ Top.entry \in Dirs /\ Top.entry \in Nodes
    BY <1>2, <1>6, <1>8, Facts DEF Descend, Fail, IInv, ProbeOfTop
  <2> DEFINE l == OpenDir(Top.entry)
  <2>2. l \in Level
    BY <1>2, <2>1, OpenedLevel
  <2>3. /\ Len(stack) \in Nat /\ Len(stack') = Len(stack) + 1 /\ stack'[Len(stack) + 1] = l
        /\ \A i \in 1..Len(stack) : stack'[i] = stack[i]
    BY <1>2, <2>1, <2>2, PushedPlaces
  <2>4. CASE n # Top.entry /\ Top.entry \in Above[n]
    <3>1. Above[n] \cap l.left # {}
      BY <1>4, <2>1, <2>4, OpenedGives
    <3>2. Len(stack) + 1 \in 1..Len(stack')
      BY <2>3
    <3> HIDE DEF l
    <3> QED
      BY <2>3, <3>1, <3>2 DEF Due, ToVisit
  <2>5. CASE \E i \in 1..Len(stack) : Above[n] \cap stack[i].left # {}
    <3> PICK i \in 1..Len(stack) : Above[n] \cap stack[i].left # {}
      BY <2>5
    <3>1. i \in 1..Len(stack') /\ stack'[i] = stack[i]
      BY <2>3
    <3> QED
      BY <3>1 DEF Due, ToVisit
  <2> QED
    BY <2>1, <2>4, <2>5 DEF Due, ToVisit
<1>9. CASE Advance
  <2>1. pc = "advance" /\ stack # <<>> /\ pruned' = pruned
    BY <1>2, <1>9 DEF Advance
  <2>2. CASE \E l \in Advanced(Top) :
                /\ stack' = WithTop(l) /\ visited' = visited \cup {l.entry}
                /\ pc' = "idle" /\ cut' = cut
    <3> PICK l \in Advanced(Top) : /\ stack' = WithTop(l) /\ visited' = visited \cup {l.entry}
                                   /\ pc' = "idle" /\ cut' = cut
      BY <2>2
    <3>1. Due(n)
      BY <1>2, <1>6, <1>9, <2>1 DEF Advance
    <3>2. CASE \E i \in 1..Len(stack) : Above[n] \cap stack[i].left # {}
      <4>1. \/ l.entry \in Above[n]
            \/ \E i \in 1..Len(stack') : Above[n] \cap stack'[i].left # {}
        BY <1>4, <2>1, <3>2, MissedAdvanced
      <4>2. l \in Level
        BY <2>1, Facts, AdvancedName DEF Good
      <4>3. Top' = l
        BY <2>1, <4>2, WithTopPlaces DEF Top
      <4> QED
        BY <4>1, <4>3 DEF Due, ToVisit
    <3> QED
      BY <2>1, <3>1, <3>2 DEF Due, ToVisit
  <2>3. CASE Ends(Top) /\ stack' = Popped /\ visited' = visited
    <3>1. Top.left = {} /\ ~cut
      BY <1>2, <2>3 DEF Ends
    <3>2. Due(n)
      BY <1>2, <1>6, <1>9, <2>1, <3>1 DEF Advance
    <3>3. (\E i \in 1..Len(stack) : Above[n] \cap stack[i].left # {}) =>
             \E i \in 1..Len(stack') : Above[n] \cap stack'[i].left # {}
      BY <1>4, <2>1, <2>3, <3>1, MissedPopped
    <3> QED
      BY <2>1, <2>3, <3>2, <3>3 DEF Due, ToVisit
  <2> QED
    BY <1>9, <2>2, <2>3 DEF Advance
<1>10. CASE pop
  <2>1. /\ pc = "idle" /\ stack # <<>> /\ stack' = Popped /\ visited' = visited
        /\ pruned' = pruned \cup Top.left \cup {Top.entry} /\ Due(n)
    BY <1>2, <1>6, <1>10 DEF pop
  <2>2. (\E i \in 1..Len(stack) : Above[n] \cap stack[i].left # {}) =>
           \/ Above[n] \cap Top.left # {}
           \/ \E i \in 1..Len(stack') : Above[n] \cap stack'[i].left # {}
    BY <1>4, <2>1, MissedPopped
  <2> QED
    BY <2>1, <2>2 DEF Due, ToVisit
<1>11. CASE disable_recursion_pending
  BY <1>6, <1>11 DEF disable_recursion_pending, Due, ToVisit, Top
<1>12. CASE \E o \in Nodes \ {Root} : Create(o) \/ Delete(o)
  <2> PICK o \in Nodes \ {Root} : Create(o) \/ Delete(o)
    BY <1>12
  <2>1. /\ pc' = pc /\ ec' = ec /\ cut' = cut /\ visited' = visited /\ pruned' = pruned
        /\ Len(stack) \in Nat /\ Len(stack') = Len(stack)
        /\ \A i \in 1..Len(stack) : stack'[i].entry = stack[i].entry
    BY ChangedPlaces
  <2>2. Due(n)
    BY <1>6, <2>1
  <2>3. CASE \E i \in 1..Len(stack) : Above[n] \cap stack[i].left # {}
    <3>1. pc # "done"
      BY <1>2, <2>3, EmptySeq
    <3> QED
      BY <2>3, <3>1, MissedChanged DEF Due, ToVisit
  <2>4. CASE pc \in {"idle", "descend"} /\ n # Top.entry /\ Top.entry \in Above[n]
    <3>1. Len(stack) \in 1..Len(stack)
      BY <1>2, <2>1, <2>4, EmptySeq
    <3>2. Top'.entry = Top.entry
      BY <2>1, <3>1 DEF Top
    <3> QED
      BY <2>1, <2>4, <3>2 DEF Due, ToVisit
  <2> QED
    BY <2>1, <2>2, <2>3, <2>4 DEF Due, ToVisit
<1>13. CASE UNCHANGED vars
  BY <1>6, <1>13 DEF vars, Due, ToVisit, Top
<1> QED
  BY <1>1, <1>7, <1>8, <1>9, <1>10, <1>11, <1>12, <1>13, WalksOnly

LEMMA MissedInvariance == Spec => [](IInv /\ Shape /\ NothingMissed)
<1>1. Init => IInv /\ Shape /\ NothingMissed
  BY InitIInv, InitShape DEF Init, NothingMissed
<1>2. IInv /\ Shape /\ NothingMissed /\ [Next]_vars => (IInv /\ Shape /\ NothingMissed)'
  BY NextIInv, NextShape, NextMissed
<1> QED
  BY <1>1, <1>2, PTL DEF Spec

\* A walk that ends without an error, where no failure was taken for the end of
\* a directory, has returned every node that was there all the time, or the
\* program left out one above it, whatever other threads create and remove.
THEOREM WalksAreComplete == Spec => []WalkIsComplete
<1>1. IInv /\ Shape /\ NothingMissed => WalkIsComplete
  <2> SUFFICES ASSUME IInv, NothingMissed, pc = "done", mode = "walk", ~ec, ~cut,
                      NEW n \in stayed \ {Root}
               PROVE  n \in visited \/ Above[n] \cap pruned # {}
    BY DEF WalkIsComplete
  <2>1. stack = <<>> /\ Len(stack) = 0
    BY EmptySeq DEF IInv, TypeOK
  <2> QED
    BY <2>1 DEF NothingMissed, ToVisit
<1> QED
  BY <1>1, MissedInvariance, PTL

-----------------------------------------------------------------------------
(* An erasure leaves nothing behind but open files in the root.  An open    *)
(* file further down is still due, since it is below the directory that the *)
(* iterator goes back to.                                                   *)
\* What __erase has still to come to: the same, and what is in or below the
\* entry of a level, unless that is removed.
Stands(i) == i < Len(stack) \/ pc \notin {"advance", "next"}
DueAt(n, i) ==
    \/ Above[n] \cap stack[i].left # {}
    \/ Stands(i) /\ stack[i].entry \in Above[n] \ {Root}
ToErase(n) == \E i \in 1..Len(stack) : DueAt(n, i)

MayStay(n) == n \in Opened /\ Parent[n] = Root

NothingKept ==
    mode = "erase" /\ pc \notin {"start", "done"} /\ ~cut =>
        \A n \in stayed \ {Root} : ToErase(n) \/ MayStay(n)

LEMMA ErasesOnly ==
  ASSUME IInv, Shape, mode = "erase", [Next]_vars
  PROVE  \/ Construct \/ Advance
         \/ Erase \/ EraseFile \/ EraseOpen \/ EraseProbe \/ EraseDir \/ EraseNext \/ RemoveRoot
         \/ \E n \in Nodes \ {Root} : Create(n) \/ Delete(n)
         \/ UNCHANGED vars
<1>1. ~(Increment \/ pop \/ disable_recursion_pending \/ Descend)
  BY DEF Increment, pop, disable_recursion_pending, Descend, Shape, PlaceOfMode
<1> QED
  BY <1>1 DEF Next, Step

\* The iterator stays where it is, and what was removed is not to come.
LEMMA KeptWhereItStands ==
  ASSUME stack' = stack, NEW n \in Nodes, ToErase(n),
         \A i \in 1..Len(stack) : Stands(i) /\ stack[i].entry \in Above[n] \ {Root} => Stands(i)'
  PROVE  ToErase(n)'
  BY DEF ToErase, DueAt

\* The entry is removed, with all that is below it.
LEMMA KeptWhenRemoved ==
  ASSUME IInv, stack # <<>>, stack' = stack, NEW n \in Nodes, ToErase(n), Top.entry \notin Above[n]
  PROVE  ToErase(n)'
<1>1. Len(stack) \in Nat \ {0}
  BY Places1
<1>2. \A i \in 1..Len(stack) : i = Len(stack) \/ Stands(i)'
  BY <1>1 DEF Stands
<1> QED
  BY <1>2, KeptWhereItStands DEF Top

\* The entry is an open file, which is only marked: it is below the entry that the
\* level above stands at.
LEMMA KeptMarked ==
  ASSUME IInv, Shape, stack # <<>>, stack' = stack, NEW n \in Nodes \ {Root}, n = Top.entry,
         n \in Opened, ~MayStay(n)
  PROVE  ToErase(n)'
<1>1. /\ Len(stack) \in Nat \ {0}
      /\ Parent[n] = stack[Len(stack)].dir
      /\ Parent[n] # Root
      /\ stack[1].dir = Root
      /\ \A i \in 1..(Len(stack) - 1) : stack[i + 1].dir = stack[i].entry
  BY Places1 DEF IInv, IsPath, Good, EntryInDirectory, Top, MayStay
<1> DEFINE i == Len(stack) - 1
<1>2. i \in 1..Len(stack) /\ i < Len(stack) /\ stack[i].entry = Parent[n]
  BY <1>1
<1>3. Parent[n] \in Above[n] \ {Root}
  BY <1>1, AboveMember, AboveClosed
<1> QED
  BY <1>2, <1>3 DEF ToErase, DueAt, Stands

LEMMA KeptAdvanced ==
  ASSUME IInv, Shape, stack # <<>>, pc \in {"advance", "next"}, NEW l \in Advanced(Top),
         stack' = WithTop(l), pc' = "idle", NEW n \in Nodes, ToErase(n)
  PROVE  ToErase(n)'
<1>1. l \in Level /\ Top.left \ {l.entry} \subseteq l.left /\ l.entry # Root
  BY Facts, AdvancedName DEF Good
<1>2. /\ Len(stack) \in Nat \ {0} /\ Len(stack') = Len(stack) /\ stack'[Len(stack)] = l
      /\ \A j \in 1..(Len(stack) - 1) : stack'[j] = stack[j]
  BY <1>1, Places1, WithTopPlaces
<1> PICK i \in 1..Len(stack) : DueAt(n, i)
  BY DEF ToErase, DueAt
<1>3. i \in 1..Len(stack') /\ Stands(i)'
  BY <1>2 DEF Stands
<1>4. CASE i = Len(stack)
  <2>1. ~Stands(i)
    BY <1>2, <1>4 DEF Stands
  <2>2. Above[n] \cap Top.left # {}
    BY <1>4, <2>1 DEF DueAt, Top
  <2>3. Above[n] \cap l.left # {} \/ l.entry \in Above[n]
    BY <1>1, <2>2
  <2> QED
    BY <1>1, <1>2, <1>3, <1>4, <2>3 DEF ToErase, DueAt
<1>5. CASE i \in 1..(Len(stack) - 1)
  BY <1>2, <1>3, <1>5 DEF ToErase, DueAt
<1> QED
  BY <1>2, <1>4, <1>5

LEMMA KeptPopped ==
  ASSUME IInv, Shape, stack # <<>>, pc \in {"advance", "next"}, Top.left = {},
         stack' = Popped, pc' = "idle" \/ Len(stack) = 1, NEW n \in Nodes, ToErase(n)
  PROVE  ToErase(n)'
<1>1. /\ Len(stack) \in Nat \ {0} /\ Len(stack') = Len(stack) - 1
      /\ \A j \in 1..(Len(stack) - 1) : stack'[j] = stack[j]
  BY Places1
<1> PICK i \in 1..Len(stack) : DueAt(n, i)
  BY DEF ToErase, DueAt
<1>2. i # Len(stack)
  <2>1. i = Len(stack) => ~Stands(i)
    BY <1>1 DEF Stands
  <2> QED
    BY <2>1 DEF DueAt, Top
<1>3. i \in 1..(Len(stack) - 1) /\ i \in 1..Len(stack')
  BY <1>1, <1>2
<1>4. pc' = "idle"
  BY <1>1, <1>3
<1> QED
  BY <1>1, <1>3, <1>4 DEF ToErase, DueAt, Stands

LEMMA KeptPushed ==
  ASSUME IInv, Shape, stack # <<>>, NEW l \in Level, stack' = Append(stack, l),
         NEW n \in Nodes, ToErase(n)
  PROVE  ToErase(n)'
<1>1. /\ Len(stack) \in Nat /\ Len(stack') = Len(stack) + 1
      /\ \A j \in 1..Len(stack) : stack'[j] = stack[j]
  BY Facts, PushedPlaces
<1> PICK i \in 1..Len(stack) : DueAt(n, i)
  BY DEF ToErase, DueAt
<1>2. i \in 1..Len(stack') /\ Stands(i)'
  BY <1>1 DEF Stands
<1> QED
  BY <1>1, <1>2 DEF ToErase, DueAt

LEMMA KeptChanged ==
  ASSUME IInv, Shape, pc # "done", NEW o \in Nodes \ {Root}, Create(o) \/ Delete(o),
         NEW n \in stayed', n \in Nodes, ToErase(n)
  PROVE  ToErase(n)'
<1>1. /\ Len(stack') = Len(stack) /\ pc' = pc
      /\ \A i \in 1..Len(stack) : stack'[i].entry = stack[i].entry
  BY ChangedPlaces
<1> PICK i \in 1..Len(stack) : DueAt(n, i)
  BY DEF ToErase, DueAt
<1>2. CASE Above[n] \cap stack[i].left # {}
  BY <1>2, MissedChanged DEF ToErase, DueAt
<1>3. CASE Stands(i) /\ stack[i].entry \in Above[n] \ {Root}
  BY <1>1, <1>3 DEF ToErase, DueAt, Stands
<1> QED
  BY <1>2, <1>3 DEF DueAt

LEMMA NextKept ==
  ASSUME IInv, Shape, NothingKept, [Next]_vars
  PROVE  NothingKept'
<1> SUFFICES ASSUME mode' = "erase", pc' \notin {"start", "done"}, ~cut', NEW n \in stayed', n # Root,
                    ~MayStay(n)
             PROVE  ToErase(n)'
  BY DEF NothingKept
<1>1. mode = "erase"
  BY DEF Next, Step, vars, Construct, Increment, Descend, Advance, pop, disable_recursion_pending,
         Erase, EraseFile, EraseOpen, EraseProbe, EraseDir, EraseNext, RemoveRoot, Create, Delete
<1>2. /\ (stack = <<>>) = (pc \in {"start", "last", "done"})
      /\ stack \in Seq(Level) /\ present \subseteq Nodes /\ stayed \subseteq present /\ cut \in BOOLEAN
      /\ probe \in Level /\ InDirectory(probe)
  BY DEF IInv, TypeOK, Level
<1>3. stayed' \subseteq stayed
  <2>1. (\E o \in Nodes \ {Root} : Create(o) \/ Delete(o)) => stayed' \subseteq stayed
    BY ChangedPlaces
  <2> QED
    BY <1>1, <2>1, ErasesOnly
         DEF vars, tree, Construct, Advance, Erase, EraseFile, EraseOpen, EraseProbe, EraseDir,
             EraseNext, RemoveRoot, Unlinked, InPart
<1>4. n \in stayed /\ n \in Nodes /\ n \in Above[n]
  BY <1>2, <1>3, AboveMember
<1>5. CASE Construct
  <2>1. stack' = <<OpenDir(Root)>> /\ pc = "start"
    BY <1>5 DEF Construct, Fail
  <2>2. Above[n] \cap OpenDir(Root).left # {}
    BY <1>4, <2>1, OpenedGives, AboveMember, TreeAssumption
  <2>3. Len(stack') = 1 /\ stack'[1] = OpenDir(Root)
    BY <2>1
  <2> QED
    BY <2>2, <2>3 DEF ToErase, DueAt
<1>6. ASSUME pc \notin {"start", "done"}, ~cut PROVE ToErase(n)
  BY <1>1, <1>4, <1>6 DEF NothingKept
<1>7. CASE Advance \/ EraseNext
  <2>1. pc \in {"advance", "next"} /\ stack # <<>>
    BY <1>2, <1>7 DEF Advance, EraseNext
  <2>2. CASE \E l \in Advanced(Top) : stack' = WithTop(l) /\ pc' = "idle" /\ cut' = cut
    BY <1>4, <1>6, <2>1, <2>2, KeptAdvanced
  <2>3. CASE Ends(Top) /\ stack' = Popped
    <3>1. Top.left = {} /\ ~cut
      BY <1>2, <2>3 DEF Ends
    <3>2. pc' = "idle" \/ Len(stack) = 1
      <4>1. CASE Advance
        BY <1>1, <4>1 DEF Advance, Shape, PlaceOfMode
      <4>2. CASE EraseNext /\ ~Advance
        <5>1. pc = "next"
          BY <4>2 DEF EraseNext
        <5>2. ~(\E l \in Advanced(Top) : stack' = WithTop(l) /\ pc' = "idle" /\ cut' = cut)
              => pc' = "idle" \/ Len(stack) = 1
          BY <4>2 DEF EraseNext
        <5> QED
          BY <5>2
      <4> QED
        BY <1>7, <4>1, <4>2
    <3> QED
      BY <1>4, <1>6, <2>1, <2>3, <3>1, <3>2, KeptPopped
  <2> QED
    BY <1>7, <2>2, <2>3 DEF Advance, EraseNext
<1>8. CASE Erase
  <2>1. pc = "idle" /\ stack' = stack /\ cut' = cut /\ pc' = "erase"
    BY <1>8 DEF Erase
  <2> QED
    BY <1>4, <1>6, <2>1, KeptWhereItStands DEF Stands
<1>9. CASE EraseFile
  <2>1. /\ pc = "erase" /\ stack # <<>> /\ stack' = stack /\ cut' = cut /\ pc' = "next"
        /\ Top.entry \notin Dirs /\ stayed' = stayed \ ({Top.entry} \ Opened)
    BY <1>2, <1>9 DEF EraseFile, Fail, Unlinked
  <2>2. Top.entry \in Nodes \ Dirs
    BY <2>1, Facts
  <2>3. CASE n # Top.entry
    <3>1. Top.entry \notin Above[n]
      BY <1>4, <2>2, <2>3, FilesAreLeaves
    <3> QED
      BY <1>4, <1>6, <2>1, <3>1, KeptWhenRemoved
  <2>4. CASE n = Top.entry
    BY <1>4, <2>1, <2>4, KeptMarked
  <2> QED
    BY <2>3, <2>4
<1>10. CASE EraseOpen
  <2>1. pc = "erase" /\ stack' = stack /\ cut' = cut /\ pc' = "probe"
    BY <1>10 DEF EraseOpen, Fail
  <2> QED
    BY <1>4, <1>6, <2>1, KeptWhereItStands DEF Stands
<1>11. CASE EraseProbe
  <2>1. pc = "probe" /\ stack # <<>> /\ ~cut
    BY <1>2, <1>11 DEF EraseProbe, Ends
  <2>2. CASE \E l \in Advanced(probe) : stack' = Append(stack, l)
    BY <1>2, <1>4, <1>6, <2>1, <2>2, AdvancedName, KeptPushed
  <2>3. CASE pc' = "rmdir" /\ stack' = stack
    BY <1>4, <1>6, <2>1, <2>3, KeptWhereItStands DEF Stands
  <2> QED
    BY <1>11, <2>2, <2>3 DEF EraseProbe
<1>12. CASE EraseDir
  <2>1. pc = "rmdir" /\ stack # <<>> /\ stack' = stack /\ cut' = cut
    BY <1>2, <1>12 DEF EraseDir, Fail
  <2>2. CASE Unlinked(Below(Top.entry)) /\ pc' = "next"
    <3>1. Top.entry \notin Above[n]
      BY <1>4, <2>2 DEF Unlinked, Below
    <3> QED
      BY <1>4, <1>6, <2>1, <3>1, KeptWhenRemoved
  <2>3. CASE pc' = "erase"
    BY <1>4, <1>6, <2>1, <2>3, KeptWhereItStands DEF Stands
  <2> QED
    BY <1>12, <2>2, <2>3 DEF EraseDir, Fail
<1>13. CASE RemoveRoot
  BY <1>13 DEF RemoveRoot, Fail
<1>14. CASE \E o \in Nodes \ {Root} : Create(o) \/ Delete(o)
  <2> PICK o \in Nodes \ {Root} : Create(o) \/ Delete(o)
    BY <1>14
  <2>1. pc' = pc /\ cut' = cut
    BY ChangedPlaces
  <2> QED
    BY <1>4, <1>6, <2>1, KeptChanged
<1>15. CASE UNCHANGED vars
  <2>1. stack' = stack /\ pc' = pc /\ cut' = cut
    BY <1>15 DEF vars
  <2> QED
    BY <1>4, <1>6, <2>1, KeptWhereItStands DEF Stands
<1> QED
  BY <1>1, <1>5, <1>7, <1>8, <1>9, <1>10, <1>11, <1>12, <1>13, <1>14, <1>15, ErasesOnly

LEMMA KeptInvariance == Spec => [](IInv /\ Shape /\ NothingKept)
<1>1. Init => IInv /\ Shape /\ NothingKept
  BY InitIInv, InitShape DEF Init, NothingKept
<1>2. IInv /\ Shape /\ NothingKept /\ [Next]_vars => (IInv /\ Shape /\ NothingKept)'
  BY NextIInv, NextShape, NextKept
<1> QED
  BY <1>1, <1>2, PTL DEF Spec

\* Of what was there all the time __erase leaves nothing for the removal of the
\* directory itself but files in it that some program has open, whatever other
\* threads create and remove and whatever fails.
THEOREM ErasuresAreComplete == Spec => []EraseIsComplete
<1>1. IInv /\ Shape /\ NothingKept => EraseIsComplete
  <2> SUFFICES ASSUME IInv, Shape, NothingKept, pc = "last", ~cut
               PROVE  \A n \in stayed \ {Root} : MayStay(n)
    BY DEF EraseIsComplete, MayStay
  <2>1. stack = <<>> /\ Len(stack) = 0 /\ mode \in {"walk", "erase"}
    BY EmptySeq DEF IInv, TypeOK
  <2>2. mode = "erase" /\ Root \in stayed
    BY <2>1 DEF Shape, PlaceOfMode, StayedIsATree
  <2> QED
    BY <2>1, <2>2 DEF NothingKept, ToErase
<1> QED
  BY <1>1, KeptInvariance, PTL

=============================================================================
