------------------------------ MODULE DirWalk -------------------------------
(***************************************************************************)
(* The recursive directory iterator, and remove_all which it carries out:  *)
(* a stack of directories that are being read.  Every call it makes of the *)
(* virtual filesystem (opendir, readdir, unlink) is a step, and other      *)
(* threads create and remove files between them.  A directory is read as   *)
(* DirListing promises: a level keeps the names that are still to come.    *)
(***************************************************************************)
EXTENDS Naturals, Sequences, FiniteSets

CONSTANTS Nodes,    \* the files and directories there may be
          Root,     \* the directory the iterator is started on
          Parent,   \* the directory of each other node
          Dirs,     \* the nodes that are directories
          Opened,   \* the files that some program has open as long as they are there
          Fails,    \* whether the device may fail
          Changes   \* bound on what other threads create and remove

\* A node and the directories it is in: the least set with the node and with the
\* directory of each of its members.
Above == [n \in Nodes |->
    {d \in Nodes : \A S \in SUBSET Nodes :
        n \in S /\ (\A k \in S \ {Root} : Parent[k] \in S) => d \in S}]

ASSUME TreeAssumption ==
    /\ Root \in Dirs /\ Dirs \subseteq Nodes
    /\ Parent \in [Nodes \ {Root} -> Dirs]
    /\ \A n \in Nodes : Root \in Above[n]
    /\ Opened \subseteq Nodes \ Dirs
    /\ Fails \in BOOLEAN
    /\ Changes \in Nat

VARIABLES present,  \* the nodes that have a name
          mode,     \* what the iterator is used for: "walk" or "erase"
          pc,       \* where in which of its functions it is
          stack,    \* _M_dirs: the directories being read, the deepest last
          probe,    \* the local dir of __erase
          pending,  \* whether the next increment may descend
          ec,       \* whether the last call reported an error

          \* for the properties only
          visited,  \* the nodes returned to the program
          stayed,   \* the nodes there from the start on and never removed
          pruned,   \* the nodes the program chose not to visit, or below
          cut,      \* whether a failed read was taken for the end of a directory
          changes   \* what is left of Changes

tree == <<present, stayed, changes>>
vars == <<present, mode, pc, stack, probe, pending, ec, visited, stayed, pruned, cut, changes>>

Children(d) == {n \in present \ {Root} : Parent[n] = d}
Below(d) == {n \in Nodes : d \in Above[n]}

-----------------------------------------------------------------------------
(* A level of the stack: a directory, the entry it stands at, the names to  *)
(* come, and the removed names that may still come.                         *)
NoLevel == [dir |-> Root, entry |-> Root, left |-> {}, gone |-> {}]
OpenDir(d) == [dir |-> d, entry |-> Root, left |-> Children(d), gone |-> {}]

\* _Dir::advance: the level at its next entry, one for each name that may come.
\* readdir reports a failure of the device as the end.
Advanced(l) ==
    {[l EXCEPT !.entry = n, !.left = @ \ {n}] : n \in l.left} \cup
    {[l EXCEPT !.entry = n, !.gone = @ \ {n}] : n \in l.gone}
Ends(l) ==
    /\ l.left = {} \/ Fails
    /\ cut' = (cut \/ l.left # {})

Top == stack[Len(stack)]
\* A fault for TLC to find: the first directory of the stack is taken off.
PoppedFromFront == Tail(stack)
Popped == SubSeq(stack, 1, Len(stack) - 1)
WithTop(l) == Append(Popped, l)

\* Where the iterator is when it has become the end iterator.
Finished == IF mode = "erase" THEN "last" ELSE "done"

\* A call that failed: the iterator is reset.
Fail ==
    /\ ec' = TRUE
    /\ stack' = <<>>
    /\ pc' = "done"

\* The types, and that the iterator is at its end exactly when no directory is open.
TypeOK ==
    LET Level == [dir : Dirs, entry : Nodes, left : SUBSET Nodes, gone : SUBSET Nodes]
    IN  /\ present \subseteq Nodes
        /\ (stack = <<>>) = (pc \in {"start", "last", "done"})
        /\ mode \in {"walk", "erase"}
        /\ pc \in {"start", "idle", "descend", "advance", "erase", "probe", "rmdir",
                   "next", "last", "done"}
        /\ stack \in Seq(Level)
        /\ probe \in Level
        /\ pending \in BOOLEAN /\ ec \in BOOLEAN
        /\ visited \subseteq Nodes /\ stayed \subseteq present /\ pruned \subseteq Nodes
        /\ cut \in BOOLEAN
        /\ changes \in 0..Changes

\* Any tree to begin with in which the directory of a node is there.
Init ==
    /\ present \in {P \in SUBSET Nodes : Root \in P /\ \A n \in P : Above[n] \subseteq P}
    /\ mode \in {"walk", "erase"}
    /\ pc = "start"
    /\ stack = <<>>
    /\ probe = NoLevel
    /\ pending = TRUE
    /\ ec = FALSE
    /\ visited = {}
    /\ stayed = present
    /\ pruned = {}
    /\ cut = FALSE
    /\ changes = Changes

-----------------------------------------------------------------------------
(* Walking.                                                                 *)

\* The constructor opens the directory; its advance is the step Advance.
Construct ==
    /\ pc = "start"
    /\ \/ /\ stack' = <<OpenDir(Root)>>
          /\ pc' = "advance"
          /\ UNCHANGED ec
       \/ Fails /\ Fail
    /\ UNCHANGED <<tree, mode, probe, pending, visited, pruned, cut>>

\* should_recurse: a symbolic link has no type in the wrapper's entries, so that
\* its status is asked for, and is not followed even where the options say so.
ShouldRecurse(n) == n \in Dirs

\* increment: the decision to descend.
Increment ==
    /\ pc = "idle" /\ mode = "walk"
    /\ pending' = TRUE
    /\ pc' = IF pending /\ ShouldRecurse(Top.entry) THEN "descend" ELSE "advance"
    /\ pruned' = IF pending THEN pruned ELSE pruned \cup {Top.entry}
    /\ UNCHANGED <<tree, mode, stack, probe, ec, visited, cut>>

\* increment: open_subdir.
Descend ==
    /\ pc = "descend"
    /\ \/ /\ Top.entry \in present
          /\ stack' = Append(stack, OpenDir(Top.entry))
          /\ pc' = "advance"
          /\ UNCHANGED ec
       \/ /\ Top.entry \notin present \/ Fails
          /\ Fail
    /\ UNCHANGED <<tree, mode, probe, pending, visited, pruned, cut>>

\* Faults for TLC to find: at the end of a directory the iterator stops at the
\* entry above without reading on, or ends altogether.
AdvanceOnce ==
    /\ pc = "advance"
    /\ \/ \E l \in Advanced(Top) :
             stack' = WithTop(l) /\ visited' = visited \cup {l.entry} /\ pc' = "idle" /\ UNCHANGED cut
       \/ /\ Ends(Top)
          /\ stack' = Popped
          /\ pc' = IF Len(stack) = 1 THEN Finished ELSE "idle"
          /\ UNCHANGED visited
    /\ UNCHANGED <<tree, mode, probe, pending, ec, pruned>>

AdvanceEndsAll ==
    /\ pc = "advance"
    /\ \/ \E l \in Advanced(Top) :
             stack' = WithTop(l) /\ visited' = visited \cup {l.entry} /\ pc' = "idle" /\ UNCHANGED cut
       \/ Ends(Top) /\ stack' = <<>> /\ pc' = Finished /\ UNCHANGED visited
    /\ UNCHANGED <<tree, mode, probe, pending, ec, pruned>>

\* The loop of the constructor, increment and pop: read on; at the end of a
\* directory go on in the one above it.
Advance ==
    /\ pc = "advance"
    /\ \/ \E l \in Advanced(Top) :
             /\ stack' = WithTop(l)
             /\ visited' = visited \cup {l.entry}
             /\ pc' = "idle"
             /\ UNCHANGED cut
       \/ /\ Ends(Top)
          /\ stack' = Popped
          /\ pc' = IF Len(stack) = 1 THEN Finished ELSE "advance"
          /\ UNCHANGED visited
    /\ UNCHANGED <<tree, mode, probe, pending, ec, pruned>>

pop ==
    /\ pc = "idle" /\ mode = "walk"
    /\ stack' = Popped
    /\ pc' = IF Len(stack) = 1 THEN "done" ELSE "advance"
    /\ pruned' = pruned \cup Top.left \cup {Top.entry}
    /\ UNCHANGED <<tree, mode, probe, pending, ec, visited, cut>>

disable_recursion_pending ==
    /\ pc = "idle" /\ mode = "walk"
    /\ pending' = FALSE
    /\ UNCHANGED <<tree, mode, pc, stack, probe, ec, visited, pruned, cut>>

-----------------------------------------------------------------------------
(* Erasing: remove_all calls __erase until the iterator is at its end, then *)
(* removes the directory itself.                                            *)
Erase ==
    /\ pc = "idle" /\ mode = "erase"
    /\ pc' = "erase"
    /\ UNCHANGED <<tree, mode, stack, probe, pending, ec, visited, pruned, cut>>

\* What is left when nodes are unlinked; the wrapper removes directories with
\* all they contain.
Unlinked(N) ==
    /\ present' = present \ N
    /\ stayed' = stayed \ N

\* A removal that fails has removed some of it, from the leaves.
InPart(d) ==
    \E N \in SUBSET (Below(d) \cap present) :
        /\ \A n \in N : Children(n) \subseteq N
        /\ Unlinked(N)

\* do_unlink of a file: a file that is open is only marked.  A file that another
\* thread removed is neither a success nor an error: the loop spins.
Spins == pc = "erase" /\ Top.entry \notin Dirs /\ Top.entry \notin present

\* An open file below the directories of Root is marked once in each round: its
\* directory is opened again to see whether it is empty.
MarksAgain == pc = "erase" /\ Top.entry \in Opened \cap present /\ Top.dir # Root

EraseFile ==
    /\ pc = "erase" /\ Top.entry \notin Dirs
    /\ Top.entry \in present
    /\ \/ /\ Unlinked({Top.entry} \ Opened)
          /\ pc' = "next"
          /\ UNCHANGED <<stack, ec>>
       \/ Fails /\ Unlinked({}) /\ Fail
    /\ UNCHANGED <<mode, probe, pending, visited, pruned, cut, changes>>

\* A fault for TLC to find: an error of open_subdir does not end the loop.
EraseOpenIgnores ==
    /\ pc = "erase" /\ Top.entry \in Dirs
    /\ Top.entry \in present
    /\ probe' = OpenDir(Top.entry)
    /\ pc' = "probe"
    /\ UNCHANGED <<stack, ec>>
    /\ UNCHANGED <<tree, mode, pending, visited, pruned, cut>>

\* A directory is opened to see whether it is empty.
EraseOpen ==
    /\ pc = "erase" /\ Top.entry \in Dirs
    /\ \/ /\ Top.entry \in present
          /\ probe' = OpenDir(Top.entry)
          /\ pc' = "probe"
          /\ UNCHANGED <<stack, ec>>
       \/ /\ Top.entry \notin present \/ Fails
          /\ Fail
          /\ UNCHANGED probe
    /\ UNCHANGED <<tree, mode, pending, visited, pruned, cut>>

EraseProbe ==
    /\ pc = "probe"
    /\ \/ \E l \in Advanced(probe) :
             /\ stack' = Append(stack, l)
             /\ pc' = "erase"
             /\ UNCHANGED cut
       \/ /\ Ends(probe)
          /\ pc' = "rmdir"
          /\ UNCHANGED stack
    /\ probe' = NoLevel
    /\ UNCHANGED <<tree, mode, pending, ec, visited, pruned>>

EraseDir ==
    /\ pc = "rmdir"
    /\ \/ /\ Top.entry \in present
          /\ Unlinked(Below(Top.entry))
          /\ pc' = "next"
          /\ UNCHANGED <<stack, ec>>
       \/ /\ Top.entry \notin present
          /\ pc' = "erase"
          /\ UNCHANGED <<present, stayed, stack, ec>>
       \/ /\ Fails
          /\ InPart(Top.entry)
          /\ Fail
    /\ UNCHANGED <<mode, probe, pending, visited, pruned, cut, changes>>

\* Faults for TLC to find: back in the directory above it reads on, past the
\* directory it came from; an empty stack is not noticed.
EraseNextSkips ==
    /\ pc = "next"
    /\ \/ \E l \in Advanced(Top) : stack' = WithTop(l) /\ pc' = "idle" /\ UNCHANGED cut
       \/ Ends(Top) /\ stack' = Popped /\ pc' = IF Len(stack) = 1 THEN Finished ELSE "advance"
    /\ UNCHANGED <<tree, mode, probe, pending, ec, visited, pruned>>

EraseNextUnreset ==
    /\ pc = "next"
    /\ \/ \E l \in Advanced(Top) : stack' = WithTop(l) /\ pc' = "idle" /\ UNCHANGED cut
       \/ Ends(Top) /\ stack' = Popped /\ pc' = "idle"
    /\ UNCHANGED <<tree, mode, probe, pending, ec, visited, pruned>>

\* After a success: the next entry, or back to the directory above, whose
\* entry is then this directory.
EraseNext ==
    /\ pc = "next"
    /\ \/ \E l \in Advanced(Top) : stack' = WithTop(l) /\ pc' = "idle" /\ UNCHANGED cut
       \/ /\ Ends(Top)
          /\ stack' = Popped
          /\ pc' = IF Len(stack) = 1 THEN Finished ELSE "idle"
    /\ UNCHANGED <<tree, mode, probe, pending, ec, visited, pruned>>

\* remove_all: the directory itself, again with all it contains.
RemoveRoot ==
    /\ pc = "last"
    /\ \/ /\ Unlinked(Nodes)
          /\ pc' = "done"
          /\ UNCHANGED <<stack, ec>>
       \/ Fails /\ InPart(Root) /\ Fail
    /\ UNCHANGED <<mode, probe, pending, visited, pruned, cut, changes>>

-----------------------------------------------------------------------------
(* Other threads.  In a directory that is being read a new name may fall    *)
(* before or behind the place; a removed one may still come if it had not.  *)
Joins(l, n) == IF l.dir = Parent[n] THEN [l EXCEPT !.left = @ \cup {n}] ELSE l
Leaves(l, n) == IF n \in l.left THEN [l EXCEPT !.left = @ \ {n}, !.gone = @ \cup {n}] ELSE l

Create(n) ==
    /\ changes > 0 /\ changes' = changes - 1
    /\ n \notin present /\ Parent[n] \in present
    /\ present' = present \cup {n}
    /\ \/ /\ stack' = [i \in 1..Len(stack) |-> Joins(stack[i], n)]
          /\ probe' = IF pc = "probe" THEN Joins(probe, n) ELSE probe
       \/ UNCHANGED <<stack, probe>>
    /\ UNCHANGED <<mode, pc, pending, ec, visited, stayed, pruned, cut>>

\* Removing a directory that is being read has no defined effect in lwext4.
Delete(n) ==
    /\ changes > 0 /\ changes' = changes - 1
    /\ n \in present /\ Children(n) = {}
    /\ \A i \in 1..Len(stack) : stack[i].dir # n
    /\ pc = "probe" => probe.dir # n
    /\ present' = present \ {n}
    /\ stayed' = stayed \ {n}
    /\ stack' = [i \in 1..Len(stack) |-> Leaves(stack[i], n)]
    /\ probe' = Leaves(probe, n)
    /\ UNCHANGED <<mode, pc, pending, ec, visited, pruned, cut>>

Step ==
    \/ Construct \/ Descend \/ Advance
    \/ Erase \/ EraseFile \/ EraseOpen \/ EraseProbe \/ EraseDir \/ EraseNext \/ RemoveRoot

Next ==
    \/ Step
    \/ Increment \/ pop \/ disable_recursion_pending
    \/ \E n \in Nodes \ {Root} : Create(n) \/ Delete(n)

Spec == Init /\ [][Next]_vars

\* A thread that is inside a call goes on, and remove_all calls __erase again.
FairSpec == Spec /\ WF_vars(Step)

-----------------------------------------------------------------------------
\* The open directories are a path: each is the entry the one above it stands
\* at, and each entry is in its directory.  Descending, going back up, popping and
\* erasing keep it, whatever other threads change, so that an error is reported
\* for the path where it happened and __erase removes nothing outside Root.
StackIsAPath ==
    /\ stack # <<>> => stack[1].dir = Root
    /\ \A i \in 1..(Len(stack) - 1) : stack[i + 1].dir = stack[i].entry
    /\ \A i \in 1..Len(stack) : stack[i].entry # Root => Parent[stack[i].entry] = stack[i].dir

\* No node that was there all the time is returned twice.
VisitedOnce ==
    [][(mode = "walk" /\ pc = "advance" /\ pc' = "idle") =>
        Top.entry' \notin visited \cap stayed]_vars

\* A walk that ends without an error, and met no failure readdir hid, has
\* returned every node that was there all the time, but for those the program
\* chose to leave out.
WalkIsComplete ==
    pc = "done" /\ mode = "walk" /\ ~ec /\ ~cut =>
        \A n \in stayed \ {Root} : n \in visited \/ Above[n] \cap pruned # {}

\* When __erase has reached the end, all that is left of what was there all the
\* time, for the removal of the directory itself, are open files in Root: no
\* directory, no file below one, and no file that nobody has open.
EraseIsComplete ==
    pc = "last" /\ ~cut => \A n \in stayed \ {Root} : n \in Opened /\ Parent[n] = Root

\* remove_all ends: a directory that fills up again is entered again, but each
\* round removes something.  It does not end only where it tries for ever to unlink
\* a file that another thread removed, or comes back for ever to an open file.
RemoveAllEnds ==
    mode = "erase" => <>(pc = "done") \/ []<>(Spins \/ MarksAgain)

\* When __erase advances to the next entry, the current one is removed.
ErasedIsGone == pc = "next" => Top.entry \notin present
=============================================================================
