---------------------------- MODULE FdContainer ----------------------------
(***************************************************************************)
(* src/lib/common/file_descriptor_container.hpp with file_descriptor.hpp:  *)
(* the table by_path, from the normalised path of an open file to the      *)
(* descriptors open on it and the mark left by unlink.  The operators map  *)
(* a table to the table after the call; they are used by every module in   *)
(* which descriptors are opened and closed.                                *)
(*                                                                         *)
(* The list of indexes of an entry is a set: the numbers are never given   *)
(* out twice.                                                              *)
(***************************************************************************)
EXTENDS Naturals, FiniteSets

\* file_descriptor{}: no index, not marked for unlinking.
NewEntry == [indexes |-> {}, marked |-> FALSE]

\* A fault for TLC to find: no path is ever found open.
ExistNever(by_path, path) == FALSE

\* exist(path): the key is compared as it was written by the caller.
Exist(by_path, path) == path \in DOMAIN by_path

\* A fault for TLC to find: opening a file again takes its mark away.
InsertClearsMark(by_path, path, fd) ==
    [p \in DOMAIN by_path \cup {path} |->
        LET entry == IF p \in DOMAIN by_path THEN by_path[p] ELSE NewEntry
        IN  IF p = path THEN [entry EXCEPT !.indexes = @ \cup {fd}, !.marked = FALSE]
                        ELSE entry]

\* insert: the entry is made when the path has none, the mark of an entry
\* that is there is kept.
Insert(by_path, path, fd) ==
    [p \in DOMAIN by_path \cup {path} |->
        LET entry == IF p \in DOMAIN by_path THEN by_path[p] ELSE NewEntry
        IN  IF p = path THEN [entry EXCEPT !.indexes = @ \cup {fd}] ELSE entry]

\* The entries that removing fd empties.
Emptied(by_path, fd) == {p \in DOMAIN by_path : by_path[p].indexes \subseteq {fd}}

\* A fault for TLC to find: an entry that becomes empty is not erased.
RemoveKeepsEntry(by_path, fd) ==
    [p \in DOMAIN by_path |-> [by_path[p] EXCEPT !.indexes = @ \ {fd}]]

\* remove: fd leaves its entry, an entry that becomes empty is erased.  The
\* loop of the code stops at the first empty entry it meets; TableConsistent
\* of VfsFiles is what makes that entry the only one.
Remove(by_path, fd) ==
    [p \in DOMAIN by_path \ Emptied(by_path, fd) |->
        [by_path[p] EXCEPT !.indexes = @ \ {fd}]]

\* A fault for TLC to find: the mark is not looked at.
UnlinkDueNever(by_path, fd) == {}

\* The path that remove returns for unlinking: at most one.
UnlinkDue(by_path, fd) == {p \in Emptied(by_path, fd) : by_path[p].marked}

\* mark_for_unlink of an entry that exists.
MarkForUnlink(by_path, path) == [by_path EXCEPT ![path].marked = TRUE]

=============================================================================
