----------------------------- MODULE MCVfsFiles -----------------------------
(***************************************************************************)
(* Instances of VfsFiles for TLC.  The names a and c lie in the root of    *)
(* the mount, b lies in the directory d; "a2" is another spelling of a     *)
(* (as /volume0/./a is of /volume0/a) and "rel" is a relative path.        *)
(***************************************************************************)
EXTENDS VfsFiles, TLC

CONSTANTS a, b, c, d, root, a2, rel

MCDirOf == [n \in Name |-> IF n = b THEN d ELSE root]
MCNormal == [s \in Spelling |->
                IF s = a2 THEN a ELSE IF s = rel THEN NoName ELSE s]

\* No definition tells one inode number from another.
MCSymmetry == Permutations(Inode)

=============================================================================
