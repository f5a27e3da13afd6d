---------------------------- MODULE MCVfsLocks ----------------------------
(***************************************************************************)
(* Instances of VfsLocks for TLC.  The threads are interchangeable, and so *)
(* are the mounts.                                                         *)
(***************************************************************************)
EXTENDS VfsLocks, TLC

FileOps  == {"fdop", "pathop", "dirop", "symlink", "open", "close", "unlink",
              "stat_parts"}
MountOps == {"fdop", "pathop", "symlink", "open", "close", "mount", "umount", "umount_all",
              "stat_parts", "get_roots"}

Symmetry == Permutations(Thread) \cup Permutations(Mount)

=============================================================================
