---------------------------- MODULE MCDirStream -----------------------------
(* Names of 12 and of 16 bytes: after a long entry, a short one that takes  *)
(* its room begins or ends where no other did.                              *)
EXTENDS DirStream, TLC

CONSTANTS a, b, c, long

MCNames == {a, b, c, long}
MCSize == [n \in MCNames |-> IF n = long THEN 4 ELSE 3]
Alike == Permutations({a, b, c})
=============================================================================
