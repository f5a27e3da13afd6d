------------------------------ MODULE MCDirWalk -----------------------------
(* Three levels: a directory in a directory in the root, each beside files.  *)
EXTENDS DirWalk

MCNodes == {"root", "d", "f", "e", "g", "h", "k"}
MCDirs == {"root", "d", "e"}
MCParent == [n \in MCNodes \ {"root"} |->
    CASE n \in {"d", "f"} -> "root"
      [] n \in {"e", "g", "k"} -> "d"
      [] n = "h" -> "e"]
=============================================================================
