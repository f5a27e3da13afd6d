------------------------------ MODULE MCFileIo ------------------------------
(* Descriptors and values are interchangeable; no action depends on the     *)
(* answer of the last call, and a descriptor that a call failed on is only  *)
(* closed, wherever it stands.                                              *)
EXTENDS FileIo, TLC

Interchangeable == Permutations(Fds) \cup Permutations(Data)
StateView ==
    <<cells, size, [f \in Fds |-> IF f \in spoiled THEN <<>> ELSE <<fpos[f], fsize[f], mode[f]>>]>>
=============================================================================
