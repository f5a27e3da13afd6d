---------------------------- MODULE MCMountTable ----------------------------
(***************************************************************************)
(* Instances of MountTable for TLC: three ext4 partitions of which two     *)
(* have the same label and one has none (its root is "/"), and one FAT     *)
(* partition; room for fewer in the tables of lwext4.                      *)
(***************************************************************************)
EXTENDS MountTable

CONSTANTS p1, p2, p3, fat, slash, sd, volume0, volume1, volume10

MCTypeOf    == [p \in Part |-> IF p = fat THEN "vfat" ELSE "ext4"]
MCLabelRoot == [p \in Part |-> IF p \in {p1, p2} THEN sd ELSE slash]
MCVolume    == [k \in 0 .. 1 |-> IF k = 0 THEN volume0 ELSE volume1]
MCOneVolume == [k \in {0} |-> volume0]

\* A path below r contains r and "/", and below /volume10 also /volume1.
MCInside == {<<r, k>> \in Root \X Root : k = r \/ k = slash \/ <<r, k>> = <<volume10, volume1>>}

\* The part of the state that the calls that mount and unmount read.
MountView == <<vfs, lw, job, crashed>>

\* The same for all calls: the rest is what the last call returned.
CallsView == <<MountView, alien>>

=============================================================================
