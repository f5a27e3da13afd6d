---------------------------- MODULE MCPartTable ----------------------------
(***************************************************************************)
(* Instances of PartTable for TLC: a device of 10 sectors, a table whose   *)
(* numbers have 3 bits, and a program whose numbers have 4.                *)
(***************************************************************************)
EXTENDS PartTable

Part(nr, type, start, num) == [nr |-> nr, type |-> type, start |-> start, num |-> num]
Raw(type, start, num) == [type |-> type, start |-> start, num |-> num]

\* A partition that fits, one that ends behind the device, an extended one.
MCForeign == {Raw("primary", 1, 1), Raw("primary", 7, 4), Raw("extended", 1, 1)}

\* Partitions that fit, one of them up to the end of the device, an extended one,
\* a size of zero, one too large, a start and a size that the table cannot hold, and
\* a start behind the device that the unsigned subtraction accepts.
MCConf ==
    {Part(0, "primary", 1, 1), Part(3, "primary", 7, 3), Part(1, "primary", 2, 9),
     Part(2, "primary", 2, 0), Part(1, "extended", 2, 1), Part(2, "primary", 9, 1),
     Part(2, "primary", 1, 9), Part(0, "primary", 15, 1)}

\* Four good entries, two of them for one slot; a good one, one too large, and two
\* more; and two that the table cannot hold.
MCConfArray ==
    {<<Part(0, "primary", 1, 1), Part(1, "extended", 2, 1), Part(0, "primary", 1, 1), Part(3, "primary", 7, 3)>>,
     <<Part(0, "primary", 1, 1), Part(1, "primary", 2, 9), Part(3, "primary", 7, 3), Part(3, "primary", 7, 3)>>,
     <<Part(2, "primary", 9, 1), Part(3, "primary", 7, 3), Part(2, "primary", 1, 9), Part(0, "primary", 15, 1)>>}

=============================================================================
