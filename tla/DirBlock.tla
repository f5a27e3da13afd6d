------------------------------ MODULE DirBlock ------------------------------
(***************************************************************************)
(* A directory of ext4 as lwext4 lays it out with an index of one leaf:    *)
(* "." and ".." in the root block, then a leaf block whose entries follow  *)
(* each other by their lengths.  Offsets and lengths in the leaf are       *)
(* counted in the 4 bytes that lengths are rounded to; the two offsets of  *)
(* the root block stand for its two entries.  A slot keeps the bytes of    *)
(* the last entry that began there, whether or not a chain of lengths      *)
(* still leads to it: a stream that stopped at this offset reads them.     *)
(***************************************************************************)
EXTENDS Naturals, FiniteSets

CONSTANTS Names, \* names of files, without the dots
          Size,  \* the units an entry of each name needs
          Units  \* the units of the leaf block

\* The shortest name needs 12 bytes.
ASSUME SizeAssumption ==
    /\ Size \in [Names -> Nat \ (0..2)] /\ Units \in Nat \ {0}
    /\ Names \cap {".", "..", "end", "garbled"} = {}

Dots == {".", ".."}
Leaf == 2              \* the offset of the leaf block
Term == Leaf + Units   \* the offset behind the directory, and the cursor TERM
Offsets == 0..(Term - 1)

\* "live": an entry with an inode.  "dead": an entry without.  "torn": bytes from
\* the middle of an entry.  A new entry begins where the bytes that another needs
\* end, so what it covers of an older one is its beginning, or all of it.
Entry(kind, name, len) == [kind |-> kind, name |-> name, len |-> len]
Slots == [kind : {"live", "dead"}, name : Names \cup Dots, len : 1..Units]
         \cup {Entry("torn", "garbled", 0)}
Torn == Entry("torn", "garbled", 0)

\* A new directory: the leaf is one entry without an inode.
NewDir == [o \in Offsets |->
    CASE o = 0 -> Entry("live", ".", 1)
      [] o = 1 -> Entry("live", "..", 1)
      [] o = Leaf -> Entry("dead", ".", Units)
      [] OTHER -> Torn]

Live(d) == {o \in Offsets : d[o].kind = "live"}
NamesOf(d) == {d[o].name : o \in Live(d)}
At(d, n) == CHOOSE o \in Live(d) : d[o].name = n

\* The entries a walk from the start of the leaf meets: those with an inode,
\* and the first one with or without.
Chain(d) == {Leaf} \cup {o \in Live(d) : o > Leaf}

\* Where a name fits: an entry without inode, or behind an entry that is longer
\* than its name needs.
Slack(d, o) == IF d[o].kind = "dead" THEN d[o].len ELSE d[o].len - Size[d[o].name]
Fitting(d, n) == {o \in Chain(d) : Slack(d, o) >= Size[n]}

\* The bytes of a new entry, which cover those of older ones.
Write(d, o, n, len) ==
    [q \in Offsets |->
        IF q = o THEN Entry("live", n, len)
        ELSE IF o < q /\ q < o + Size[n] THEN Torn ELSE d[q]]

\* The first entry that fits is reused or cut in two.
Insert(d, n) ==
    LET first == CHOOSE o \in Fitting(d, n) : \A p \in Fitting(d, n) : o <= p
        used  == Size[d[first].name]
    IN  IF d[first].kind = "dead"
        THEN Write(d, first, n, d[first].len)
        ELSE Write([d EXCEPT ![first].len = used], first + used, n, Slack(d, first))

\* A removed entry loses its inode; unless it is the first of its block, the
\* entry before it takes over its length.  Its bytes stay.
Remove(d, n) ==
    LET at     == At(d, n)
        before == CHOOSE o \in Chain(d) :
                      o < at /\ \A p \in Chain(d) : p < at => p <= o
        dead   == [d EXCEPT ![at].kind = "dead"]
    IN  IF at = Leaf THEN dead
        ELSE [dead EXCEPT ![before].len = @ + d[at].len]

\* The offsets that lengths lead to from an offset, up to torn bytes.
Path(d, o) ==
    LET steps == {q \in o..(Term - 1) : d[q].kind # "torn"}
    IN  CHOOSE S \in SUBSET ({o} \cup {q + d[q].len : q \in steps}) :
            /\ o \in S
            /\ \A q \in S \cap steps : q + d[q].len \in S
            /\ \A p \in S \ {o} : \E q \in S \cap steps : p = q + d[q].len

TornOn(d, o) == {q \in Path(d, o) \ {Term} : d[q].kind = "torn"}

\* Torn bytes fail the tests of the iterator, or pass them with any inode and any
\* length: reading may end, or go on at any bytes that are not an entry without inode.
Astray(d, o) == {p \in Offsets : d[p].kind # "dead" /\ \E q \in TornOn(d, o) : q <= p}

\* A fault for TLC to find: the next entry, with an inode or without.
AfterAny(d, o) ==
    LET met == {p \in Path(d, o) \ {o, Term} : d[p].kind # "torn"}
    IN  IF met # {} THEN {CHOOSE p \in met : \A q \in met : p <= q}
        ELSE {Term} \cup (Astray(d, o) \ {o})

\* The next entry with an inode, over those without; Term at the end.
After(d, o) ==
    LET met == {p \in Path(d, o) \ {o, Term} : d[p].kind = "live"}
    IN  IF met # {} THEN {CHOOSE p \in met : \A q \in met : p <= q}
        ELSE {Term} \cup (Astray(d, o) \ {o})
=============================================================================
