----------------------------- MODULE DirStream ------------------------------
(***************************************************************************)
(* The directory streams of the syscall adapter: a handle of the           *)
(* filesystem, whose cursor is an offset, beside a position that counts    *)
(* the entries read.  A call holds the lock of the mount while it uses the *)
(* handle, and a stream belongs to one thread, so calls are single steps;  *)
(* files are created and removed between them.                             *)
(***************************************************************************)
EXTENDS DirBlock

CONSTANTS Streams, \* the streams a program has open at once
          Fails    \* whether reads of the device may fail

ASSUME FailsAssumption == Fails \in BOOLEAN

VARIABLES dir,      \* the directory
          open,     \* the open streams
          cursor,   \* dirh: of each stream, the offset of the next entry, or Term
          position, \* of each stream, the number of entries read

          \* for the properties only
          got,      \* the answer of the last call, if it was a readdir
          removed,  \* of each stream, the names removed in front of it
          settled,  \* the streams before whose cursor nothing changed since they began
          mark      \* of each stream, the place telldir was last called at

vars == <<dir, open, cursor, position, got, removed, settled, mark>>

Nothing == <<>>
NoName == "end"
AtStart == [position |-> 0, cursor |-> 0, valid |-> TRUE]
Lost == [position |-> 0, cursor |-> 0, valid |-> FALSE]

Init ==
    /\ dir = NewDir
    /\ open = {}
    /\ cursor = [s \in Streams |-> 0]
    /\ position = [s \in Streams |-> 0]
    /\ got = Nothing
    /\ removed = [s \in Streams |-> {}]
    /\ settled = Streams
    /\ mark = [s \in Streams |-> AtStart]

-----------------------------------------------------------------------------
(* The handle.  Its answer to dirnext: a name, or none both at the end and  *)
(* when the device fails or the bytes are refused; the entry at the cursor  *)
(* is returned although it may have lost its inode since the cursor was put *)
(* there.                                                                   *)
DirNext(c) ==
    LET none == [name |-> NoName, cursor |-> c]
    IN  IF c = Term THEN {none}
        ELSE {[name |-> dir[c].name, cursor |-> p] : p \in After(dir, c) \cup (IF Fails THEN {Term} ELSE {})}
             \cup (IF Fails \/ dir[c].kind = "torn" THEN {none} ELSE {})

\* Where reads take the cursor as long as none fails.
Reads(c) ==
    IF c = Term THEN {c}
    ELSE {c, Term} \cup {p \in Path(dir, c) \ {Term} : dir[p].kind = "live"} \cup Astray(dir, c)

\* The loop of seekdir: it reads until n entries are passed, or a read tells none.
\* Through torn bytes it may pass any number of what it takes for entries.
Passed(c, n) ==
    LET reads == Reads(c)
        at(p) == [cursor |-> p, count |-> Cardinality({q \in reads : q < p})]
        ends == {p \in reads : \A q \in reads : q <= p}
    IN  IF c # Term /\ TornOn(dir, c) # {}
        THEN {[cursor |-> p, count |-> k] : p \in reads, k \in 0..n}
             \cap {r \in [cursor : c..Term, count : 0..Term] :
                       c + r.count <= r.cursor /\ (r.count = 0 <=> r.cursor = c)}
        ELSE {at(p) : p \in {p \in reads : at(p).count = n \/ (at(p).count < n /\ (Fails \/ p \in ends))}}
             \cup {[cursor |-> Term, count |-> at(p).count + 1] :
                       p \in {p \in reads \ ends : at(p).count < n /\ Fails}}

-----------------------------------------------------------------------------
(* The calls on a stream.                                                   *)
\* A fault for TLC to find: the position is not reset with the cursor.
BeginKeepsPosition(s) ==
    /\ cursor' = [cursor EXCEPT ![s] = 0]
    /\ removed' = [removed EXCEPT ![s] = {}]
    /\ settled' = settled \cup {s}
    /\ got' = Nothing
    /\ UNCHANGED position

Begin(s) ==
    /\ cursor' = [cursor EXCEPT ![s] = 0]
    /\ position' = [position EXCEPT ![s] = 0]
    /\ removed' = [removed EXCEPT ![s] = {}]
    /\ settled' = settled \cup {s}
    /\ got' = Nothing

opendir(s) ==
    /\ s \notin open
    /\ open' = open \cup {s}
    /\ Begin(s)
    /\ UNCHANGED <<dir, mark>>

closedir(s) ==
    /\ s \in open
    /\ open' = open \ {s}
    /\ Begin(s)
    /\ mark' = [mark EXCEPT ![s] = AtStart]
    /\ UNCHANGED dir

rewinddir(s) ==
    /\ s \in open
    /\ Begin(s)
    /\ UNCHANGED <<dir, open, mark>>

\* A fault for TLC to find: the position counts calls, the end included.
readdirCountsCalls(s) ==
    /\ s \in open
    /\ \E r \in DirNext(cursor[s]) :
          /\ cursor' = [cursor EXCEPT ![s] = r.cursor]
          /\ position' = [position EXCEPT ![s] = @ + 1]
          /\ got' = <<s, r.name>>
    /\ UNCHANGED <<dir, open, removed, settled, mark>>

readdir(s) ==
    /\ s \in open
    /\ \E r \in DirNext(cursor[s]) :
          /\ cursor' = [cursor EXCEPT ![s] = r.cursor]
          /\ position' = [position EXCEPT ![s] = @ + (IF r.name = NoName THEN 0 ELSE 1)]
          /\ got' = <<s, r.name>>
          /\ removed' = [removed EXCEPT ![s] =
                            IF r.name # NoName /\ dir[cursor[s]].kind = "dead" THEN @ \ {r.name} ELSE @]
    /\ UNCHANGED <<dir, open, settled, mark>>

\* Into an entry of the caller's; it refuses a result that is null, as the one
\* it has left at the end is.
readdir_r(s) ==
    \/ readdir(s)
    \/ /\ s \in open
       /\ got' = Nothing
       /\ UNCHANGED <<dir, open, cursor, position, removed, settled, mark>>

telldir(s) ==
    /\ s \in open
    /\ mark' = [mark EXCEPT ![s] =
                    IF s \in settled THEN [position |-> position[s], cursor |-> cursor[s], valid |-> TRUE]
                    ELSE Lost]
    /\ got' = Nothing
    /\ UNCHANGED <<dir, open, cursor, position, removed, settled>>

seekdir(s, loc) ==
    LET back == position[s] > loc
        from == IF back THEN 0 ELSE cursor[s]
        at   == IF back THEN 0 ELSE position[s]
    IN  /\ s \in open
        /\ \E p \in Passed(from, loc - at) :
              /\ cursor' = [cursor EXCEPT ![s] = p.cursor]
              /\ position' = [position EXCEPT ![s] = at + p.count]
        /\ removed' = [removed EXCEPT ![s] = IF back THEN {} ELSE @]
        /\ settled' = IF back THEN settled \cup {s} ELSE settled
        /\ got' = Nothing
        /\ UNCHANGED <<dir, open, mark>>

-----------------------------------------------------------------------------
(* The directory changes.  A change at an offset unsettles the streams that *)
(* stand there or behind, and the places told there or behind.              *)
ChangedAt(o) ==
    /\ settled' = {s \in settled : cursor[s] < o}
    /\ mark' = [s \in Streams |-> IF mark[s].cursor < o THEN mark[s] ELSE Lost]
    /\ got' = Nothing

Create(n) ==
    /\ n \notin NamesOf(dir)
    /\ Fitting(dir, n) # {}
    /\ dir' = Insert(dir, n)
    /\ ChangedAt(At(dir', n))
    /\ UNCHANGED <<open, cursor, position, removed>>

Delete(n) ==
    /\ n \in NamesOf(dir)
    /\ dir' = Remove(dir, n)
    /\ ChangedAt(At(dir, n))
    /\ removed' = [s \in Streams |->
                      IF s \in open /\ At(dir, n) >= cursor[s] THEN removed[s] \cup {n} ELSE removed[s]]
    /\ UNCHANGED <<open, cursor, position>>

Next ==
    \/ \E s \in Streams :
          \/ opendir(s) \/ closedir(s) \/ rewinddir(s) \/ readdir(s) \/ readdir_r(s) \/ telldir(s)
          \/ \E loc \in 0..Term : seekdir(s, loc)
    \/ \E n \in Names : Create(n) \/ Delete(n)

Spec == Init /\ [][Next]_vars

\* A program that, while a stream is open, creates no file whose entry covers the
\* beginning of an older one but starts elsewhere: as when all its names need the
\* same length.
CarefulNext == Next /\
    (open # {} => \A o \in Offsets : dir[o].kind # "torn" => dir'[o].kind # "torn")

CarefulSpec == Init /\ [][CarefulNext]_vars
-----------------------------------------------------------------------------
TypeOK ==
    /\ dir \in [Offsets -> Slots]
    /\ open \subseteq Streams
    /\ cursor \in [Streams -> 0..Term]
    /\ position \in [Streams -> 0..Term]
    /\ settled \subseteq Streams
    /\ removed \in [Streams -> SUBSET Names]

\* The entries with an inode in front of a stream.
Unread(s) == IF s \in open THEN {dir[o].name : o \in {o \in Live(dir) : o >= cursor[s]}} ELSE {}

Listing == INSTANCE DirListing WITH
    names <- NamesOf(dir), pending <- [s \in Streams |-> Unread(s)]

\* Whatever other calls create and remove between two readdirs, a name that
\* stays is returned once and the end is reported when none is left, although
\* the cursor may stand on an entry that was removed or written over.
ImplementsDirListing == Listing!Spec

\* The place telldir names is found again: position counts entries and the
\* cursor is an offset, but as long as nothing changed before the place,
\* seekdir with the value of telldir puts the cursor where it was, from any
\* place it was moved to meanwhile.
ToldPlaceIsFound ==
    [][\A s \in open : (seekdir(s, mark[s].position) /\ mark[s].valid)
                          => cursor'[s] = mark[s].cursor]_vars

\* readdir reports the end only when no entry is left.
EndIsTheEnd == \A s \in open : got = <<s, NoName>> => Unread(s) = {}
=============================================================================
