------------------------------- MODULE FileIo -------------------------------
(***************************************************************************)
(* The contents of one file of lwext4 under several descriptors.  A        *)
(* descriptor keeps its position and the length of the file when it was    *)
(* last looked up; the file has blocks, of which a write uses those below  *)
(* the length and appends others.  A call holds the lock of the mount, so  *)
(* it is one step.  One byte stands for the part of a block that a write   *)
(* that is not aligned touches.                                            *)
(***************************************************************************)
EXTENDS Integers, Sequences, FiniteSets

CONSTANTS Fds,     \* the descriptors
          Data,    \* what is written
          Junk,    \* what an appended or released block holds
          Block,   \* bytes of a block
          Room,    \* blocks of the device
          Chunk,   \* CONFIG_MAX_TRUNCATE_SIZE, bytes cut off in one transaction
          Lengths, \* the counts given to read and write
          Device   \* whether accesses to the device fail

ASSUME SizesAssumption ==
    /\ Block \in Nat \ {0} /\ Room \in Nat /\ Chunk \in Nat \ {0}
    /\ Lengths \subseteq Nat \ {0}
    /\ Junk \notin Data /\ Device \in {"works", "fails"}

VARIABLES cells,   \* the blocks
          size,    \* the length in the inode
          fpos,    \* of each ext4_file
          fsize,   \* of each ext4_file
          mode,    \* of each descriptor: "closed", "r", "w" or "rw"

          \* for the properties only
          spoiled, \* the descriptors a call failed on
          got      \* the last call: descriptor, name, answer, what was asked

vars == <<cells, size, fpos, fsize, mode, spoiled, got>>

Cells == 0..(Room * Block - 1)
Blocks(n) == (n + Block - 1) \div Block
Min2(a, b) == IF a < b THEN a ELSE b
Max2(a, b) == IF a < b THEN b ELSE a

Init ==
    /\ cells = [i \in Cells |-> Junk]
    /\ size = 0
    /\ fpos = [f \in Fds |-> 0]
    /\ fsize = [f \in Fds |-> 0]
    /\ mode = [f \in Fds |-> "closed"]
    /\ spoiled = {}
    /\ got = <<>>

Opened == {f \in Fds : mode[f] # "closed"}
At(f, p, s) == fpos' = [fpos EXCEPT ![f] = p] /\ fsize' = [fsize EXCEPT ![f] = s]
Done == <<>>
Error == <<-1>>
Answer(f, call, a) == got' = <<f, call, a>>
AnswerTo(f, call, asked, a) == got' = <<f, call, a, asked>>
Spoils(f) == spoiled' = spoiled \cup {f}

-----------------------------------------------------------------------------
(* Blocks.                                                                  *)
Put(c, at, n, v) == [i \in Cells |-> IF i \in at..(at + n - 1) THEN v ELSE c[i]]

\* Blocks from b on, up to e, are new or no longer the file's.
Wiped(c, b, e) == Put(c, b * Block, (e - b) * Block, Junk)

\* Truncating to n.
Shrunk(n) == Wiped(cells, Blocks(n), Blocks(size))

\* The lengths it passes: each chunk is released and the length stored.
Reached(n) == {n} \cup {r \in n..size : (size - r) % Chunk = 0}

\* It fails behind one of them, with some of the next blocks released.
TruncationFails(n) ==
    /\ Device = "fails"
    /\ \E r \in Reached(n) :
          /\ size' = r
          /\ \E b, e \in Blocks(n)..Blocks(r) : cells' = Wiped(Shrunk(r), b, e)

\* What a read finds from p on; behind the device lies something else.
Found(p, n) == [i \in 1..n |-> IF p + i - 1 \in Cells THEN cells[p + i - 1] ELSE Junk]

\* A fault for TLC to find: the count of a read is not cut.
LeftOfUncut(s, p, n) == n

\* size - pos as an unsigned number.
LeftOf(s, p, n) == IF p <= s THEN s - p ELSE n

\* The end of the head of a write, up to the next block.
HeadOf(p, n) == IF p % Block = 0 THEN 0 ELSE Min2(n, Block - (p % Block))

\* A fault for TLC to find: the block of the head is written again.
FirstBlockOfHead(p) == Min2(p \div Block, Blocks(size))

\* Behind the head blocks are written one by one: those below the length where
\* they are, the others behind the last one.
FirstBlock(p) == Min2(Blocks(p), Blocks(size))

\* The cells with the head written and m blocks of the rest, g of them got.
Stored(f, n, v, m, g) ==
    LET h     == HeadOf(fpos[f], n)
        first == FirstBlock(fpos[f])
        fresh == Wiped(cells, Max2(first, Blocks(size)), Max2(first + g, Blocks(size)))
    IN  Put(Put(fresh, fpos[f], h, v), first * Block, Min2(n - h, m * Block), v)

\* The length while blocks are appended, and behind what was stored.
Appended(f, g) == size + Block * Max2(0, FirstBlock(fpos[f]) + g - Blocks(size))
Counted(f, n, m) == LET h == HeadOf(fpos[f], n) IN h + Min2(n - h, m * Block)

\* The blocks behind the head, and how many of them there is room for.
Chunks(f, n) == Blocks(n - HeadOf(fpos[f], n))
Fitting(f, n) == Min2(Chunks(f, n), Max2(0, Room - FirstBlock(fpos[f])))

-----------------------------------------------------------------------------
(* The calls.                                                               *)
open(f, m, trunc, append) ==
    /\ mode[f] = "closed"
    /\ \/ /\ size' = IF trunc THEN 0 ELSE size
          /\ cells' = IF trunc THEN Shrunk(0) ELSE cells
          /\ At(f, IF append THEN size' ELSE 0, size')
          /\ mode' = [mode EXCEPT ![f] = m]
          /\ AnswerTo(f, "open", trunc, Done)
       \/ /\ IF trunc THEN TruncationFails(0) ELSE Device = "fails" /\ UNCHANGED <<cells, size>>
          /\ AnswerTo(f, "open", trunc, Error)
          /\ UNCHANGED <<fpos, fsize, mode>>
    /\ UNCHANGED spoiled

close(f) ==
    /\ f \in Opened
    /\ mode' = [mode EXCEPT ![f] = "closed"]
    /\ At(f, 0, 0)
    /\ spoiled' = spoiled \ {f}
    /\ Answer(f, "close", Done)
    /\ UNCHANGED <<cells, size>>

\* The count is cut to what is left.  A read that fails has passed the head or
\* some blocks.
read(f, n) ==
    LET p == fpos[f]
        k == Min2(n, LeftOf(size, p, n))
    IN  /\ f \in Opened /\ mode[f] # "w"
        /\ \/ /\ At(f, p + k, size)
              /\ Answer(f, "read", Found(p, k))
              /\ UNCHANGED spoiled
           \/ /\ Device = "fails"
              /\ \/ UNCHANGED <<fpos, fsize>>
                 \/ \E q \in p..(p + k) : (q = p \/ q % Block = 0) /\ At(f, q, size)
              /\ Answer(f, "read", Error)
              /\ Spoils(f)
        /\ UNCHANGED <<cells, size, mode>>

\* EPERM.
Refused(f) ==
    /\ \/ mode[f] = "r" /\ Answer(f, "write", Error)
       \/ mode[f] = "w" /\ Answer(f, "read", Error)
    /\ UNCHANGED <<cells, size, fpos, fsize, mode, spoiled>>

\* All is written, or what fits, or what could be written until the device has no more:
\* the length follows the position.
write(f, n, v) ==
    LET free   == Fitting(f, n)
        end(m) == fpos[f] + Counted(f, n, m)
    IN  /\ mode[f] \in {"w", "rw"}
        /\ \E m \in 0..free :
              /\ m < free => Device = "fails" /\ FirstBlock(fpos[f]) + m >= Blocks(size)
              /\ cells' = Stored(f, n, v, m, m)
              /\ size' = Max2(size, end(m))
              /\ At(f, end(m), size')
              /\ Answer(f, "write", [i \in 1..Counted(f, n, m) |-> v])
              /\ IF m = Chunks(f, n) THEN UNCHANGED spoiled ELSE Spoils(f)
        /\ UNCHANGED mode

\* An access fails: the caller is told of the bytes that were stored before, or
\* of an error if it was the first or the last access to the inode, and the
\* length stays as it was or as appending left it.
WriteFails(f, n, v) ==
    LET h       == HeadOf(fpos[f], n)
        free    == Fitting(f, n)
        done(m) == At(f, fpos[f] + Counted(f, n, m), size)
    IN  /\ mode[f] \in {"w", "rw"} /\ Device = "fails"
        /\ \/ \* the inode cannot be read
              /\ Answer(f, "write", Error)
              /\ UNCHANGED <<cells, size, fpos, fsize>>
           \/ \* the head fails
              /\ h > 0
              /\ cells' \in {cells, Put(cells, fpos[f], h, v)}
              /\ At(f, fpos[f], size)
              /\ Answer(f, "write", <<>>)
              /\ UNCHANGED size
           \/ \* of g blocks got, m are written and counted, w written
              \E m \in 0..(free - 1), g \in 0..free : \E w \in m..g :
                 /\ cells' = Stored(f, n, v, w, g)
                 /\ size' = Appended(f, g)
                 /\ done(m)
                 /\ Answer(f, "write", [i \in 1..Counted(f, n, m) |-> v])
           \/ \* the inode cannot be written back
              /\ cells' = Stored(f, n, v, free, free)
              /\ LET end == fpos[f] + Counted(f, n, free)
                 IN  size' \in {size, Max2(size, end)} /\ At(f, end, Max2(size, end))
              /\ Answer(f, "write", Error)
        /\ Spoils(f)
        /\ UNCHANGED mode

\* Only the length that was last looked up limits the new position.
lseek(f, off, whence) ==
    LET p  == fpos[f]
        s  == fsize[f]
        ok == /\ whence = "set" => off >= 0 /\ off <= s
              /\ whence = "cur" => (off < 0 => -off <= p) /\ (off > 0 => off <= LeftOf(s, p, off))
              /\ whence = "end" => off <= 0 /\ -off <= s
        q  == off + [set |-> 0, cur |-> p, end |-> s][whence]
    IN  /\ f \in Opened
        /\ \/ ok /\ At(f, q, s) /\ Answer(f, "lseek", <<q>>)
           \/ ~ok /\ Answer(f, "lseek", Error) /\ UNCHANGED <<fpos, fsize>>
        /\ UNCHANGED <<cells, size, mode, spoiled>>

\* A fault for TLC to find: the position stays behind the new end.
ftruncateKeepsPosition(f, n) ==
    LET s == Min2(n, size)
    IN  /\ f \in Opened
        /\ cells' = Shrunk(s) /\ size' = s
        /\ At(f, fpos[f], s)
        /\ AnswerTo(f, "ftruncate", n, Done)
        /\ UNCHANGED <<mode, spoiled>>

\* A descriptor open for reading truncates too, since O_RDONLY is no bit.  A
\* length that is not smaller is a success without effect, so the loop of the
\* wrapper that would write zeros is never entered.
ftruncate(f, n) ==
    LET s == Min2(n, size)
    IN  /\ f \in Opened
        /\ \/ /\ cells' = Shrunk(s)
              /\ size' = s
              /\ At(f, IF s < size THEN Min2(fpos[f], s) ELSE fpos[f], s)
              /\ AnswerTo(f, "ftruncate", n, Done)
              /\ UNCHANGED spoiled
           \/ /\ TruncationFails(s)
              /\ \E k \in {fsize[f], size} : At(f, fpos[f], k)
              /\ AnswerTo(f, "ftruncate", n, Error)
              /\ Spoils(f)
        /\ UNCHANGED mode

Next == \E f \in Fds :
    \/ \E m \in {"r", "w", "rw"}, trunc, append \in BOOLEAN : open(f, m, trunc, append)
    \/ close(f)
    \/ \E n \in Lengths : read(f, n)
    \/ Refused(f)
    \/ \E n \in Lengths, v \in Data : write(f, n, v) \/ WriteFails(f, n, v)
    \/ \E off \in -Cardinality(Cells)..Cardinality(Cells), whence \in {"set", "cur", "end"} :
          lseek(f, off, whence)
    \/ \E n \in 0..Cardinality(Cells) : ftruncate(f, n)

Spec == Init /\ [][Next]_vars

\* A program that shortens a file only while no other descriptor is open on it,
\* and closes a descriptor on which a call failed or stored less than asked.
CarefulNext ==
    /\ Next
    /\ size' < size => Opened' \subseteq {got'[1]}
    /\ got'[1] \in spoiled => got'[2] = "close"

CarefulSpec == Init /\ [][CarefulNext]_vars

-----------------------------------------------------------------------------
TypeOK ==
    /\ cells \in [Cells -> Data \cup {Junk}]
    /\ size \in 0..(Room * Block)
    /\ fpos \in [Fds -> 0..(Room * Block)] /\ fsize \in [Fds -> 0..(Room * Block)]
    /\ mode \in [Fds -> {"closed", "r", "w", "rw"}]
    /\ spoiled \subseteq Opened

Bytes == INSTANCE FileBytes WITH
    bytes <- Found(0, size), pos <- fpos, known <- fsize

\* In a careful program a descriptor reads and writes the bytes of the file at
\* its position, whatever blocks a write is cut into and whatever the other
\* descriptors did; a write that fails in the middle harms nothing in front of
\* the position where it began, and a truncation nothing in front of the length
\* it was to cut to.
ImplementsFileBytes == Bytes!Spec

\* No descriptor stands, or may seek, behind the end: otherwise the unsigned
\* size - pos lets it read what is not in the file.
PositionInFile == \A f \in Opened \ spoiled : fpos[f] <= size /\ fsize[f] <= size
=============================================================================
