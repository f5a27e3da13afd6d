---------------------------- MODULE FileIo_proofs ----------------------------
(***************************************************************************)
(* Theorems about FileIo, for any number of descriptors and any sizes of   *)
(* blocks and of the device: in a careful program no descriptor stands, or *)
(* may seek, behind the end of the file, every variable keeps its type,    *)
(* and the blocks implement the sequence of bytes of FileBytes.  The first *)
(* needs that the position of a descriptor is not behind the length it saw *)
(* last, by which lseek goes, and that a write, however it fails, never    *)
(* makes the file shorter, while a truncation that fails may; the second where the head of a write ends       *)
(* (HeadEnd), so that the blocks there is room for end in front of the end *)
(* of the device; the third which byte stands where after a write that was *)
(* cut into a head and blocks (StoredIs).                                  *)
(***************************************************************************)
EXTENDS FileIo, SequenceTheorems, TLAPS

Numbers ==
    /\ size \in Nat
    /\ fpos \in [Fds -> Nat]
    /\ fsize \in [Fds -> Nat]
    /\ mode \in [Fds -> {"closed", "r", "w", "rw"}]

\* The inductive invariant.
InOrder(f) == fpos[f] <= fsize[f] /\ fsize[f] <= size

IInv == Numbers /\ \A f \in Opened \ spoiled : InOrder(f)

\* What a step on f does to the others.
Others(f) == \A g \in Fds \ {f} :
    /\ fpos'[g] = fpos[g] /\ fsize'[g] = fsize[g] /\ mode'[g] = mode[g]
    /\ g \in spoiled' <=> g \in spoiled

-----------------------------------------------------------------------------
(* Lengths are natural numbers.                                             *)
LEMMA ModRange == \A p \in Nat : p % Block \in 0..(Block - 1)
  BY SizesAssumption

LEMMA BlocksNat == \A n \in Nat : Blocks(n) \in Nat
  BY SizesAssumption DEF Blocks

LEMMA TimesNat == \A m \in Nat : m * Block \in Nat /\ Block * m \in Nat
  BY SizesAssumption

LEMMA HeadInWrite ==
  ASSUME NEW p \in Nat, NEW n \in Nat
  PROVE  HeadOf(p, n) \in 0..n
<1>1. p % Block \in 0..(Block - 1)
  BY ModRange
<1> QED
  BY <1>1, SizesAssumption DEF HeadOf, Min2

LEMMA CountedNat ==
  ASSUME NEW f \in Fds, fpos[f] \in Nat, NEW n \in Nat, NEW m \in Nat
  PROVE  Counted(f, n, m) \in Nat
<1>1. HeadOf(fpos[f], n) \in 0..n
  BY HeadInWrite
<1>2. m * Block \in Nat
  BY TimesNat
<1> QED
  BY <1>1, <1>2 DEF Counted, Min2

LEMMA FittingNat ==
  ASSUME NEW f \in Fds, fpos[f] \in Nat, size \in Nat, NEW n \in Nat
  PROVE  Fitting(f, n) \in Nat
<1>1. HeadOf(fpos[f], n) \in 0..n
  BY HeadInWrite
<1>2. Chunks(f, n) \in Nat /\ FirstBlock(fpos[f]) \in Nat
  BY <1>1, BlocksNat DEF Chunks, FirstBlock, Min2
<1> QED
  BY <1>2, SizesAssumption DEF Fitting, Min2, Max2

LEMMA AppendedGrows ==
  ASSUME Numbers, NEW f \in Fds, NEW g \in Nat
  PROVE  Appended(f, g) \in Nat /\ Appended(f, g) >= size
<1> DEFINE more == Max2(0, FirstBlock(fpos[f]) + g - Blocks(size))
<1>1. Blocks(fpos[f]) \in Nat /\ Blocks(size) \in Nat
  BY BlocksNat DEF Numbers
<1>2. more \in Nat
  BY <1>1 DEF FirstBlock, Min2, Max2
<1>3. Block * more \in Nat
  BY <1>2, TimesNat
<1> QED
  BY <1>3 DEF Appended, Numbers

-----------------------------------------------------------------------------
(* Steps.                                                                   *)
LEMMA InitIInv == Init => IInv
  BY DEF Init, IInv, Numbers, Opened

\* A step that leaves the other descriptors alone and does not make the file
\* shorter need only put its own descriptor in order.
LEMMA OneStep ==
  ASSUME IInv, NEW f \in Fds, Numbers', Others(f), size' >= size,
         f \in (Opened \ spoiled)' => InOrder(f)'
  PROVE  IInv'
<1> SUFFICES ASSUME NEW g \in (Opened \ spoiled)'
             PROVE  InOrder(g)'
  BY DEF IInv
<1>1. CASE g = f
  BY <1>1
<1>2. CASE g # f
  <2>1. g \in Opened \ spoiled
    BY <1>2 DEF Others, Opened
  <2> QED
    BY <2>1, <1>2 DEF IInv, InOrder, Others, Opened, Numbers
<1> QED
  BY <1>1, <1>2

\* A step that makes the file shorter while no other descriptor is open.
LEMMA AloneStep ==
  ASSUME NEW f \in Fds, Numbers', Opened' \subseteq {f},
         f \in (Opened \ spoiled)' => InOrder(f)'
  PROVE  IInv'
  BY DEF IInv

\* A truncation that fails leaves a length between the two.
LEMMA TruncationSize ==
  ASSUME size \in Nat, NEW n \in 0..size, TruncationFails(n)
  PROVE  size' \in n..size
  BY DEF TruncationFails, Reached

LEMMA OpenStep ==
  ASSUME IInv, NEW f \in Fds, NEW m \in {"r", "w", "rw"}, NEW trunc \in BOOLEAN,
         NEW append \in BOOLEAN, open(f, m, trunc, append),
         size' < size => Opened' \subseteq {got'[1]}
  PROVE  IInv'
<1>1. CASE got' = <<f, "open", Done, trunc>>
           /\ size' = (IF trunc THEN 0 ELSE size)
           /\ At(f, IF append THEN size' ELSE 0, size')
           /\ mode' = [mode EXCEPT ![f] = m]
           /\ UNCHANGED spoiled
  <2>1. Numbers'
    BY <1>1 DEF IInv, Numbers, At
  <2>2. InOrder(f)'
    BY <1>1, <2>1 DEF IInv, Numbers, At, InOrder
  <2>3. Others(f)
    BY <1>1 DEF IInv, Numbers, At, Others
  <2>4. CASE size' >= size
    BY <2>1, <2>2, <2>3, <2>4, OneStep
  <2>5. CASE size' < size
    BY <1>1, <2>1, <2>2, <2>5, AloneStep
  <2> QED
    BY <2>1, <2>4, <2>5 DEF IInv, Numbers
<1>2. CASE /\ IF trunc THEN TruncationFails(0) ELSE UNCHANGED size
           /\ got' = <<f, "open", Error, trunc>>
           /\ UNCHANGED <<fpos, fsize, mode, spoiled>>
           /\ f \notin Opened
  <2>1. size \in Nat /\ size' \in 0..size
    BY <1>2, TruncationSize DEF IInv, Numbers
  <2>2. Numbers' /\ Others(f) /\ f \notin Opened'
    BY <1>2, <2>1 DEF IInv, Numbers, Others, Opened
  <2>3. CASE size' = size
    BY <2>1, <2>2, <2>3, OneStep
  <2>4. CASE size' < size
    BY <1>2, <2>2, <2>4, AloneStep
  <2> QED
    BY <2>1, <2>3, <2>4
<1> QED
  BY <1>1, <1>2 DEF open, AnswerTo, Opened

LEMMA CloseStep ==
  ASSUME IInv, NEW f \in Fds, close(f)
  PROVE  IInv'
<1>1. Numbers' /\ Others(f) /\ size' = size /\ f \notin Opened'
  BY DEF close, IInv, Numbers, At, Others, Opened
<1> QED
  BY <1>1, OneStep DEF IInv, Numbers

LEMMA ReadStep ==
  ASSUME IInv, NEW f \in Fds \ spoiled, NEW n \in Lengths, read(f, n)
  PROVE  IInv'
<1> DEFINE p == fpos[f]
           k == Min2(n, LeftOf(size, p, n))
<1>1. n \in Nat /\ f \in Opened \ spoiled /\ p \in Nat /\ size \in Nat /\ p <= size
  BY SizesAssumption DEF read, IInv, Numbers, InOrder
<1>2. k \in Nat /\ p + k <= size
  BY <1>1 DEF Min2, LeftOf
<1>3. UNCHANGED <<fpos, fsize>> \/ \E q \in p..(p + k) : At(f, q, size)
  BY <1>1, <1>2 DEF read
<1>4. UNCHANGED <<size, mode>> /\ spoiled \subseteq spoiled' /\ spoiled' \subseteq spoiled \cup {f}
  BY DEF read, Spoils
<1>5. CASE UNCHANGED <<fpos, fsize>>
  <2>1. Numbers' /\ Others(f) /\ InOrder(f)'
    BY <1>1, <1>4, <1>5 DEF IInv, Numbers, Others, InOrder
  <2> QED
    BY <1>1, <1>4, <2>1, OneStep
<1>6. ASSUME NEW q \in p..(p + k), At(f, q, size)
      PROVE  IInv'
  <2>1. q \in Nat /\ q <= size
    BY <1>1, <1>2
  <2>2. Numbers' /\ Others(f) /\ InOrder(f)'
    BY <1>1, <1>4, <1>6, <2>1 DEF IInv, Numbers, At, Others, InOrder
  <2> QED
    BY <1>1, <1>4, <2>2, OneStep
<1> QED
  BY <1>3, <1>5, <1>6

LEMMA RefusedStep ==
  ASSUME IInv, NEW f \in Fds, Refused(f)
  PROVE  IInv'
  BY DEF Refused, IInv, Numbers, Opened, InOrder

LEMMA WriteStep ==
  ASSUME IInv, NEW f \in Fds \ spoiled, NEW n \in Lengths, NEW v \in Data, write(f, n, v)
  PROVE  IInv'
<1> DEFINE end(m) == fpos[f] + Counted(f, n, m)
<1>1. PICK m \in 0..Fitting(f, n) :
           /\ size' = Max2(size, end(m))
           /\ At(f, end(m), size')
           /\ UNCHANGED spoiled \/ Spoils(f)
  BY DEF write
<1>2. n \in Nat /\ m \in Nat /\ fpos[f] \in Nat /\ size \in Nat
  BY SizesAssumption DEF IInv, Numbers
<1>3. end(m) \in Nat
  <2>1. Counted(f, n, m) \in Nat
    BY <1>2, CountedNat
  <2> QED
    BY <2>1, <1>2
<1>4. size' \in Nat /\ size' >= size /\ end(m) <= size'
  BY <1>1, <1>2, <1>3 DEF Max2
<1>5. Numbers' /\ Others(f) /\ InOrder(f)'
  BY <1>1, <1>3, <1>4 DEF write, IInv, Numbers, At, Others, InOrder, Spoils
<1> QED
  BY <1>4, <1>5, OneStep

LEMMA WriteFailsStep ==
  ASSUME IInv, NEW f \in Fds \ spoiled, NEW n \in Lengths, NEW v \in Data, WriteFails(f, n, v)
  PROVE  IInv'
<1> DEFINE free == Fitting(f, n)
<1>1. n \in Nat /\ fpos[f] \in Nat /\ size \in Nat /\ fsize[f] \in Nat
  BY SizesAssumption DEF IInv, Numbers
<1>2. free \in Nat
  BY <1>1, FittingNat
<1>3. UNCHANGED mode /\ f \in spoiled' /\ f \notin (Opened \ spoiled)'
           /\ spoiled' = spoiled \cup {f}
  BY DEF WriteFails, Spoils
<1>4. \E q, s, z \in Nat : At(f, q, s) /\ size' = z /\ z >= size
  <2>1. CASE UNCHANGED <<size, fpos, fsize>>
    BY <2>1, <1>1 DEF At, IInv, Numbers
  <2>2. CASE At(f, fpos[f], size) /\ UNCHANGED size
    BY <2>2, <1>1
  <2>3. ASSUME NEW m \in 0..(free - 1), NEW g \in 0..free,
               At(f, fpos[f] + Counted(f, n, m), size), size' = Appended(f, g)
        PROVE  \E q, s, z \in Nat : At(f, q, s) /\ size' = z /\ z >= size
    <3>1. m \in Nat /\ g \in Nat
      BY <1>2
    <3>2. fpos[f] + Counted(f, n, m) \in Nat
      <4>1. Counted(f, n, m) \in Nat
        BY <3>1, <1>1, CountedNat
      <4> QED
        BY <4>1, <1>1
    <3>3. Appended(f, g) \in Nat /\ Appended(f, g) >= size
      BY <3>1, AppendedGrows DEF IInv
    <3> QED
      BY <2>3, <3>2, <3>3, <1>1
  <2>4. ASSUME size' \in {size, Max2(size, fpos[f] + Counted(f, n, free))},
               At(f, fpos[f] + Counted(f, n, free),
                  Max2(size, fpos[f] + Counted(f, n, free)))
        PROVE  \E q, s, z \in Nat : At(f, q, s) /\ size' = z /\ z >= size
    <3>1. Counted(f, n, free) \in Nat
      BY <1>1, <1>2, CountedNat
    <3> QED
      BY <2>4, <3>1, <1>1 DEF Max2
  <2> QED
    BY <2>1, <2>2, <2>3, <2>4 DEF WriteFails
<1>5. Numbers' /\ Others(f) /\ size' >= size
  BY <1>3, <1>4 DEF IInv, Numbers, At, Others
<1> QED
  BY <1>3, <1>5, OneStep

LEMMA SeekStep ==
  ASSUME IInv, NEW f \in Fds \ spoiled, NEW off \in Int, NEW whence \in {"set", "cur", "end"},
         lseek(f, off, whence)
  PROVE  IInv'
<1>1. f \in Opened \ spoiled /\ fpos[f] \in Nat /\ fsize[f] \in Nat /\ size \in Nat
           /\ InOrder(f) /\ UNCHANGED <<size, mode, spoiled>>
  BY DEF lseek, IInv, Numbers
<1>2. \/ UNCHANGED <<fpos, fsize>>
      \/ \E q \in 0..fsize[f] : At(f, q, fsize[f])
  <2>1. CASE whence = "set"
    BY <1>1, <2>1 DEF lseek, InOrder
  <2>2. CASE whence = "cur"
    BY <1>1, <2>2 DEF lseek, InOrder, LeftOf
  <2>3. CASE whence = "end"
    BY <1>1, <2>3 DEF lseek, InOrder
  <2> QED
    BY <2>1, <2>2, <2>3
<1>3. Numbers' /\ Others(f) /\ InOrder(f)' /\ size' >= size
  BY <1>1, <1>2 DEF IInv, Numbers, At, Others, InOrder
<1> QED
  BY <1>3, OneStep

LEMMA TruncateStep ==
  ASSUME IInv, NEW f \in Fds \ spoiled, NEW n \in Nat, ftruncate(f, n),
         size' < size => Opened' \subseteq {got'[1]}
  PROVE  IInv'
<1> DEFINE s == Min2(n, size)
<1>1. f \in Opened \ spoiled /\ fpos[f] \in Nat /\ size \in Nat /\ fpos[f] <= size
           /\ s \in Nat /\ s <= size /\ UNCHANGED mode
  BY DEF ftruncate, IInv, Numbers, InOrder, Min2
<1>2. CASE /\ size' = s
           /\ At(f, IF s < size THEN Min2(fpos[f], s) ELSE fpos[f], s)
           /\ got' = <<f, "ftruncate", Done, n>>
           /\ UNCHANGED spoiled
  <2>1. Numbers' /\ Others(f) /\ InOrder(f)'
    BY <1>1, <1>2 DEF IInv, Numbers, At, Others, InOrder, Min2
  <2>2. CASE s = size
    BY <1>1, <1>2, <2>1, <2>2, OneStep
  <2>3. CASE s < size
    BY <1>1, <1>2, <2>1, <2>3, AloneStep
  <2> QED
    BY <1>1, <2>2, <2>3
<1>3. CASE /\ TruncationFails(s)
           /\ \E k \in {fsize[f], size} : At(f, fpos[f], k)
           /\ Spoils(f)
           /\ got' = <<f, "ftruncate", Error, n>>
  <2>1. s \in 0..size /\ size' \in s..size /\ fsize[f] \in Nat
    BY <1>1, <1>3, TruncationSize DEF IInv, Numbers
  <2>2. PICK k \in Nat : At(f, fpos[f], k)
    BY <1>1, <1>3, <2>1
  <2>3. Numbers' /\ Others(f) /\ f \notin (Opened \ spoiled)'
    BY <1>1, <1>3, <2>1, <2>2 DEF IInv, Numbers, At, Others, Spoils
  <2>4. CASE size' = size
    BY <1>1, <2>3, <2>4, OneStep
  <2>5. CASE size' < size
    BY <1>1, <1>3, <2>3, <2>5, AloneStep
  <2> QED
    BY <1>1, <2>1, <2>4, <2>5
<1> QED
  BY <1>2, <1>3 DEF ftruncate, AnswerTo

-----------------------------------------------------------------------------
LEMMA NextIInv ==
  ASSUME IInv, [CarefulNext]_vars
  PROVE  IInv'
<1>1. CASE UNCHANGED vars
  BY <1>1 DEF vars, IInv, Numbers, Opened, InOrder
<1>2. CASE CarefulNext
  <2>1. PICK f \in Fds :
          \/ \E m \in {"r", "w", "rw"}, trunc, append \in BOOLEAN : open(f, m, trunc, append)
          \/ close(f)
          \/ \E n \in Lengths : read(f, n)
          \/ Refused(f)
          \/ \E n \in Lengths, v \in Data : write(f, n, v) \/ WriteFails(f, n, v)
          \/ \E off \in -Cardinality(Cells)..Cardinality(Cells), whence \in {"set", "cur", "end"} :
                lseek(f, off, whence)
          \/ \E n \in 0..Cardinality(Cells) : ftruncate(f, n)
    BY <1>2 DEF CarefulNext, Next
  <2>2. /\ size' < size => Opened' \subseteq {got'[1]}
        /\ got'[1] \in spoiled => got'[2] = "close"
    BY <1>2 DEF CarefulNext
  <2>3. CASE \E m \in {"r", "w", "rw"}, trunc, append \in BOOLEAN : open(f, m, trunc, append)
    BY <2>2, <2>3, OpenStep
  <2>4. CASE close(f)
    BY <2>4, CloseStep
  <2>5. CASE \E n \in Lengths : read(f, n)
    <3>1. f \notin spoiled
      BY <2>2, <2>5 DEF read, Answer
    <3> QED
      BY <3>1, <2>5, ReadStep
  <2>6. CASE Refused(f)
    BY <2>6, RefusedStep
  <2>7. ASSUME NEW n \in Lengths, NEW v \in Data, write(f, n, v) \/ WriteFails(f, n, v)
        PROVE  IInv'
    <3>1. f \notin spoiled
      BY <2>2, <2>7 DEF write, WriteFails, Answer
    <3> QED
      BY <3>1, <2>7, WriteStep, WriteFailsStep
  <2>8. ASSUME NEW off \in -Cardinality(Cells)..Cardinality(Cells),
               NEW whence \in {"set", "cur", "end"}, lseek(f, off, whence)
        PROVE  IInv'
    <3>1. f \notin spoiled
      BY <2>2, <2>8 DEF lseek, Answer
    <3> QED
      BY <3>1, <2>8, SeekStep
  <2>9. ASSUME NEW n \in 0..Cardinality(Cells), ftruncate(f, n)
        PROVE  IInv'
    <3>1. f \notin spoiled
      BY <2>2, <2>9 DEF ftruncate, AnswerTo
    <3> QED
      BY <3>1, <2>2, <2>9, TruncateStep
  <2> QED
    BY <2>1, <2>3, <2>4, <2>5, <2>6, <2>7, <2>8, <2>9
<1> QED
  BY <1>1, <1>2

\* No descriptor of a careful program stands, or may seek, behind the end of the
\* file, for any number of descriptors, any block size and any failures of the
\* device: the unsigned size - pos of ext4_fread does not wrap.
THEOREM PositionsAreInFile == CarefulSpec => []PositionInFile
<1>1. IInv => PositionInFile
  BY DEF IInv, PositionInFile, InOrder, Numbers, Opened
<1> QED
  BY <1>1, InitIInv, NextIInv, PTL DEF CarefulSpec

-----------------------------------------------------------------------------
(* Blocks: where the head of a write ends, and that what fits ends in front *)
(* of the end of the device.                                                *)
Full == Room * Block

LEMMA Multiples ==
  ASSUME NEW a \in Int, NEW b \in Int
  PROVE  /\ a * Block \in Int /\ Block * a = a * Block
         /\ (a + b) * Block = a * Block + b * Block
         /\ a <= b => a * Block <= b * Block
         /\ a * Block < b * Block => a < b
<1> DEFINE B == Block
<1>1. B \in Nat \ {0}
  BY SizesAssumption
<1> HIDE DEF B
<1>2. a * B \in Int /\ B * a = a * B /\ (a + b) * B = a * B + b * B
  BY <1>1
<1>3. ASSUME a <= b PROVE a * B <= b * B
  BY <1>1, <1>3
<1>4. ASSUME a * B < b * B PROVE a < b
  <2> SUFFICES ASSUME b <= a PROVE b * B <= a * B
    BY <1>1, <1>2, <1>4
  <2> QED
    BY <1>1
<1> QED
  BY <1>2, <1>3, <1>4 DEF B

LEMMA Division ==
  ASSUME NEW p \in Nat
  PROVE  /\ p \div Block \in Nat /\ p % Block \in 0..(Block - 1)
         /\ p = (p \div Block) * Block + (p % Block)
<1> DEFINE B == Block
<1>1. B \in Nat \ {0}
  BY SizesAssumption
<1> HIDE DEF B
<1>2. p \div B \in Nat /\ p % B \in 0..(B - 1) /\ p = (p \div B) * B + (p % B)
  BY <1>1
<1> QED
  BY <1>2 DEF B

LEMMA BlocksOf ==
  ASSUME NEW p \in Nat
  PROVE  /\ Blocks(p) \in Nat
         /\ p <= Blocks(p) * Block /\ Blocks(p) * Block < p + Block
<1>1. p + Block - 1 \in Nat /\ Block \in Nat \ {0}
  BY SizesAssumption
<1>2. /\ Blocks(p) \in Nat /\ (p + Block - 1) % Block \in 0..(Block - 1)
      /\ p + Block - 1 = Blocks(p) * Block + ((p + Block - 1) % Block)
  BY <1>1, Division DEF Blocks
<1>3. Blocks(p) * Block \in Int
  BY <1>2, Multiples
<1> QED
  BY <1>1, <1>2, <1>3

LEMMA BlocksOrder ==
  ASSUME NEW p \in Nat, NEW q \in Nat
  PROVE  p <= q * Block => Blocks(p) <= q
<1> SUFFICES ASSUME p <= q * Block PROVE Blocks(p) <= q
  OBVIOUS
<1>1. /\ Blocks(p) \in Nat /\ Blocks(p) * Block \in Int /\ Blocks(p) * Block < p + Block
      /\ q * Block \in Int /\ (q + 1) * Block = q * Block + 1 * Block /\ 1 * Block = Block
  BY BlocksOf, Multiples, SizesAssumption
<1>2. Blocks(p) * Block < (q + 1) * Block
  BY <1>1, SizesAssumption
<1>3. Blocks(p) < q + 1
  BY <1>1, <1>2, Multiples
<1> QED
  BY <1>1, <1>3

LEMMA BlocksMonotone ==
  ASSUME NEW p \in Nat, NEW q \in Nat, p <= q
  PROVE  Blocks(p) <= Blocks(q)
<1>1. Blocks(q) \in Nat /\ q <= Blocks(q) * Block /\ Blocks(q) * Block \in Int
  BY BlocksOf, Multiples
<1>2. p <= Blocks(q) * Block
  BY <1>1
<1> QED
  BY <1>1, <1>2, BlocksOrder

LEMMA HeadEnd ==
  ASSUME NEW p \in Nat, NEW n \in Nat
  PROVE  /\ p + HeadOf(p, n) <= Blocks(p) * Block
         /\ HeadOf(p, n) < n => p + HeadOf(p, n) = Blocks(p) * Block
<1> DEFINE q == p \div Block
           r == p % Block
           k == Blocks(p)
<1>1. q \in Nat /\ r \in 0..(Block - 1) /\ p = q * Block + r /\ Block \in Nat \ {0}
  BY Division, SizesAssumption
<1>2. k \in Nat /\ p <= k * Block /\ k * Block < p + Block
  BY BlocksOf
<1>3. HeadOf(p, n) = IF r = 0 THEN 0 ELSE Min2(n, Block - r)
  BY DEF HeadOf
<1> HIDE DEF q, r, k
<1>4. /\ q * Block \in Int /\ k * Block \in Int
      /\ (q + 1) * Block = q * Block + Block /\ (q + 2) * Block = q * Block + Block + Block
  <2>1. 1 * Block = Block /\ 2 * Block = Block + Block
    BY <1>1
  <2> QED
    BY <1>1, <1>2, <2>1, Multiples
<1>5. CASE r = 0
  <2>1. q * Block <= k * Block /\ k * Block < (q + 1) * Block
    BY <1>1, <1>2, <1>4, <1>5
  <2>2. k < q + 1
    BY <1>1, <1>2, <2>1, Multiples
  <2>3. k * Block <= q * Block
    BY <1>1, <1>2, <2>2, Multiples
  <2>4. p = k * Block
    BY <1>1, <1>4, <1>5, <2>1, <2>3
  <2> QED
    BY <1>1, <1>3, <1>5, <2>4 DEF k
<1>6. CASE r # 0
  <2>1. q * Block < k * Block /\ k * Block < (q + 2) * Block
    BY <1>1, <1>2, <1>4, <1>6
  <2>2. q < k /\ k < q + 2
    BY <1>1, <1>2, <2>1, Multiples
  <2>3. k = q + 1
    BY <1>1, <1>2, <2>2
  <2>4. k * Block = p + (Block - r)
    BY <1>1, <1>4, <2>3
  <2> QED
    BY <1>1, <1>3, <1>6, <2>4 DEF k, Min2
<1> QED
  BY <1>5, <1>6

\* What is counted of a write that fits ends in front of the end of the device.
LEMMA CountedInRoom ==
  ASSUME NEW f \in Fds, NEW n \in Nat, NEW m \in Nat, fpos[f] \in Nat, size \in Nat,
         fpos[f] <= size, size <= Full, m <= Fitting(f, n)
  PROVE  fpos[f] + Counted(f, n, m) \in 0..Full
<1> DEFINE p == fpos[f]
           h == HeadOf(p, n)
           k == Blocks(p)
<1>1. h \in 0..n /\ p + h <= k * Block /\ (h < n => p + h = k * Block)
  BY HeadInWrite, HeadEnd
<1>2. k \in Nat /\ Blocks(size) \in Nat /\ k <= Blocks(size) /\ Blocks(size) <= Room
  BY BlocksOf, BlocksMonotone, BlocksOrder, SizesAssumption DEF Full
<1>3. FirstBlock(p) = k
  BY <1>2 DEF FirstBlock, Min2
<1>4. Fitting(f, n) \in Nat /\ Fitting(f, n) <= Room - k /\ Room - k \in Nat
  <2>1. Chunks(f, n) \in Nat
    BY <1>1, BlocksNat DEF Chunks
  <2> QED
    BY <1>2, <1>3, <2>1, SizesAssumption DEF Fitting, Min2, Max2
<1>5. /\ k + m <= Room /\ (k + m) * Block <= Full /\ (k + m) * Block = k * Block + m * Block
      /\ k * Block \in Int /\ m * Block \in Int /\ k * Block <= Full
  <2> HIDE DEF p, k
  <2>1. k + m \in Int /\ k + m <= Room /\ k <= Room
    BY <1>2, <1>4, SizesAssumption
  <2> QED
    BY <1>2, <2>1, Multiples, SizesAssumption DEF Full
<1>6. Full \in Nat
  BY TimesNat, SizesAssumption DEF Full
<1>7. Counted(f, n, m) = h + Min2(n - h, m * Block) /\ m * Block \in Nat
  BY TimesNat DEF Counted
<1> HIDE DEF p, h, k
<1>8. p + (h + Min2(n - h, m * Block)) \in 0..Full
  <2>1. CASE h = n
    <3>1. Min2(n - h, m * Block) = 0
      BY <1>1, <1>7, <2>1 DEF Min2
    <3> QED
      BY <1>1, <1>5, <1>6, <2>1, <3>1 DEF p
  <2>2. CASE h < n
    <3>1. Min2(n - h, m * Block) \in 0..(m * Block)
      BY <1>1, <1>7, <2>2 DEF Min2
    <3> QED
      BY <1>1, <1>5, <1>6, <1>7, <2>2, <3>1 DEF p
  <2> QED
    BY <1>1, <2>1, <2>2
<1> QED
  BY <1>7, <1>8 DEF p

\* Nor does appending make the file longer than the device.
LEMMA AppendedInRoom ==
  ASSUME Numbers, NEW f \in Fds, NEW n \in Nat, NEW g \in Nat, fpos[f] <= size, size <= Full,
         g <= Fitting(f, n)
  PROVE  Appended(f, g) \in 0..Full
<1> DEFINE k == Blocks(fpos[f])
           z == Blocks(size)
<1>1. fpos[f] \in Nat /\ size \in Nat
  BY DEF Numbers
<1>2. k \in Nat /\ z \in Nat /\ k <= z /\ z <= Room /\ size <= z * Block
  BY <1>1, BlocksOf, BlocksMonotone, BlocksOrder, SizesAssumption DEF Full
<1>3. FirstBlock(fpos[f]) = k
  BY <1>2 DEF FirstBlock, Min2
<1>4. Fitting(f, n) \in Nat /\ Fitting(f, n) <= Room - k
  <2>1. HeadOf(fpos[f], n) \in 0..n
    BY <1>1, HeadInWrite
  <2>2. Chunks(f, n) \in Nat
    BY <2>1, BlocksNat DEF Chunks
  <2> QED
    BY <1>2, <1>3, <2>2, SizesAssumption DEF Fitting, Min2, Max2
<1>5. Appended(f, g) = size + Block * Max2(0, k + g - z)
  BY <1>3 DEF Appended
<1> HIDE DEF k, z
<1> DEFINE more == Max2(0, k + g - z)
<1>6. more \in 0..(Room - z)
  BY <1>2, <1>4, SizesAssumption DEF Max2
<1> HIDE DEF more
<1>7. /\ more * Block <= (Room - z) * Block /\ z * Block + (Room - z) * Block = (z + (Room - z)) * Block
      /\ Block * more = more * Block /\ more * Block \in Int /\ z * Block \in Int
      /\ (Room - z) * Block \in Int
  BY <1>2, <1>6, Multiples, SizesAssumption
<1>8. z + (Room - z) = Room
  BY <1>2, SizesAssumption
<1>9. size + more * Block <= Full
  BY <1>1, <1>2, <1>7, <1>8 DEF Full
<1>10. more * Block \in Nat /\ Full \in Nat
  BY <1>6, TimesNat, SizesAssumption DEF Full
<1> QED
  BY <1>1, <1>5, <1>7, <1>9, <1>10 DEF more

-----------------------------------------------------------------------------
(* Types: every block that is written is a block of the device.             *)
Contents == Data \cup {Junk}

Bounded ==
    /\ size \in 0..Full
    /\ fpos \in [Fds -> 0..Full] /\ fsize \in [Fds -> 0..Full]

Modes ==
    /\ mode \in [Fds -> {"closed", "r", "w", "rw"}]
    /\ spoiled \subseteq Opened

LEMMA TypeParts == TypeOK <=> cells \in [Cells -> Contents] /\ Bounded /\ Modes
  BY DEF TypeOK, Contents, Bounded, Modes, Full

LEMMA PutCells ==
  ASSUME NEW c \in [Cells -> Contents], NEW at, NEW n, NEW v \in Contents
  PROVE  Put(c, at, n, v) \in [Cells -> Contents]
  BY DEF Put

LEMMA WipedCells ==
  ASSUME NEW c \in [Cells -> Contents], NEW b, NEW e
  PROVE  Wiped(c, b, e) \in [Cells -> Contents]
<1>1. Junk \in Contents
  BY DEF Contents
<1> QED
  BY <1>1, PutCells DEF Wiped

LEMMA StoredCells ==
  ASSUME cells \in [Cells -> Contents], NEW f, NEW n, NEW v \in Data, NEW m, NEW g
  PROVE  Stored(f, n, v, m, g) \in [Cells -> Contents]
<1> DEFINE h == HeadOf(fpos[f], n)
           first == FirstBlock(fpos[f])
           fresh == Wiped(cells, Max2(first, Blocks(size)), Max2(first + g, Blocks(size)))
           head == Put(fresh, fpos[f], h, v)
<1>1. v \in Contents
  BY DEF Contents
<1>2. fresh \in [Cells -> Contents]
  BY WipedCells
<1> HIDE DEF fresh
<1>3. head \in [Cells -> Contents]
  BY <1>1, <1>2, PutCells
<1> HIDE DEF head
<1>4. Put(head, first * Block, Min2(n - h, m * Block), v) \in [Cells -> Contents]
  BY <1>1, <1>3, PutCells
<1> QED
  BY <1>4 DEF Stored, fresh, head

LEMMA HalfCells ==
  ASSUME cells \in [Cells -> Contents], NEW n
  PROVE  /\ Shrunk(n) \in [Cells -> Contents]
         /\ TruncationFails(n) => cells' \in [Cells -> Contents]
<1>1. \A r : Shrunk(r) \in [Cells -> Contents]
  BY WipedCells DEF Shrunk
<1>2. \A r, b, e : Wiped(Shrunk(r), b, e) \in [Cells -> Contents]
  BY <1>1, WipedCells
<1> QED
  BY <1>1, <1>2 DEF TruncationFails

LEMMA FullNat == Full \in Nat /\ 0 \in 0..Full
  BY TimesNat, SizesAssumption DEF Full

LEMMA PlacedInRoom ==
  ASSUME Bounded, NEW f \in Fds, NEW q \in 0..Full, NEW s \in 0..Full, At(f, q, s), size' \in 0..Full
  PROVE  Bounded'
  BY DEF Bounded, At

\* What the write of a descriptor in order knows.
LEMMA InRoom ==
  ASSUME IInv, Bounded, NEW f \in Opened \ spoiled
  PROVE  /\ f \in Fds /\ size \in Nat /\ size <= Full /\ fpos[f] \in Nat /\ fsize[f] \in Nat
         /\ fpos[f] <= fsize[f] /\ fsize[f] <= size
         /\ fpos[f] \in 0..Full /\ fsize[f] \in 0..Full
<1>1. f \in Fds /\ Full \in Nat
  BY FullNat DEF Opened
<1> QED
  BY <1>1 DEF IInv, InOrder, Numbers, Bounded

LEMMA OpenTypes ==
  ASSUME TypeOK, NEW f \in Fds, NEW m \in {"r", "w", "rw"}, NEW trunc \in BOOLEAN,
         NEW append \in BOOLEAN, open(f, m, trunc, append)
  PROVE  TypeOK'
<1>1. cells \in [Cells -> Contents] /\ Bounded /\ Modes
  BY TypeParts
<1>2. cells' \in [Cells -> Contents]
  BY <1>1, HalfCells DEF open
<1>3. Bounded'
  <2>1. CASE /\ size' = (IF trunc THEN 0 ELSE size)
             /\ At(f, IF append THEN size' ELSE 0, size')
    <3>1. size' \in 0..Full /\ (IF append THEN size' ELSE 0) \in 0..Full
      BY <1>1, <2>1, FullNat DEF Bounded
    <3> QED
      BY <1>1, <2>1, <3>1, PlacedInRoom
  <2>2. CASE /\ IF trunc THEN TruncationFails(0) ELSE UNCHANGED size
             /\ UNCHANGED <<fpos, fsize>>
    <3>1. size \in Nat /\ size <= Full /\ Full \in Nat
      BY <1>1, FullNat DEF Bounded
    <3>2. size' \in 0..Full
      BY <2>2, <3>1, TruncationSize
    <3> QED
      BY <1>1, <2>2, <3>2 DEF Bounded
  <2> QED
    BY <2>1, <2>2 DEF open
<1>4. Modes'
  BY <1>1 DEF open, Modes, Opened
<1> QED
  BY <1>2, <1>3, <1>4, TypeParts DEF TypeOK, Contents, Bounded, Modes, Full

LEMMA WriteTypes ==
  ASSUME IInv, TypeOK, NEW f \in Fds \ spoiled, NEW n \in Lengths, NEW v \in Data, write(f, n, v)
  PROVE  TypeOK'
<1> DEFINE end(m) == fpos[f] + Counted(f, n, m)
<1>1. cells \in [Cells -> Contents] /\ Bounded /\ Modes
  BY TypeParts
<1>2. f \in Opened \ spoiled /\ n \in Nat
  BY SizesAssumption DEF write, Opened
<1>3. PICK m \in 0..Fitting(f, n) :
           /\ cells' = Stored(f, n, v, m, m)
           /\ size' = Max2(size, end(m)) /\ At(f, end(m), size')
           /\ UNCHANGED spoiled \/ Spoils(f)
  BY DEF write
<1>4. m \in Nat /\ m <= Fitting(f, n)
  <2>1. Fitting(f, n) \in Nat
    BY <1>1, <1>2, InRoom, FittingNat
  <2> QED
    BY <2>1
<1>5. end(m) \in 0..Full
  BY <1>1, <1>2, <1>4, InRoom, CountedInRoom
<1> HIDE DEF end
<1>6. size' \in 0..Full
  BY <1>1, <1>3, <1>5 DEF Bounded, Max2
<1>7. Bounded'
  BY <1>1, <1>3, <1>5, <1>6, PlacedInRoom
<1>8. cells' \in [Cells -> Contents]
  BY <1>1, <1>3, StoredCells
<1>9. Modes'
  BY <1>1, <1>2, <1>3 DEF write, Modes, Opened, Spoils
<1> QED
  BY <1>7, <1>8, <1>9 DEF TypeOK, Contents, Bounded, Modes, Full

LEMMA WriteFailsTypes ==
  ASSUME IInv, TypeOK, NEW f \in Fds \ spoiled, NEW n \in Lengths, NEW v \in Data, WriteFails(f, n, v)
  PROVE  TypeOK'
<1> DEFINE free == Fitting(f, n)
           end(m) == fpos[f] + Counted(f, n, m)
<1>1. cells \in [Cells -> Contents] /\ Bounded /\ Modes /\ v \in Contents
  BY TypeParts DEF Contents
<1>2. f \in Opened \ spoiled /\ n \in Nat
  BY SizesAssumption DEF WriteFails, Opened
<1>3. free \in Nat
  BY <1>1, <1>2, InRoom, FittingNat
<1>4. \A m \in 0..free : end(m) \in 0..Full
  <2> SUFFICES ASSUME NEW m \in 0..free PROVE end(m) \in 0..Full
    OBVIOUS
  <2>1. m \in Nat /\ m <= Fitting(f, n)
    BY <1>3
  <2> QED
    BY <1>1, <1>2, <2>1, InRoom, CountedInRoom
<1>5. \A g \in 0..free : Appended(f, g) \in 0..Full
  <2> SUFFICES ASSUME NEW g \in 0..free PROVE Appended(f, g) \in 0..Full
    OBVIOUS
  <2>1. g \in Nat /\ g <= Fitting(f, n) /\ fpos[f] <= size
    BY <1>1, <1>2, <1>3, InRoom
  <2> QED
    BY <1>1, <1>2, <2>1, InRoom, AppendedInRoom DEF IInv
<1>6. size \in 0..Full /\ fpos[f] \in 0..Full
  BY <1>1, <1>2 DEF Bounded
<1>7. Bounded'
  <2>1. CASE UNCHANGED <<size, fpos, fsize>>
    BY <1>1, <2>1 DEF Bounded
  <2>2. CASE At(f, fpos[f], size) /\ UNCHANGED size
    BY <1>1, <1>6, <2>2, PlacedInRoom
  <2>3. ASSUME NEW m \in 0..(free - 1), NEW g \in 0..free,
               At(f, end(m), size), size' = Appended(f, g)
        PROVE  Bounded'
    <3>1. m \in 0..free
      BY <1>3
    <3>2. end(m) \in 0..Full /\ Appended(f, g) \in 0..Full
      BY <1>4, <1>5, <3>1
    <3> HIDE DEF end
    <3> QED
      BY <1>1, <1>6, <2>3, <3>2, PlacedInRoom
  <2>4. CASE size' \in {size, Max2(size, end(free))} /\ At(f, end(free), Max2(size, end(free)))
    <3>1. end(free) \in 0..Full
      BY <1>3, <1>4
    <3> HIDE DEF end
    <3>2. Max2(size, end(free)) \in 0..Full
      BY <1>6, <3>1 DEF Max2
    <3> QED
      BY <1>1, <1>6, <2>4, <3>1, <3>2, PlacedInRoom
  <2> QED
    BY <2>1, <2>2, <2>3, <2>4 DEF WriteFails
<1>8. cells' \in [Cells -> Contents]
  <2>1. \A w, g : Stored(f, n, v, w, g) \in [Cells -> Contents]
    BY <1>1, StoredCells
  <2>2. Put(cells, fpos[f], HeadOf(fpos[f], n), v) \in [Cells -> Contents]
    BY <1>1, PutCells
  <2> QED
    BY <1>1, <2>1, <2>2 DEF WriteFails
<1>9. Modes'
  BY <1>1, <1>2 DEF WriteFails, Modes, Opened, Spoils
<1> QED
  BY <1>7, <1>8, <1>9 DEF TypeOK, Contents, Bounded, Modes, Full

LEMMA OtherTypes ==
  ASSUME IInv, TypeOK, NEW f \in Fds,
         \/ close(f) \/ Refused(f)
         \/ f \notin spoiled /\ \E n \in Lengths : read(f, n)
         \/ f \notin spoiled /\ \E off \in Int, whence \in {"set", "cur", "end"} : lseek(f, off, whence)
         \/ f \notin spoiled /\ \E n \in Nat : ftruncate(f, n)
  PROVE  TypeOK'
<1>1. cells \in [Cells -> Contents] /\ Bounded /\ Modes /\ Full \in Nat /\ 0 \in 0..Full
  BY TypeParts, FullNat
<1>2. CASE close(f)
  <2>1. Bounded'
    BY <1>1, <1>2, PlacedInRoom DEF close, Bounded
  <2>2. Modes' /\ cells' = cells
    BY <1>1, <1>2 DEF close, Modes, Opened
  <2> QED
    BY <1>1, <2>1, <2>2 DEF TypeOK, Contents, Bounded, Modes, Full
<1>3. CASE Refused(f)
  BY <1>1, <1>3 DEF Refused, TypeOK, Opened
<1>4. CASE f \notin spoiled /\ \E n \in Lengths : read(f, n)
  <2> PICK n \in Lengths : read(f, n)
    BY <1>4
  <2> DEFINE p == fpos[f]
             k == Min2(n, LeftOf(size, p, n))
  <2>1. f \in Opened \ spoiled /\ n \in Nat
    BY <1>4, SizesAssumption DEF read
  <2>2. p \in Nat /\ size \in Nat /\ p <= size /\ size \in 0..Full
    BY <1>1, <2>1, InRoom
  <2>3. k \in Nat /\ p + k <= size
    BY <2>1, <2>2 DEF Min2, LeftOf
  <2>4. UNCHANGED <<fpos, fsize>> \/ \E q \in p..(p + k) : At(f, q, size)
    BY <2>2, <2>3 DEF read
  <2>5. p..(p + k) \subseteq 0..Full /\ size' = size /\ cells' = cells
    BY <1>1, <2>2, <2>3 DEF read
  <2>6. Bounded'
    <3>1. CASE UNCHANGED <<fpos, fsize>>
      BY <1>1, <2>5, <3>1 DEF Bounded
    <3>2. ASSUME NEW q \in p..(p + k), At(f, q, size) PROVE Bounded'
      BY <1>1, <2>2, <2>5, <3>2, PlacedInRoom
    <3> QED
      BY <2>4, <3>1, <3>2
  <2>7. Modes'
    BY <1>1, <2>1 DEF read, Modes, Opened, Spoils
  <2> QED
    BY <1>1, <2>5, <2>6, <2>7 DEF TypeOK, Contents, Bounded, Modes, Full
<1>5. CASE f \notin spoiled /\ \E off \in Int, whence \in {"set", "cur", "end"} : lseek(f, off, whence)
  <2> PICK off \in Int, whence \in {"set", "cur", "end"} : lseek(f, off, whence)
    BY <1>5
  <2>1. f \in Opened \ spoiled /\ UNCHANGED <<cells, size, mode, spoiled>>
    BY <1>5 DEF lseek
  <2>2. /\ fpos[f] \in Nat /\ fsize[f] \in Nat /\ fpos[f] <= fsize[f] /\ fsize[f] <= Full
    BY <1>1, <2>1, InRoom
  <2>3. \/ UNCHANGED <<fpos, fsize>>
        \/ \E q \in 0..fsize[f] : At(f, q, fsize[f])
    <3>1. CASE whence = "set"
      BY <2>2, <3>1 DEF lseek
    <3>2. CASE whence = "cur"
      BY <2>2, <3>2 DEF lseek, LeftOf
    <3>3. CASE whence = "end"
      BY <2>2, <3>3 DEF lseek
    <3> QED
      BY <3>1, <3>2, <3>3
  <2>4. Bounded'
    <3>1. CASE UNCHANGED <<fpos, fsize>>
      BY <1>1, <2>1, <3>1 DEF Bounded
    <3>2. CASE \E q \in 0..fsize[f] : At(f, q, fsize[f])
      <4> PICK q \in 0..fsize[f] : At(f, q, fsize[f])
        BY <3>2
      <4>1. q \in 0..Full /\ fsize[f] \in 0..Full /\ size' \in 0..Full
        BY <1>1, <2>1, <2>2 DEF Bounded
      <4> QED
        BY <1>1, <4>1, PlacedInRoom
    <3> QED
      BY <2>3, <3>1, <3>2
  <2> QED
    BY <1>1, <2>1, <2>4 DEF TypeOK, Contents, Bounded, Modes, Full, Opened
<1>6. CASE f \notin spoiled /\ \E n \in Nat : ftruncate(f, n)
  <2> PICK n \in Nat : ftruncate(f, n)
    BY <1>6
  <2> DEFINE s == Min2(n, size)
  <2>1. f \in Opened \ spoiled
    BY <1>6 DEF ftruncate
  <2>2. size \in 0..Full /\ fpos[f] \in 0..Full /\ s \in 0..Full /\ Min2(fpos[f], s) \in 0..Full
    BY <1>1, <2>1, InRoom DEF Bounded, Min2
  <2>3. cells' \in [Cells -> Contents]
    BY <1>1, HalfCells DEF ftruncate
  <2>4. \E q \in 0..Full, r \in 0..Full : At(f, q, r) /\ size' \in 0..Full
    <3>1. CASE TruncationFails(s) /\ \E k \in {fsize[f], size} : At(f, fpos[f], k)
      <4>1. size \in Nat /\ Full \in Nat /\ s \in 0..size /\ fsize[f] \in 0..Full
        BY <1>1, <2>1, <2>2, InRoom DEF Min2
      <4>2. size' \in 0..Full
        BY <2>2, <3>1, <4>1, TruncationSize
      <4> QED
        BY <2>2, <3>1, <4>1, <4>2
    <3>2. CASE size' = s /\ At(f, IF s < size THEN Min2(fpos[f], s) ELSE fpos[f], s)
      BY <2>2, <3>2
    <3> QED
      BY <3>1, <3>2 DEF ftruncate
  <2>5. Bounded'
    BY <1>1, <2>4, PlacedInRoom
  <2>6. Modes'
    BY <1>1, <2>1 DEF ftruncate, Modes, Opened, Spoils
  <2> QED
    BY <2>3, <2>5, <2>6 DEF TypeOK, Contents, Bounded, Modes, Full
<1> QED
  BY <1>2, <1>3, <1>4, <1>5, <1>6

LEMMA InitTypes == Init => TypeOK
<1> SUFFICES ASSUME Init PROVE TypeOK
  OBVIOUS
<1>1. 0 \in 0..Full
  BY FullNat
<1> QED
  BY <1>1 DEF Init, TypeOK, Opened, Full

LEMMA NextTypes ==
  ASSUME IInv, TypeOK, [CarefulNext]_vars
  PROVE  TypeOK'
<1>1. CASE UNCHANGED vars
  BY <1>1 DEF vars, TypeOK, Opened
<1>2. CASE CarefulNext
  <2>1. PICK f \in Fds :
          \/ \E m \in {"r", "w", "rw"}, trunc, append \in BOOLEAN : open(f, m, trunc, append)
          \/ close(f)
          \/ \E n \in Lengths : read(f, n)
          \/ Refused(f)
          \/ \E n \in Lengths, v \in Data : write(f, n, v) \/ WriteFails(f, n, v)
          \/ \E off \in -Cardinality(Cells)..Cardinality(Cells), whence \in {"set", "cur", "end"} :
                lseek(f, off, whence)
          \/ \E n \in 0..Cardinality(Cells) : ftruncate(f, n)
    BY <1>2 DEF CarefulNext, Next
  <2>2. got'[1] \in spoiled => got'[2] = "close"
    BY <1>2 DEF CarefulNext
  <2>3. CASE \E m \in {"r", "w", "rw"}, trunc, append \in BOOLEAN : open(f, m, trunc, append)
    BY <2>3, OpenTypes
  <2>4. CASE close(f) \/ Refused(f)
    BY <2>4, OtherTypes
  <2>5. CASE \E n \in Lengths : read(f, n)
    <3>1. f \notin spoiled
      BY <2>2, <2>5 DEF read, Answer
    <3> QED
      BY <2>5, <3>1, OtherTypes
  <2>6. ASSUME NEW n \in Lengths, NEW v \in Data, write(f, n, v) \/ WriteFails(f, n, v)
        PROVE  TypeOK'
    <3>1. f \notin spoiled
      BY <2>2, <2>6 DEF write, WriteFails, Answer
    <3> QED
      BY <2>6, <3>1, WriteTypes, WriteFailsTypes
  <2>7. ASSUME NEW off \in -Cardinality(Cells)..Cardinality(Cells),
               NEW whence \in {"set", "cur", "end"}, lseek(f, off, whence)
        PROVE  TypeOK'
    <3>1. f \notin spoiled
      BY <2>2, <2>7 DEF lseek, Answer
    <3>2. \E o \in Int, w \in {"set", "cur", "end"} : lseek(f, o, w)
      BY <2>7
    <3> QED
      BY <3>1, <3>2, OtherTypes
  <2>8. ASSUME NEW n \in 0..Cardinality(Cells), ftruncate(f, n)
        PROVE  TypeOK'
    <3>1. f \notin spoiled
      BY <2>2, <2>8 DEF ftruncate, AnswerTo
    <3>2. \E k \in Nat : ftruncate(f, k)
      BY <2>8
    <3> QED
      BY <3>1, <3>2, OtherTypes
  <2> QED
    BY <2>1, <2>3, <2>4, <2>5, <2>6, <2>7, <2>8
<1> QED
  BY <1>1, <1>2

\* In a careful program every variable keeps its type: whatever is written,
\* appended or given up in the middle, no length and no position is behind the
\* end of the device, for any block size and any number of blocks.
THEOREM TypeCorrect == CarefulSpec => []TypeOK
<1>1. Init => IInv /\ TypeOK
  BY InitIInv, InitTypes
<1>2. IInv /\ TypeOK /\ [CarefulNext]_vars => (IInv /\ TypeOK)'
  BY NextIInv, NextTypes
<1> QED
  BY <1>1, <1>2, PTL DEF CarefulSpec

-----------------------------------------------------------------------------
(* The contents as a sequence of bytes.                                     *)
TextOf(c, s) == [i \in 1..s |-> IF 0 + i - 1 \in Cells THEN c[0 + i - 1] ELSE Junk]

LEMMA FoundIs ==
  /\ Found(0, size) = TextOf(cells, size)
  /\ Found(0, size)' = TextOf(cells', size')
  BY DEF Found, TextOf

LEMMA FunctionIsSequence ==
  ASSUME NEW S, NEW n \in Nat, NEW t \in [1..n -> S]
  PROVE  t \in Seq(S) /\ Len(t) = n
<1>1. t \in Seq(S)
  BY SeqDef
<1>2. DOMAIN t = 1..n /\ DOMAIN t = 1..Len(t) /\ Len(t) \in Nat
  BY <1>1, LenProperties
<1> QED
  BY <1>1, <1>2

LEMMA CellOf ==
  ASSUME NEW s \in 0..Full, NEW i \in 1..s
  PROVE  i - 1 \in Cells
  BY FullNat DEF Cells, Full

LEMMA TextIs ==
  ASSUME NEW c \in [Cells -> Contents], NEW s \in 0..Full
  PROVE  /\ TextOf(c, s) \in Seq(Contents) /\ Len(TextOf(c, s)) = s
         /\ \A i \in 1..s : i - 1 \in Cells /\ TextOf(c, s)[i] = c[i - 1]
<1>1. s \in Nat /\ \A i \in 1..s : i - 1 \in Cells /\ 0 + i - 1 = i - 1
  BY FullNat DEF Cells, Full
<1>2. \A i \in 1..s : TextOf(c, s)[i] = c[i - 1]
  BY <1>1 DEF TextOf
<1>3. TextOf(c, s) \in [1..s -> Contents]
  BY <1>1 DEF TextOf
<1> QED
  BY <1>1, <1>2, <1>3, FunctionIsSequence

LEMMA TextEqual ==
  ASSUME NEW c \in [Cells -> Contents], NEW s \in 0..Full, NEW t \in Seq(Contents),
         Len(t) = s, \A i \in 1..s : t[i] = c[i - 1]
  PROVE  TextOf(c, s) = t
<1>1. /\ TextOf(c, s) \in Seq(Contents) /\ Len(TextOf(c, s)) = Len(t)
      /\ \A i \in 1..Len(TextOf(c, s)) : TextOf(c, s)[i] = t[i]
  BY TextIs
<1> HIDE DEF TextOf
<1> QED
  BY <1>1, SeqEqual

\* What lies between two positions.
Piece(c, s, p, q) == SubSeq(TextOf(c, s), p + 1, q)

LEMMA PieceIs ==
  ASSUME NEW c \in [Cells -> Contents], NEW s \in 0..Full, NEW p \in Nat, NEW q \in 0..s
  PROVE  /\ Piece(c, s, p, q) \in Seq(Contents)
         /\ Len(Piece(c, s, p, q)) = IF p <= q THEN q - p ELSE 0
         /\ \A i \in 1..(q - p) : Piece(c, s, p, q)[i] = c[p + i - 1]
<1> DEFINE t == TextOf(c, s)
           u == SubSeq(t, p + 1, q)
<1>1. /\ s \in Nat /\ p + 1 \in Int /\ q \in Int
      /\ t \in Seq(Contents) /\ Len(t) = s /\ \A i \in 1..s : t[i] = c[i - 1]
  BY TextIs, FullNat
<1>2. \A i \in (p + 1)..q : t[i] \in Contents
  <2>1. \A i \in 1..s : t[i] \in Contents
    BY TextIs
  <2> QED
    BY <1>1, <2>1
<1> HIDE DEF t
<1>3. /\ u \in Seq(Contents)
      /\ Len(u) = IF p + 1 <= q THEN q - (p + 1) + 1 ELSE 0
      /\ \A i \in 1..(q - (p + 1) + 1) : u[i] = t[p + 1 + i - 1]
  BY <1>1, <1>2, SubSeqProperties
<1> HIDE DEF u
<1>4. Len(u) = IF p <= q THEN q - p ELSE 0
  BY <1>1, <1>3
<1>5. ASSUME NEW i \in 1..(q - p) PROVE u[i] = c[p + i - 1]
  <2>1. i \in 1..(q - (p + 1) + 1) /\ p + 1 + i - 1 = p + i /\ p + i \in 1..s
    BY <1>1
  <2>2. u[i] = t[p + i]
    BY <1>3, <2>1
  <2>3. t[p + i] = c[p + i - 1]
    BY <1>1, <2>1
  <2> QED
    BY <2>2, <2>3
<1> QED
  BY <1>3, <1>4, <1>5 DEF u, t, Piece

\* Contents that agree up to a position have the same beginning.
LEMMA SameBeginning ==
  ASSUME NEW c \in [Cells -> Contents], NEW s \in 0..Full,
         NEW d \in [Cells -> Contents], NEW r \in 0..Full,
         NEW p \in Nat, p <= s, p <= r, \A i \in Cells : i < p => d[i] = c[i]
  PROVE  Piece(d, r, 0, p) = Piece(c, s, 0, p)
<1>1. p \in 0..s /\ p \in 0..r /\ 0 \in Nat /\ s \in Nat
  BY FullNat
<1>2. /\ Piece(c, s, 0, p) \in Seq(Contents)
      /\ Len(Piece(c, s, 0, p)) = IF 0 <= p THEN p - 0 ELSE 0
      /\ \A i \in 1..(p - 0) : Piece(c, s, 0, p)[i] = c[0 + i - 1]
  BY <1>1, PieceIs
<1>3. /\ Piece(d, r, 0, p) \in Seq(Contents)
      /\ Len(Piece(d, r, 0, p)) = IF 0 <= p THEN p - 0 ELSE 0
      /\ \A i \in 1..(p - 0) : Piece(d, r, 0, p)[i] = d[0 + i - 1]
  BY <1>1, PieceIs
<1>4. ASSUME NEW i \in 1..(p - 0)
      PROVE  Piece(d, r, 0, p)[i] = Piece(c, s, 0, p)[i]
  <2>1. i \in 1..s /\ i - 1 < p /\ 0 + i - 1 = i - 1
    BY <1>1
  <2>2. i - 1 \in Cells
    BY <2>1, CellOf
  <2> QED
    BY <1>2, <1>3, <2>1, <2>2
<1>5. Len(Piece(d, r, 0, p)) = Len(Piece(c, s, 0, p)) /\ Len(Piece(d, r, 0, p)) = p - 0
  BY <1>1, <1>2, <1>3
<1> HIDE DEF Piece
<1> QED
  BY <1>2, <1>3, <1>4, <1>5, SeqEqual

\* A shorter text is the beginning of the longer one.
LEMMA Shorter ==
  ASSUME NEW c \in [Cells -> Contents], NEW s \in 0..Full,
         NEW d \in [Cells -> Contents], NEW r \in 0..s, \A i \in Cells : i < r => d[i] = c[i]
  PROVE  TextOf(d, r) = Piece(c, s, 0, r)
<1>1. r \in 0..Full /\ r \in Nat /\ s \in Nat /\ 0 \in Nat /\ r - 0 = r /\ 0 <= r
  BY FullNat
<1>2. /\ Piece(c, s, 0, r) \in Seq(Contents) /\ Len(Piece(c, s, 0, r)) = r
      /\ \A i \in 1..(r - 0) : Piece(c, s, 0, r)[i] = c[0 + i - 1]
  BY <1>1, PieceIs
<1>3. \A i \in 1..r : i - 1 \in Cells /\ i - 1 < r /\ 0 + i - 1 = i - 1
  BY <1>1, CellOf
<1>4. \A i \in 1..r : Piece(c, s, 0, r)[i] = d[i - 1]
  BY <1>1, <1>2, <1>3
<1> QED
  BY <1>1, <1>2, <1>4, TextEqual

\* What stands where after a write of w of g blocks got.
LEMMA StoredIs ==
  ASSUME NEW f, fpos[f] \in Nat, size \in Nat, fpos[f] <= size,
         NEW n \in Nat, NEW v, NEW w \in Nat, NEW g \in Nat, NEW i \in Cells
  PROVE  LET end == fpos[f] + Counted(f, n, w)
             now == Stored(f, n, v, w, g)[i]
         IN  /\ i < fpos[f] => now = cells[i]
             /\ i >= fpos[f] /\ i < end => now = v
             /\ i >= end /\ i < size => now = cells[i]
<1> DEFINE p == fpos[f]
           h == HeadOf(p, n)
           k == FirstBlock(p)
           z == Max2(k, Blocks(size))
           e == Max2(k + g, Blocks(size))
           fresh == Wiped(cells, z, e)
           head == Put(fresh, p, h, v)
           tail == Min2(n - h, w * Block)
           all == Put(head, k * Block, tail, v)
<1>1. h \in 0..n /\ p + h <= Blocks(p) * Block /\ (h < n => p + h = Blocks(p) * Block)
  BY HeadInWrite, HeadEnd
<1>2. Blocks(p) \in Nat /\ Blocks(size) \in Nat /\ Blocks(p) <= Blocks(size)
      /\ size <= Blocks(size) * Block
  BY BlocksOf, BlocksMonotone
<1>3. k = Blocks(p) /\ z = Blocks(size)
  BY <1>2 DEF FirstBlock, Min2, Max2
<1>4. /\ w * Block \in Nat /\ k * Block \in Nat /\ z * Block \in Nat /\ p + h <= k * Block
      /\ h < n => p + h = k * Block
      /\ size <= z * Block
  BY <1>1, <1>2, <1>3, TimesNat
<1>5. Counted(f, n, w) = h + tail
  BY DEF Counted
<1>6. tail \in Nat /\ (h = n => tail = 0)
  BY <1>1, <1>4 DEF Min2
<1>7. Stored(f, n, v, w, g) = all
  BY DEF Stored
<1>8. i \in Nat
  BY DEF Cells
<1>9. fresh[i] = IF i \in (z * Block)..(z * Block + (e - z) * Block - 1) THEN Junk ELSE cells[i]
  BY DEF Wiped, Put
<1>10. i < size => fresh[i] = cells[i]
  <2> HIDE DEF p, h, k, z, e, fresh
  <2> QED
    BY <1>4, <1>8, <1>9
<1> HIDE DEF fresh
<1>11. head[i] = IF i \in p..(p + h - 1) THEN v ELSE fresh[i]
  BY DEF Put
<1> HIDE DEF head
<1>12. all[i] = IF i \in (k * Block)..(k * Block + tail - 1) THEN v ELSE head[i]
  BY DEF Put
<1> HIDE DEF all, h, k, z, e, tail
<1>13. CASE i < p
  BY <1>1, <1>4, <1>5, <1>6, <1>7, <1>8, <1>10, <1>11, <1>12, <1>13
<1>14. CASE i >= p /\ i < p + h + tail
  <2>1. i \in p..(p + h - 1) \/ i \in (k * Block)..(k * Block + tail - 1)
    BY <1>1, <1>4, <1>6, <1>8, <1>14
  <2>2. all[i] = v
    BY <1>11, <1>12, <2>1
  <2>3. fpos[f] + Counted(f, n, w) = p + h + tail
    BY <1>1, <1>5, <1>6
  <2> QED
    BY <1>1, <1>6, <1>7, <1>8, <1>14, <2>2, <2>3
<1>15. CASE i >= p + h + tail
  <2>1. ~(i \in p..(p + h - 1)) /\ ~(i \in (k * Block)..(k * Block + tail - 1))
    BY <1>1, <1>4, <1>6, <1>8, <1>15
  <2> QED
    BY <1>1, <1>5, <1>6, <1>7, <1>8, <1>10, <1>11, <1>12, <1>15, <2>1
<1> QED
  BY <1>1, <1>6, <1>8, <1>13, <1>14, <1>15

-----------------------------------------------------------------------------
(* Every call is one of FileBytes.                                          *)
Front(p) == SubSeq(Found(0, size), 1, p)

LEMMA BytesNow ==
  ASSUME TypeOK
  PROVE  /\ size \in 0..Full /\ cells \in [Cells -> Contents]
         /\ Found(0, size) = TextOf(cells, size)
         /\ Len(Found(0, size)) = size
         /\ \A p : Front(p) = Piece(cells, size, 0, p)
<1>1. size \in 0..Full /\ cells \in [Cells -> Contents] /\ 0 + 1 = 1
  BY TypeParts DEF Bounded
<1>2. Found(0, size) = TextOf(cells, size)
  BY FoundIs
<1>3. Len(TextOf(cells, size)) = size
  BY <1>1, TextIs
<1>4. \A p : Front(p) = Piece(cells, size, 0, p)
  BY <1>1, <1>2 DEF Front, Piece
<1> QED
  BY <1>1, <1>2, <1>3, <1>4

LEMMA BytesThen ==
  ASSUME TypeOK'
  PROVE  /\ size' \in 0..Full /\ cells' \in [Cells -> Contents]
         /\ Found(0, size)' = TextOf(cells', size')
         /\ Len(Found(0, size)') = size'
<1>1. size' \in 0..Full /\ cells' \in [Cells -> Contents]
  BY DEF TypeOK, Contents, Full
<1>2. Found(0, size)' = TextOf(cells', size')
  BY FoundIs
<1>3. Len(TextOf(cells', size')) = size'
  BY <1>1, TextIs
<1> QED
  BY <1>1, <1>2, <1>3

LEMMA SameBytes ==
  ASSUME UNCHANGED <<cells, size>>
  PROVE  Found(0, size)' = Found(0, size)
  BY DEF Found

LEMMA EmptyText ==
  ASSUME NEW c
  PROVE  TextOf(c, 0) = <<>>
  BY DEF TextOf

LEMMA OpenIs ==
  ASSUME TypeOK, TypeOK', NEW f \in Fds, NEW m \in {"r", "w", "rw"}, NEW trunc \in BOOLEAN,
         NEW append \in BOOLEAN, open(f, m, trunc, append)
  PROVE  Bytes!Open(f) \/ Bytes!OpenFails(f)
<1>1. /\ Len(Found(0, size)) = size
      /\ Found(0, size)' = TextOf(cells', size') /\ Len(Found(0, size)') = size'
  BY BytesNow, BytesThen
<1>2. mode[f] = "closed" /\ UNCHANGED spoiled
  BY DEF open
<1>3. CASE /\ size' = (IF trunc THEN 0 ELSE size)
           /\ cells' = (IF trunc THEN Shrunk(0) ELSE cells)
           /\ At(f, IF append THEN size' ELSE 0, size')
           /\ mode' = [mode EXCEPT ![f] = m]
           /\ AnswerTo(f, "open", trunc, Done)
  <2>1. Found(0, size)' = IF trunc THEN <<>> ELSE Found(0, size)
    <3>1. CASE trunc
      BY <1>1, <1>3, <3>1, EmptyText
    <3>2. CASE ~trunc
      BY <1>3, <3>2, SameBytes
    <3> QED
      BY <3>1, <3>2
  <2>2. \E p \in {0, Len(Found(0, size)')} : Bytes!Moved(f, p, Len(Found(0, size)'))
    BY <1>1, <1>3 DEF At, Bytes!Moved
  <2>3. got'[2] = "open" /\ got'[4] = trunc /\ got' = <<f, "open", Done, got'[4]>>
    BY <1>3 DEF AnswerTo
  <2> QED
    BY <1>2, <1>3, <2>1, <2>2, <2>3
    DEF Bytes!Open, Bytes!AnswerTo, Bytes!Asked, Done, Bytes!Done
<1>4. CASE /\ IF trunc THEN TruncationFails(0) ELSE UNCHANGED <<cells, size>>
           /\ AnswerTo(f, "open", trunc, Error)
           /\ UNCHANGED <<fpos, fsize, mode>>
  <2>1. trunc => size' <= size
    <3>1. size \in Nat
      BY BytesNow, FullNat
    <3> QED
      BY <1>4, <3>1, TruncationSize
  <2>2. ~trunc => Found(0, size)' = Found(0, size)
    BY <1>4, SameBytes
  <2>3. got'[2] = "open" /\ got'[4] = trunc /\ got' = <<f, "open", Error, got'[4]>>
    BY <1>4 DEF AnswerTo
  <2> QED
    BY <1>1, <1>2, <1>4, <2>1, <2>2, <2>3
    DEF Bytes!OpenFails, Bytes!AnswerTo, Bytes!Asked, Error, Bytes!Error
<1> QED
  BY <1>3, <1>4 DEF open

LEMMA CloseIs ==
  ASSUME NEW f \in Fds, close(f)
  PROVE  Bytes!Close(f)
<1>1. Found(0, size)' = Found(0, size)
  BY SameBytes DEF close
<1> QED
  BY <1>1 DEF close, Opened, At, Answer, Done, Bytes!Close, Bytes!Moved, Bytes!Answer, Bytes!Done

LEMMA RefusedIs ==
  ASSUME NEW f \in Fds \ spoiled, Refused(f)
  PROVE  Bytes!Refused(f)
<1>1. Found(0, size)' = Found(0, size)
  BY SameBytes DEF Refused
<1> QED
  BY <1>1 DEF Refused, Answer, Error, Bytes!Refused, Bytes!Usable, Bytes!Answer, Bytes!Error

LEMMA SeekIs ==
  ASSUME IInv, NEW f \in Fds \ spoiled, NEW off \in Int, NEW whence \in {"set", "cur", "end"},
         lseek(f, off, whence)
  PROVE  Bytes!Seek(f) \/ Bytes!Refused(f)
<1>1. f \in Opened \ spoiled /\ fpos[f] \in Nat /\ fsize[f] \in Nat /\ size \in Nat
           /\ InOrder(f) /\ UNCHANGED <<cells, size, mode, spoiled>>
  BY DEF lseek, IInv, Numbers
<1>2. Found(0, size)' = Found(0, size) /\ Bytes!Usable(f)
  BY <1>1, SameBytes DEF Bytes!Usable, Opened
<1>3. \/ Answer(f, "lseek", Error) /\ UNCHANGED <<fpos, fsize>>
      \/ \E q \in 0..fsize[f] : At(f, q, fsize[f]) /\ Answer(f, "lseek", <<q>>)
  <2>1. CASE whence = "set"
    BY <1>1, <2>1 DEF lseek, InOrder
  <2>2. CASE whence = "cur"
    BY <1>1, <2>2 DEF lseek, InOrder, LeftOf
  <2>3. CASE whence = "end"
    BY <1>1, <2>3 DEF lseek, InOrder
  <2> QED
    BY <2>1, <2>2, <2>3
<1>4. CASE Answer(f, "lseek", Error) /\ UNCHANGED <<fpos, fsize>>
  BY <1>1, <1>2, <1>4 DEF Bytes!Refused, Answer, Error, Bytes!Answer, Bytes!Error
<1>5. CASE \E q \in 0..fsize[f] : At(f, q, fsize[f]) /\ Answer(f, "lseek", <<q>>)
  BY <1>1, <1>2, <1>5 DEF Bytes!Seek, Bytes!Moved, At, Answer, Bytes!Answer
<1> QED
  BY <1>3, <1>4, <1>5

\* What a read finds in the file is a piece of its bytes.
LEMMA FoundPiece ==
  ASSUME TypeOK, NEW p \in Nat, NEW k \in Nat, p + k <= size
  PROVE  Found(p, k) = SubSeq(Found(0, size), p + 1, p + k)
<1>1. size \in 0..Full /\ size \in Nat /\ cells \in [Cells -> Contents]
           /\ Found(0, size) = TextOf(cells, size)
           /\ p + k \in 0..size /\ p <= p + k /\ (p + k) - p = k
  BY BytesNow, FullNat
<1>2. SubSeq(Found(0, size), p + 1, p + k) = Piece(cells, size, p, p + k)
  BY <1>1 DEF Piece
<1>3. /\ Piece(cells, size, p, p + k) \in Seq(Contents)
      /\ Len(Piece(cells, size, p, p + k)) = IF p <= p + k THEN (p + k) - p ELSE 0
      /\ \A i \in 1..((p + k) - p) : Piece(cells, size, p, p + k)[i] = cells[p + i - 1]
  BY <1>1, PieceIs
<1>4. ASSUME NEW i \in 1..k PROVE p + i - 1 \in Cells
  <2>1. p + i \in 1..size
    BY <1>1
  <2> QED
    BY <1>1, <2>1, CellOf
<1>5. \A i \in 1..k : Found(p, k)[i] = cells[p + i - 1]
  BY <1>4 DEF Found
<1>6. Found(p, k) \in [1..k -> Contents]
  BY <1>1, <1>4 DEF Found
<1>7. Found(p, k) \in Seq(Contents) /\ Len(Found(p, k)) = k
  BY <1>6, FunctionIsSequence
<1>8. Found(p, k) = Piece(cells, size, p, p + k)
  <2> HIDE DEF Piece
  <2>1. Len(Piece(cells, size, p, p + k)) = k
    BY <1>1, <1>3
  <2>2. \A i \in 1..Len(Found(p, k)) : Found(p, k)[i] = Piece(cells, size, p, p + k)[i]
    BY <1>1, <1>3, <1>5, <1>7
  <2> QED
    BY <1>3, <1>7, <2>1, <2>2, SeqEqual
<1> QED
  BY <1>2, <1>8

LEMMA ReadIs ==
  ASSUME IInv, TypeOK, NEW f \in Fds \ spoiled, NEW n \in Lengths, read(f, n)
  PROVE  Bytes!Read(f) \/ Bytes!ReadFails(f)
<1> DEFINE p == fpos[f]
           k == Min2(n, LeftOf(size, p, n))
<1>1. n \in Nat \ {0} /\ f \in Opened \ spoiled /\ p \in Nat /\ size \in Nat /\ p <= size
  BY SizesAssumption DEF read, IInv, Numbers, InOrder
<1>2. k \in Nat /\ p + k \in p..size /\ (p + k > p \/ p + k = size)
  BY <1>1 DEF Min2, LeftOf
<1>3. Bytes!Usable(f) /\ mode[f] # "w" /\ UNCHANGED mode /\ Found(0, size)' = Found(0, size)
           /\ Len(Found(0, size)) = size
  BY <1>1, BytesNow, SameBytes DEF Bytes!Usable, Opened, read
<1>4. CASE At(f, p + k, size) /\ Answer(f, "read", Found(p, k)) /\ UNCHANGED spoiled
  <2> HIDE DEF k
  <2>1. p + k <= size
    BY <1>1, <1>2
  <2>2. Found(p, k) = SubSeq(Found(0, size), p + 1, p + k)
    BY <1>1, <1>2, <2>1, FoundPiece
  <2> QED
    BY <1>2, <1>3, <1>4, <2>2 DEF Bytes!Read, Bytes!Moved, Bytes!Answer, At, Answer
<1>5. CASE /\ UNCHANGED <<fpos, fsize>> \/ \E q \in p..(p + k) : At(f, q, size)
           /\ Answer(f, "read", Error) /\ Spoils(f)
  <2>1. \E q \in p..size, s \in {fsize[f], size} : At(f, q, s)
    <3>1. CASE UNCHANGED <<fpos, fsize>>
      <4>1. At(f, p, fsize[f]) /\ p \in p..size
        BY <1>1, <3>1 DEF At, IInv, Numbers
      <4> QED
        BY <4>1
    <3>2. CASE \E q \in p..(p + k) : At(f, q, size)
      BY <1>1, <1>2, <3>2
    <3> QED
      BY <1>5, <3>1, <3>2
  <2> QED
    BY <1>3, <1>5, <2>1
    DEF Bytes!ReadFails, Bytes!Moved, Bytes!Answer, Bytes!Fails, Bytes!Error, At, Answer,
        Error, Spoils
<1> QED
  BY <1>4, <1>5 DEF read

Copies(l, v) == [i \in 1..l |-> v]

\* After a write of l bytes at p of a file of s.
Replaced(c, s, d, r, p, l, v) ==
    /\ r = Max2(s, p + l)
    /\ \A i \in Cells : /\ i < p => d[i] = c[i]
                        /\ i >= p /\ i < p + l => d[i] = v
                        /\ i >= p + l /\ i < s => d[i] = c[i]

Spliced(c, s, p, l, v) ==
    Piece(c, s, 0, p) \o Copies(l, v) \o SubSeq(TextOf(c, s), p + l + 1, s)

\* The text after a write of l bytes at p.
LEMMA WrittenText ==
  ASSUME NEW c \in [Cells -> Contents], NEW s \in 0..Full,
         NEW d \in [Cells -> Contents], NEW r \in 0..Full,
         NEW v \in Contents, NEW p \in 0..s, NEW l \in Nat,
         Replaced(c, s, d, r, p, l, v)
  PROVE  TextOf(d, r) = Spliced(c, s, p, l, v)
<1> DEFINE front == Piece(c, s, 0, p)
           data == Copies(l, v)
           back == Piece(c, s, p + l, s)
           both == front \o data
           text == both \o back
<1>0. /\ r = Max2(s, p + l)
      /\ \A i \in Cells : /\ i < p => d[i] = c[i]
                          /\ i >= p /\ i < p + l => d[i] = v
                          /\ i >= p + l /\ i < s => d[i] = c[i]
  BY DEF Replaced
<1>1. s \in Nat /\ p \in Nat /\ p <= s /\ r \in Nat /\ 0 \in Nat /\ 0 <= p /\ p - 0 = p
           /\ p + l \in Nat /\ s \in 0..s
  BY FullNat
<1>2. /\ front \in Seq(Contents) /\ Len(front) = p
      /\ \A i \in 1..p : front[i] = c[i - 1]
  <2>1. /\ front \in Seq(Contents)
        /\ Len(front) = IF 0 <= p THEN p - 0 ELSE 0
        /\ \A i \in 1..(p - 0) : front[i] = c[0 + i - 1]
    BY <1>1, PieceIs
  <2> HIDE DEF front
  <2> QED
    BY <1>1, <2>1
<1>3. data \in Seq(Contents) /\ Len(data) = l /\ \A i \in 1..l : data[i] = v
  <2>1. data \in [1..l -> Contents] /\ \A i \in 1..l : data[i] = v
    BY DEF Copies
  <2> QED
    BY <2>1, FunctionIsSequence
<1>4. /\ back \in Seq(Contents)
      /\ Len(back) = IF p + l <= s THEN s - (p + l) ELSE 0
      /\ \A i \in 1..(s - (p + l)) : back[i] = c[p + l + i - 1]
  <2> DEFINE e == p + l
  <2>1. e \in Nat
    BY <1>1
  <2> HIDE DEF e
  <2>2. /\ Piece(c, s, e, s) \in Seq(Contents)
        /\ Len(Piece(c, s, e, s)) = IF e <= s THEN s - e ELSE 0
        /\ \A i \in 1..(s - e) : Piece(c, s, e, s)[i] = c[e + i - 1]
    <3>1. s \in 0..s
      BY <1>1
    <3> HIDE DEF text, both, front, data, back
    <3> QED
      BY <2>1, <3>1, PieceIs
  <2> QED
    BY <2>2 DEF e
<1> HIDE DEF front, data, back
<1>5. /\ both \in Seq(Contents) /\ Len(both) = Len(front) + Len(data)
      /\ \A i \in 1..(Len(front) + Len(data)) :
            both[i] = IF i <= Len(front) THEN front[i] ELSE data[i - Len(front)]
  BY <1>2, <1>3, ConcatProperties
<1> HIDE DEF both
<1>6. /\ text \in Seq(Contents) /\ Len(text) = Len(both) + Len(back)
      /\ \A i \in 1..(Len(both) + Len(back)) :
            text[i] = IF i <= Len(both) THEN both[i] ELSE back[i - Len(both)]
  <2>1. back \in Seq(Contents) /\ both \in Seq(Contents)
    BY <1>4, <1>5
  <2> QED
    BY <2>1, ConcatProperties
<1> HIDE DEF text
<1>7. Len(both) = p + l /\ Len(text) = r
  BY <1>0, <1>1, <1>2, <1>3, <1>4, <1>5, <1>6 DEF Max2
<1>8. ASSUME NEW i \in 1..r PROVE text[i] = d[i - 1]
  <2>1. i - 1 \in Cells /\ i \in Nat
    BY <1>1, CellOf
  <2>2. i \in 1..(Len(both) + Len(back))
    BY <1>6, <1>7
  <2>3. CASE i <= p
    <3>1. text[i] = both[i] /\ both[i] = front[i] /\ front[i] = c[i - 1]
      BY <1>1, <1>2, <1>3, <1>5, <1>6, <1>7, <2>1, <2>2, <2>3
    <3> QED
      BY <1>0, <1>1, <2>1, <2>3, <3>1
  <2>4. CASE i > p /\ i <= p + l
    <3>1. text[i] = both[i]
      BY <1>1, <1>6, <1>7, <2>1, <2>2, <2>4
    <3>2. both[i] = data[i - p] /\ i - p \in 1..l
      BY <1>1, <1>2, <1>3, <1>5, <2>1, <2>4
    <3>3. data[i - p] = v
      BY <1>3, <3>2
    <3> QED
      BY <1>0, <1>1, <2>1, <2>4, <3>1, <3>2, <3>3
  <2>5. CASE i > p + l
    <3>1. text[i] = back[i - (p + l)]
      BY <1>1, <1>6, <1>7, <2>1, <2>2, <2>5
    <3>2. i <= s /\ i - (p + l) \in 1..(s - (p + l)) /\ p + l + (i - (p + l)) - 1 = i - 1
      BY <1>0, <1>1, <2>1, <2>5 DEF Max2
    <3>3. back[i - (p + l)] = c[i - 1]
      BY <1>4, <3>2
    <3> QED
      BY <1>0, <1>1, <2>1, <2>5, <3>1, <3>2, <3>3
  <2> QED
    BY <1>1, <2>1, <2>3, <2>4, <2>5
<1>9. TextOf(d, r) = text
  BY <1>6, <1>7, <1>8, TextEqual
<1> QED
  BY <1>9 DEF text, both, front, data, back, Piece, Spliced

LEMMA FrontStays ==
  ASSUME TypeOK, TypeOK', NEW p \in Nat, p <= size, p <= size',
         \A i \in Cells : i < p => cells'[i] = cells[i]
  PROVE  SubSeq(Found(0, size)', 1, p) = Front(p)
<1>1. /\ size \in 0..Full /\ cells \in [Cells -> Contents]
      /\ Front(p) = Piece(cells, size, 0, p)
  BY BytesNow
<1>2. /\ size' \in 0..Full /\ cells' \in [Cells -> Contents]
      /\ Found(0, size)' = TextOf(cells', size')
  BY BytesThen
<1>3. SubSeq(Found(0, size)', 1, p) = Piece(cells', size', 0, p)
  <2>1. 0 + 1 = 1
    OBVIOUS
  <2> QED
    BY <1>2, <2>1 DEF Piece
<1>4. Piece(cells', size', 0, p) = Piece(cells, size, 0, p)
  BY <1>1, <1>2, SameBeginning
<1> QED
  BY <1>1, <1>3, <1>4

\* A write that fails or is cut short.
LEMMA ShortWrite ==
  ASSUME TypeOK, TypeOK', NEW f \in Opened \ spoiled, mode[f] \in {"w", "rw"},
         fpos[f] \in Nat, fpos[f] <= size, size' >= size, UNCHANGED mode, Spoils(f),
         \A i \in Cells : i < fpos[f] => cells'[i] = cells[i],
         NEW a, Answer(f, "write", a), NEW q \in Nat, NEW k, q >= fpos[f], At(f, q, k)
  PROVE  Bytes!WriteFails(f)
<1>1. /\ Len(Found(0, size)) = size /\ size \in Nat
      /\ Len(Found(0, size)') = size' /\ size' \in Nat
  BY BytesNow, BytesThen, FullNat
<1>2. SubSeq(Found(0, size)', 1, fpos[f]) = Front(fpos[f])
  BY <1>1, FrontStays
<1>3. fpos'[f] = q /\ fsize'[f] = k
  BY TypeParts DEF At, Bounded, Opened
<1> QED
  BY <1>1, <1>2, <1>3
  DEF Bytes!WriteFails, Bytes!Usable, Bytes!Before, Front, Bytes!Answer, Bytes!Moved,
      Bytes!Fails, At, Answer, Spoils, Opened

LEMMA WriteIs ==
  ASSUME IInv, TypeOK, TypeOK', NEW f \in Fds \ spoiled, NEW n \in Lengths, NEW v \in Data,
         write(f, n, v)
  PROVE  Bytes!Write(f) \/ Bytes!WriteFails(f)
<1> DEFINE l(m) == Counted(f, n, m)
<1>1. PICK m \in 0..Fitting(f, n) :
           /\ cells' = Stored(f, n, v, m, m)
           /\ size' = Max2(size, fpos[f] + l(m))
           /\ At(f, fpos[f] + l(m), size')
           /\ Answer(f, "write", Copies(l(m), v))
           /\ UNCHANGED spoiled \/ Spoils(f)
  BY DEF write, Copies
<1>2. mode[f] \in {"w", "rw"} /\ UNCHANGED mode /\ f \in Opened \ spoiled
  BY DEF write, Opened
<1>3. n \in Nat /\ m \in Nat /\ fpos[f] \in Nat /\ size \in Nat /\ fpos[f] <= size
  BY <1>2, SizesAssumption DEF IInv, Numbers, InOrder
<1>4. l(m) \in Nat
  BY <1>3, CountedNat
<1> HIDE DEF l
<1>5. size' >= size /\ fpos[f] + l(m) \in Nat /\ fpos[f] + l(m) >= fpos[f]
  BY <1>1, <1>3, <1>4 DEF Max2
<1>6. \A i \in Cells :
           /\ i < fpos[f] => cells'[i] = cells[i]
           /\ i >= fpos[f] /\ i < fpos[f] + l(m) => cells'[i] = v
           /\ i >= fpos[f] + l(m) /\ i < size => cells'[i] = cells[i]
  BY <1>1, <1>3, StoredIs DEF l
<1>7. CASE Spoils(f)
  BY <1>1, <1>2, <1>3, <1>5, <1>6, <1>7, ShortWrite
<1>8. CASE UNCHANGED spoiled
  <2>1. /\ size \in 0..Full /\ cells \in [Cells -> Contents]
        /\ Found(0, size) = TextOf(cells, size) /\ Len(Found(0, size)) = size
        /\ Front(fpos[f]) = Piece(cells, size, 0, fpos[f])
    BY BytesNow
  <2>2. /\ size' \in 0..Full /\ cells' \in [Cells -> Contents]
        /\ Found(0, size)' = TextOf(cells', size') /\ Len(Found(0, size)') = size'
    BY BytesThen
  <2>3. v \in Contents /\ fpos[f] \in 0..size
    BY <1>3 DEF Contents
  <2>4. TextOf(cells', size') = Piece(cells, size, 0, fpos[f]) \o Copies(l(m), v)
                                   \o SubSeq(TextOf(cells, size), fpos[f] + l(m) + 1, size)
    <3> DEFINE d == cells'
               r == size'
               p == fpos[f]
               k == l(m)
    <3>1. d \in [Cells -> Contents] /\ r \in 0..Full /\ p \in 0..size /\ k \in Nat
      BY <1>4, <2>2, <2>3
    <3>2. Replaced(cells, size, d, r, p, k, v)
      BY <1>1, <1>6 DEF Replaced
    <3> HIDE DEF d, r, p, k
    <3>3. TextOf(d, r) = Spliced(cells, size, p, k, v)
      BY <2>1, <2>3, <3>1, <3>2, WrittenText
    <3> QED
      BY <3>3 DEF d, r, p, k, Spliced
  <2> DEFINE data == Copies(l(m), v)
  <2>5. Len(data) = l(m)
    <3>1. data \in [1..l(m) -> Contents]
      BY <2>3 DEF Copies
    <3> QED
      BY <1>4, <3>1, FunctionIsSequence
  <2>6. got' = <<f, "write", data>> /\ got'[3] = data
    BY <1>1 DEF Answer
  <2> HIDE DEF data
  <2>7. Found(0, size)' = Front(fpos[f]) \o data
                            \o SubSeq(Found(0, size), fpos[f] + Len(data) + 1, Len(Found(0, size)))
    BY <2>1, <2>2, <2>4, <2>5 DEF data
  <2>8. Bytes!Moved(f, fpos[f] + Len(data), Len(Found(0, size)'))
    BY <1>1, <2>2, <2>5 DEF At, Bytes!Moved
  <2>9. Bytes!Usable(f) /\ mode[f] \in {"w", "rw"} /\ UNCHANGED <<mode, spoiled>>
    BY <1>2, <1>8 DEF Bytes!Usable, Opened
  <2> QED
    BY <2>6, <2>7, <2>8, <2>9 DEF Bytes!Write, Bytes!Answer, Bytes!Before, Front
<1> QED
  BY <1>1, <1>7, <1>8

LEMMA WriteFailsIs ==
  ASSUME IInv, TypeOK, TypeOK', NEW f \in Fds \ spoiled, NEW n \in Lengths, NEW v \in Data,
         WriteFails(f, n, v)
  PROVE  Bytes!WriteFails(f)
<1> DEFINE free == Fitting(f, n)
           h == HeadOf(fpos[f], n)
           Short == /\ \E a : Answer(f, "write", a)
                    /\ \E q, k \in Nat : q >= fpos[f] /\ At(f, q, k)
                    /\ size' >= size
                    /\ \A i \in Cells : i < fpos[f] => cells'[i] = cells[i]
<1>1. mode[f] \in {"w", "rw"} /\ UNCHANGED mode /\ f \in Opened \ spoiled /\ Spoils(f)
  BY DEF WriteFails, Opened
<1>2. n \in Nat /\ fpos[f] \in Nat /\ fsize[f] \in Nat /\ size \in Nat /\ fpos[f] <= size
  BY <1>1, SizesAssumption DEF IInv, Numbers, InOrder
<1>3. free \in Nat
  BY <1>2, FittingNat
<1>4. ASSUME NEW m \in Nat
      PROVE  fpos[f] + Counted(f, n, m) \in Nat /\ fpos[f] + Counted(f, n, m) >= fpos[f]
  <2>1. Counted(f, n, m) \in Nat
    BY <1>2, CountedNat
  <2> QED
    BY <1>2, <2>1
<1>5. ASSUME NEW w \in Nat, NEW g \in Nat
      PROVE  \A i \in Cells : i < fpos[f] => Stored(f, n, v, w, g)[i] = cells[i]
  BY <1>2, StoredIs
<1>10. SUFFICES Short
  <2> SUFFICES ASSUME Short PROVE Bytes!WriteFails(f)
    OBVIOUS
  <2>1. PICK a : Answer(f, "write", a)
    OBVIOUS
  <2>2. PICK q, k \in Nat : q >= fpos[f] /\ At(f, q, k)
    OBVIOUS
  <2>3. size' >= size /\ \A i \in Cells : i < fpos[f] => cells'[i] = cells[i]
    OBVIOUS
  <2> HIDE DEF Short
  <2> QED
    BY <1>1, <1>2, <2>1, <2>2, <2>3, ShortWrite
<1>6. CASE Answer(f, "write", Error) /\ UNCHANGED <<cells, size, fpos, fsize>>
  <2>1. At(f, fpos[f], fsize[f])
    BY <1>6 DEF At, IInv, Numbers
  <2> QED
    BY <1>2, <1>6, <2>1
<1>7. CASE /\ cells' \in {cells, Put(cells, fpos[f], h, v)}
           /\ At(f, fpos[f], size)
           /\ Answer(f, "write", <<>>)
           /\ UNCHANGED size
  <2>1. \A i \in Cells : i < fpos[f] => Put(cells, fpos[f], h, v)[i] = cells[i]
    BY <1>2 DEF Put, Cells
  <2> QED
    BY <1>2, <1>7, <2>1
<1>8. ASSUME NEW m \in 0..(free - 1), NEW g \in 0..free, NEW w \in m..g,
             cells' = Stored(f, n, v, w, g), size' = Appended(f, g),
             At(f, fpos[f] + Counted(f, n, m), size),
             Answer(f, "write", [i \in 1..Counted(f, n, m) |-> v])
      PROVE  Short
  <2>1. m \in Nat /\ g \in Nat /\ w \in Nat
    BY <1>3
  <2>2. \A i \in Cells : i < fpos[f] => cells'[i] = cells[i]
    BY <1>5, <1>8, <2>1
  <2>3. size' >= size
    BY <1>8, <2>1, AppendedGrows DEF IInv
  <2>4. \E q, k \in Nat : q >= fpos[f] /\ At(f, q, k)
    BY <1>2, <1>4, <1>8, <2>1
  <2> QED
    BY <1>8, <2>2, <2>3, <2>4
<1>9. ASSUME cells' = Stored(f, n, v, free, free),
             size' \in {size, Max2(size, fpos[f] + Counted(f, n, free))},
             At(f, fpos[f] + Counted(f, n, free), Max2(size, fpos[f] + Counted(f, n, free))),
             Answer(f, "write", Error)
      PROVE  Short
  <2>1. \A i \in Cells : i < fpos[f] => cells'[i] = cells[i]
    BY <1>3, <1>5, <1>9
  <2>2. fpos[f] + Counted(f, n, free) \in Nat /\ fpos[f] + Counted(f, n, free) >= fpos[f]
    BY <1>3, <1>4
  <2>3. size' >= size /\ Max2(size, fpos[f] + Counted(f, n, free)) \in Nat
    BY <1>2, <1>9, <2>2 DEF Max2
  <2>4. \E q, k \in Nat : q >= fpos[f] /\ At(f, q, k)
    BY <1>9, <2>2, <2>3
  <2> QED
    BY <1>9, <2>1, <2>3, <2>4
<1> HIDE DEF Short
<1> QED
  BY <1>6, <1>7, <1>8, <1>9 DEF WriteFails

\* A block that is released or lost does not reach the shorter text.
LEMMA ShrunkIs ==
  ASSUME NEW s \in Nat, NEW i \in Cells, i < s
  PROVE  Shrunk(s)[i] = cells[i]
<1>1. i \in Nat /\ s <= Blocks(s) * Block /\ Blocks(s) * Block \in Int
  <2>1. Blocks(s) \in Nat /\ s <= Blocks(s) * Block
    BY BlocksOf
  <2> QED
    BY <2>1, TimesNat DEF Cells
<1>2. ~(i \in (Blocks(s) * Block)..(Blocks(s) * Block + (Blocks(size) - Blocks(s)) * Block - 1))
  BY <1>1
<1> QED
  BY <1>2 DEF Shrunk, Wiped, Put

\* Nor does one that fails reach what is in front of the length asked for.
LEMMA TruncationIs ==
  ASSUME size \in Nat, NEW n \in 0..size, TruncationFails(n), NEW i \in Cells, i < n
  PROVE  cells'[i] = cells[i]
<1>1. PICK r \in n..size : \E b, e \in Blocks(n)..Blocks(r) : cells' = Wiped(Shrunk(r), b, e)
  BY DEF TruncationFails, Reached
<1>2. PICK b, e \in Blocks(n)..Blocks(r) : cells' = Wiped(Shrunk(r), b, e)
  BY <1>1
<1>3. /\ n \in Nat /\ r \in Nat /\ n <= r /\ i \in Int
      /\ Blocks(n) \in Nat /\ Blocks(r) \in Nat /\ b \in Nat /\ e \in Nat /\ Blocks(n) <= b
  BY BlocksNat DEF Cells
<1>4. Shrunk(r)[i] = cells[i]
  BY <1>3, ShrunkIs
<1>5. n <= b * Block /\ b * Block \in Nat
  <2>1. n <= Blocks(n) * Block
    BY <1>3, BlocksOf
  <2>2. Blocks(n) * Block <= b * Block
    BY <1>3, Multiples
  <2> QED
    BY <1>3, <2>1, <2>2, TimesNat
<1>6. ~(i \in (b * Block)..(b * Block + (e - b) * Block - 1))
  BY <1>3, <1>5
<1> QED
  BY <1>2, <1>4, <1>6 DEF Wiped, Put

LEMMA TruncateIs ==
  ASSUME IInv, TypeOK, TypeOK', NEW f \in Fds \ spoiled, NEW n \in Nat, ftruncate(f, n)
  PROVE  Bytes!Truncate(f) \/ Bytes!TruncateFails(f)
<1> DEFINE s == Min2(n, size)
<1>1. f \in Opened \ spoiled /\ fpos[f] \in Nat /\ size \in Nat /\ fpos[f] <= size
           /\ s \in 0..size /\ s \in Nat /\ UNCHANGED mode /\ Bytes!Usable(f)
  BY DEF ftruncate, IInv, Numbers, InOrder, Min2, Opened, Bytes!Usable
<1>2. /\ size \in 0..Full /\ cells \in [Cells -> Contents]
      /\ Len(Found(0, size)) = size
      /\ \A p : Front(p) = Piece(cells, size, 0, p)
  BY BytesNow
<1>3. /\ size' \in 0..Full /\ cells' \in [Cells -> Contents]
      /\ Found(0, size)' = TextOf(cells', size')
      /\ Len(Found(0, size)') = size'
  BY BytesThen
<1>6. s = IF n < Len(Found(0, size)) THEN n ELSE Len(Found(0, size))
  BY <1>1, <1>2 DEF Min2
<1>4. CASE /\ cells' = Shrunk(s)
           /\ size' = s
           /\ At(f, IF s < size THEN Min2(fpos[f], s) ELSE fpos[f], s)
           /\ AnswerTo(f, "ftruncate", n, Done)
           /\ UNCHANGED spoiled
  <2>1. \A i \in Cells : i < s => cells'[i] = cells[i]
    BY <1>1, <1>4, ShrunkIs
  <2>2. TextOf(cells', s) = Piece(cells, size, 0, s)
    BY <1>1, <1>2, <1>3, <2>1, Shorter
  <2>3. Found(0, size)' = Front(s)
    BY <1>2, <1>3, <1>4, <2>2
  <2>4. Bytes!Moved(f, IF s < fpos[f] THEN s ELSE fpos[f], s)
    <3>1. (IF s < size THEN Min2(fpos[f], s) ELSE fpos[f]) = (IF s < fpos[f] THEN s ELSE fpos[f])
      BY <1>1 DEF Min2
    <3> QED
      BY <1>4, <3>1 DEF At, Bytes!Moved
  <2>5. got'[2] = "ftruncate" /\ got'[4] = n /\ got' = <<f, "ftruncate", Done, got'[4]>>
    BY <1>4 DEF AnswerTo
  <2> HIDE DEF s
  <2> QED
    BY <1>1, <1>4, <1>6, <2>3, <2>4, <2>5
    DEF Bytes!Truncate, Bytes!Before, Bytes!AnswerTo, Bytes!Asked, Bytes!Done, Front, Done
<1>5. CASE /\ TruncationFails(s)
           /\ \E k \in {fsize[f], size} : At(f, fpos[f], k)
           /\ AnswerTo(f, "ftruncate", n, Error)
           /\ Spoils(f)
  <2>1. size' \in s..size
    BY <1>1, <1>5, TruncationSize
  <2>2. \A i \in Cells : i < s => cells'[i] = cells[i]
    BY <1>1, <1>5, TruncationIs
  <2>3. SubSeq(Found(0, size)', 1, s) = Front(s)
    <3> HIDE DEF s
    <3> QED
      BY <1>1, <2>1, <2>2, FrontStays
  <2>4. got'[2] = "ftruncate" /\ got'[4] = n /\ got' = <<f, "ftruncate", Error, got'[4]>>
    BY <1>5 DEF AnswerTo
  <2>5. \E k \in {fsize[f], Len(Found(0, size))} : Bytes!Moved(f, fpos[f], k)
    BY <1>2, <1>5 DEF At, Bytes!Moved
  <2> HIDE DEF s
  <2> QED
    BY <1>1, <1>2, <1>3, <1>5, <1>6, <2>1, <2>3, <2>4, <2>5
    DEF Bytes!TruncateFails, Bytes!Before, Bytes!AnswerTo, Bytes!Asked, Bytes!Error, Bytes!Fails,
        Error, Spoils, Front
<1> QED
  BY <1>4, <1>5 DEF ftruncate

LEMMA NextImplements ==
  ASSUME IInv, TypeOK, TypeOK', [CarefulNext]_vars
  PROVE  [Bytes!Next]_(Bytes!file)
<1>1. CASE UNCHANGED vars
  <2>1. Found(0, size)' = Found(0, size)
    BY <1>1, SameBytes DEF vars
  <2> QED
    BY <1>1, <2>1 DEF vars, Bytes!file
<1>2. CASE CarefulNext
  <2>1. PICK f \in Fds :
          \/ \E m \in {"r", "w", "rw"}, trunc, append \in BOOLEAN : open(f, m, trunc, append)
          \/ close(f)
          \/ \E n \in Lengths : read(f, n)
          \/ Refused(f)
          \/ \E n \in Lengths, v \in Data : write(f, n, v) \/ WriteFails(f, n, v)
          \/ \E off \in -Cardinality(Cells)..Cardinality(Cells), whence \in {"set", "cur", "end"} :
                lseek(f, off, whence)
          \/ \E n \in 0..Cardinality(Cells) : ftruncate(f, n)
    BY <1>2 DEF CarefulNext, Next
  <2>2. got'[1] \in spoiled => got'[2] = "close"
    BY <1>2 DEF CarefulNext
  <2> SUFFICES \/ Bytes!Open(f) \/ Bytes!OpenFails(f) \/ Bytes!Close(f) \/ Bytes!Refused(f)
               \/ Bytes!Read(f) \/ Bytes!ReadFails(f) \/ Bytes!Write(f) \/ Bytes!WriteFails(f)
               \/ Bytes!Seek(f) \/ Bytes!Truncate(f) \/ Bytes!TruncateFails(f)
    BY DEF Bytes!Next
  <2>3. CASE \E m \in {"r", "w", "rw"}, trunc, append \in BOOLEAN : open(f, m, trunc, append)
    BY <2>3, OpenIs
  <2>4. CASE close(f)
    BY <2>4, CloseIs
  <2>5. CASE \E n \in Lengths : read(f, n)
    <3>1. f \notin spoiled
      BY <2>2, <2>5 DEF read, Answer
    <3> QED
      BY <3>1, <2>5, ReadIs
  <2>6. CASE Refused(f)
    <3>1. f \notin spoiled
      BY <2>2, <2>6 DEF Refused, Answer
    <3> QED
      BY <3>1, <2>6, RefusedIs
  <2>7. CASE \E n \in Lengths, v \in Data : write(f, n, v) \/ WriteFails(f, n, v)
    <3>1. PICK n \in Lengths, v \in Data : write(f, n, v) \/ WriteFails(f, n, v)
      BY <2>7
    <3>2. f \notin spoiled
      BY <2>2, <3>1 DEF write, WriteFails, Answer
    <3>3. CASE write(f, n, v)
      BY <3>2, <3>3, WriteIs
    <3>4. CASE WriteFails(f, n, v)
      BY <3>2, <3>4, WriteFailsIs
    <3> QED
      BY <3>1, <3>3, <3>4
  <2>8. CASE \E off \in -Cardinality(Cells)..Cardinality(Cells), whence \in {"set", "cur", "end"} :
                lseek(f, off, whence)
    <3>1. PICK off \in -Cardinality(Cells)..Cardinality(Cells), whence \in {"set", "cur", "end"} :
             lseek(f, off, whence)
      BY <2>8
    <3>2. f \notin spoiled
      BY <2>2, <3>1 DEF lseek, Answer
    <3> QED
      BY <3>1, <3>2, SeekIs
  <2>9. CASE \E n \in 0..Cardinality(Cells) : ftruncate(f, n)
    <3>1. PICK n \in 0..Cardinality(Cells) : ftruncate(f, n)
      BY <2>9
    <3>2. f \notin spoiled
      BY <2>2, <3>1 DEF ftruncate, AnswerTo
    <3> QED
      BY <3>1, <3>2, TruncateIs
  <2> QED
    BY <2>1, <2>3, <2>4, <2>5, <2>6, <2>7, <2>8, <2>9
<1> QED
  BY <1>1, <1>2

\* In a careful program the file is what FileBytes says it is, for any number of
\* descriptors, any sizes and any failures of the device: however a write is cut
\* into the head of a block, blocks that are written over and blocks that are
\* appended, the bytes it answers for are those that stand behind the position
\* it began at, and no others changed; a read answers with the bytes at its
\* position; a write that fails in the middle harms nothing in front of the
\* position, and a truncation that fails between two of its chunks or in one of
\* them leaves at least the length asked for and harms nothing in front of it.
THEOREM FileBytesAreImplemented == CarefulSpec => ImplementsFileBytes
<1>1. Init => Bytes!Init
  <2> SUFFICES ASSUME Init PROVE Bytes!Init
    OBVIOUS
  <2>1. Found(0, size) = TextOf(cells, 0)
    BY FoundIs DEF Init
  <2> QED
    BY <2>1, EmptyText DEF Init, Bytes!Init
<1>2. IInv /\ TypeOK /\ (IInv /\ TypeOK)' /\ [CarefulNext]_vars => [Bytes!Next]_(Bytes!file)
  BY NextImplements
<1>3. Init => IInv /\ TypeOK
  BY InitIInv, InitTypes
<1>4. IInv /\ TypeOK /\ [CarefulNext]_vars => (IInv /\ TypeOK)'
  BY NextIInv, NextTypes
<1> QED
  BY <1>1, <1>2, <1>3, <1>4, PTL DEF CarefulSpec, ImplementsFileBytes, Bytes!Spec

=============================================================================
