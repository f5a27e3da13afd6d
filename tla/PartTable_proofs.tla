-------------------------- MODULE PartTable_proofs ---------------------------
(***************************************************************************)
(* Theorems about PartTable, for any device, any modulus of the numbers of *)
(* the table and of the program, and any foreign entries: every variable   *)
(* keeps its type, two partitions of a disk never share a number, a dense  *)
(* table resolves, and what was written is listed exactly if it is inside  *)
(* the device and its numbers fit the table.                               *)
(*                                                                         *)
(* The list of partitions is that of some table, not of the one that is on *)
(* the device now: IInv keeps that much, and the lemmas about Fetched say  *)
(* the rest of any table.                                                  *)
(***************************************************************************)
EXTENDS PartTable, FiniteSetTheorems, FunctionTheorems, TLAPS

Mbr == [lo : BOOLEAN, hi : BOOLEAN, slot : [Slot -> Entry]]

IInv ==
    /\ mbr \in Mbr
    /\ registered \in BOOLEAN
    /\ partitions = << >> \/ \E m \in Mbr : partitions = Fetched(m)
    /\ last.err \in {"OK", "EINVAL", "ENOENT", "EIO", "ENXIO"}

-----------------------------------------------------------------------------
(* Counting.                                                               *)

\* The place of an element in a set of numbers, from 1.
Rank(S, s) == Cardinality({r \in S : r <= s})

\* The elements of a finite set of numbers have the places from 1 to its size, in
\* their order.
LEMMA Ranks ==
    ASSUME NEW S \in SUBSET Int, IsFiniteSet(S)
    PROVE  /\ Cardinality(S) \in Nat
           /\ \A s \in S : Rank(S, s) \in 1 .. Cardinality(S)
           /\ \A s, t \in S : s < t => Rank(S, s) < Rank(S, t)
           /\ \A i \in 1 .. Cardinality(S) : \E s \in S : Rank(S, s) = i
<1>1. Cardinality(S) \in Nat
  BY FS_CardinalityType
<1>2. ASSUME NEW s \in S
      PROVE  Rank(S, s) \in 1 .. Cardinality(S)
  <2> DEFINE below == {r \in S : r <= s}
  <2>1. IsFiniteSet(below) /\ Cardinality(below) <= Cardinality(S) /\ Cardinality(below) \in Nat
    BY FS_Subset, FS_CardinalityType
  <2>2. below # {}
    OBVIOUS
  <2>3. Cardinality(below) # 0
    BY <2>1, <2>2, FS_EmptySet
  <2> HIDE DEF below
  <2>4. Cardinality(below) \in 1 .. Cardinality(S)
    BY <1>1, <2>1, <2>3
  <2> QED BY <2>4 DEF Rank, below
<1>3. ASSUME NEW s \in S, NEW t \in S, s < t
      PROVE  Rank(S, s) < Rank(S, t)
  <2> DEFINE low == {r \in S : r <= s}
             high == {r \in S : r <= t}
  <2>1. IsFiniteSet(high) /\ low \in SUBSET high
    <3>1. low \in SUBSET high
      <4>1. \A r \in S : r \in Int /\ (r <= s => r <= t)
        BY <1>3
      <4> QED BY <4>1
    <3>2. high \in SUBSET S
      OBVIOUS
    <3> QED BY <3>1, <3>2, FS_Subset
  <2>2. t \in high /\ t \notin low
    BY <1>3
  <2> HIDE DEF low, high
  <2>3. /\ Cardinality(low) <= Cardinality(high) /\ Cardinality(low) # Cardinality(high)
        /\ Cardinality(low) \in Nat /\ Cardinality(high) \in Nat
    BY <2>1, <2>2, FS_Subset, FS_CardinalityType
  <2>4. Cardinality(low) < Cardinality(high)
    BY <2>3
  <2> QED BY <2>4 DEF Rank, low, high
<1>4. \A i \in 1 .. Cardinality(S) : \E s \in S : Rank(S, s) = i
  <2> DEFINE f == [s \in S |-> Rank(S, s)]
             T == 1 .. Cardinality(S)
  <2>1. f \in [S -> T]
    BY <1>2
  <2>2. \A s, t \in S : f[s] = f[t] => s = t
    <3>1. \A s, t \in S : f[s] \in Int /\ f[s] = Rank(S, s)
      BY <1>2
    <3> HIDE DEF f
    <3>2. \A s, t \in S : s < t => f[s] # f[t]
      BY <1>3, <3>1
    <3> QED BY <3>2
  <2>3. f \in Injection(S, T)
    BY <2>1, <2>2, Fun_IsInj
  <2>4. IsFiniteSet(T) /\ Cardinality(T) = Cardinality(S)
    BY <1>1, FS_Interval
  <2>5. f \in Surjection(S, T)
    BY <2>3, <2>4, FS_Injection
  <2>6. \A i \in T : \E s \in S : f[s] = i
    <3> HIDE DEF f, T
    <3> QED BY <2>5, Fun_SurjectionProperties
  <2> QED BY <2>6
<1> QED BY <1>1, <1>2, <1>3, <1>4

\* The slots are finitely many numbers.
LEMMA SlotsFinite ==
    ASSUME NEW S \in SUBSET Slot
    PROVE  /\ IsFiniteSet(S) /\ Cardinality(S) \in 0 .. 4
           /\ S \in SUBSET Int
<1>1. IsFiniteSet(Slot) /\ Cardinality(Slot) = 4
  <2> DEFINE first == 0
             final == 3
  <2>1. first \in Int /\ final \in Int
    OBVIOUS
  <2> HIDE DEF first, final
  <2>2. /\ IsFiniteSet(first .. final)
        /\ Cardinality(first .. final) = IF first > final THEN 0 ELSE final - first + 1
    BY <2>1, FS_Interval
  <2> QED BY <2>2 DEF Slot, first, final
<1>2. IsFiniteSet(S) /\ Cardinality(S) <= 4 /\ Cardinality(S) \in Nat
  BY <1>1, FS_Subset, FS_CardinalityType
<1> QED BY <1>2 DEF Slot

-----------------------------------------------------------------------------
(* What fetch_partitions lists of any table.                               *)

\* The numbers grow with the slots: every listed slot is counted.
LEMMA NumbersGrow ==
    ASSUME NEW m \in Mbr
    PROVE  /\ \A s \in Slot : Number(m, s) \in Nat /\ Number(m, s) <= s
           /\ \A s, t \in Listed(m) : s < t => Number(m, s) < Number(m, t)
<1> DEFINE Below(s) == {r \in Counted(m) : r < s}
<1>1. \A s \in Slot : Below(s) \in SUBSET Slot
  BY DEF Counted
<1>2. ASSUME NEW s \in Slot PROVE Number(m, s) \in Nat /\ Number(m, s) <= s
  <2>1. Below(s) \subseteq 0 .. s - 1
    BY <1>1 DEF Slot
  <2>2. \A a, b \in Int : IsFiniteSet(a .. b) /\ Cardinality(a .. b) = IF a > b THEN 0 ELSE b - a + 1
    BY FS_Interval
  <2>3. IsFiniteSet(0 .. s - 1) /\ Cardinality(0 .. s - 1) = s
    BY <2>2 DEF Slot
  <2>4. Cardinality(Below(s)) <= s /\ Cardinality(Below(s)) \in Nat
    BY <2>1, <2>3, FS_Subset, FS_CardinalityType
  <2> QED BY <2>4 DEF Number
<1>3. ASSUME NEW s \in Listed(m), NEW t \in Listed(m), s < t
      PROVE  Number(m, s) < Number(m, t)
  <2>1. s \in Counted(m) /\ s \in Slot /\ t \in Slot
    BY DEF Listed, Counted
  <2>2. s \in Below(t) /\ s \notin Below(s)
    BY <1>3, <2>1 DEF Slot
  <2>3. \A r \in Slot : r < s => r < t
    BY <1>3, <2>1 DEF Slot
  <2>4. Below(s) \in SUBSET Below(t) /\ Below(t) \in SUBSET Slot /\ Below(s) \in SUBSET Slot
    BY <1>1, <2>1, <2>3
  <2> HIDE DEF Below
  <2>5. IsFiniteSet(Below(t)) /\ Cardinality(Below(s)) \in Nat /\ Cardinality(Below(t)) \in Nat
    BY <2>4, SlotsFinite
  <2>6. Cardinality(Below(s)) <= Cardinality(Below(t)) /\ Cardinality(Below(s)) # Cardinality(Below(t))
    BY <2>2, <2>4, <2>5, FS_Subset
  <2>7. Cardinality(Below(s)) < Cardinality(Below(t))
    BY <2>5, <2>6
  <2> QED BY <2>7 DEF Number, Below
<1> QED BY <1>2, <1>3

\* The list has one partition for each listed slot, in the order of the slots, with
\* the number that the slot has and the entry as it is in the table.
LEMMA FetchedList ==
    ASSUME NEW m \in Mbr
    PROVE  /\ Fetched(m) \in Seq(Partition) /\ Len(Fetched(m)) = Cardinality(Listed(m))
           /\ Len(Fetched(m)) \in 0 .. 4
           /\ DOMAIN Fetched(m) = 1 .. Len(Fetched(m))
           /\ \A i \in DOMAIN Fetched(m) :
                LET p == Fetched(m)[i]
                IN  /\ p.slot \in Listed(m) /\ Rank(Listed(m), p.slot) = i
                    /\ p.nr = Number(m, p.slot) /\ p.type = m.slot[p.slot].type
                    /\ p.start = m.slot[p.slot].start /\ p.num = m.slot[p.slot].num
           /\ \A s \in Listed(m) : \E i \in DOMAIN Fetched(m) : Fetched(m)[i].slot = s
<1> DEFINE L == Listed(m)
           n == Cardinality(L)
           at(i) == CHOOSE s \in L : Rank(L, s) = i
           part(s) == [nr |-> Number(m, s), type |-> m.slot[s].type,
                       start |-> m.slot[s].start, num |-> m.slot[s].num, slot |-> s]
           f == [i \in 1 .. n |-> part(at(i))]
<1>1. Fetched(m) = f
  BY DEF Fetched, Rank
<1>2. L \in SUBSET Slot
  BY DEF Listed, Counted
<1>3. IsFiniteSet(L) /\ n \in 0 .. 4 /\ L \in SUBSET Int
  BY <1>2, SlotsFinite
<1> HIDE DEF L
<1>4. /\ \A s \in L : Rank(L, s) \in 1 .. n
      /\ \A s, t \in L : s < t => Rank(L, s) < Rank(L, t)
      /\ \A i \in 1 .. n : \E s \in L : Rank(L, s) = i
  BY <1>3, Ranks
<1>5. \A i \in 1 .. n : at(i) \in L /\ Rank(L, at(i)) = i
  BY <1>4
<1> HIDE DEF at
<1>6. ASSUME NEW s \in L PROVE part(s) \in Partition
  <2>1. m.slot[s] \in Entry /\ s \in Slot
    BY <1>2 DEF Mbr
  <2>2. Number(m, s) \in Slot
    BY <2>1, NumbersGrow DEF Slot
  <2> QED BY <2>1, <2>2 DEF Partition, Entry
<1>7. /\ f \in [1 .. n -> Partition] /\ DOMAIN f = 1 .. n
      /\ \A i \in 1 .. n : f[i] = part(at(i))
  BY <1>5, <1>6
<1>8. f \in Seq(Partition) /\ Len(f) = n
  BY <1>3, <1>7
<1>9. \A i \in 1 .. n :
        /\ f[i].slot \in L /\ Rank(L, f[i].slot) = i
        /\ f[i].nr = Number(m, f[i].slot) /\ f[i].type = m.slot[f[i].slot].type
        /\ f[i].start = m.slot[f[i].slot].start /\ f[i].num = m.slot[f[i].slot].num
  BY <1>5, <1>7
<1>10. \A s \in L : \E i \in 1 .. n : f[i].slot = s
  <2>1. SUFFICES ASSUME NEW s \in L PROVE f[Rank(L, s)].slot = s
    BY <1>4
  <2>2. Rank(L, s) \in 1 .. n
    BY <1>4
  <2>3. at(Rank(L, s)) \in L /\ Rank(L, at(Rank(L, s))) = Rank(L, s)
    BY <1>5, <2>2
  <2>4. at(Rank(L, s)) = s
    <3> DEFINE t == at(Rank(L, s))
    <3> HIDE DEF n
    <3>1. t \in L /\ Rank(L, t) = Rank(L, s) /\ Rank(L, s) \in Int
      BY <1>3, <2>2, <2>3
    <3> HIDE DEF t
    <3>2. t \in Int /\ s \in Int
      BY <1>3, <3>1
    <3>3. ~(t < s) /\ ~(s < t)
      BY <1>4, <3>1, <3>2
    <3>4. t = s
      BY <3>2, <3>3
    <3> QED BY <3>4 DEF t
  <2> QED BY <1>7, <2>2, <2>4
<1> HIDE DEF f
<1> QED BY <1>1, <1>3, <1>7, <1>8, <1>9, <1>10 DEF L

\* A list of partitions that is that of some table.
Lists == {<< >>} \cup {Fetched(m) : m \in Mbr}

\* What TypeOK and the two properties say of a list.
LEMMA ListsAreSound ==
    ASSUME NEW P \in Lists
    PROVE  /\ Len(P) \in 0 .. 4 /\ \A i \in DOMAIN P : P[i] \in Partition
           /\ \A i, j \in DOMAIN P : P[i].nr = P[j].nr => i = j
           /\ (\A i \in DOMAIN P : P[i].slot = i - 1) =>
                \A i \in DOMAIN P : P[i].nr = P[i].slot /\ Borrowed(P, P[i].nr) = {P[i]}
<1>1. CASE P = << >>
  BY <1>1
<1>2. ASSUME NEW m \in Mbr, P = Fetched(m)
      PROVE  /\ Len(P) \in 0 .. 4 /\ \A i \in DOMAIN P : P[i] \in Partition
             /\ \A i, j \in DOMAIN P : P[i].nr = P[j].nr => i = j
             /\ (\A i \in DOMAIN P : P[i].slot = i - 1) =>
                  \A i \in DOMAIN P : P[i].nr = P[i].slot /\ Borrowed(P, P[i].nr) = {P[i]}
  <2>1. /\ P \in Seq(Partition) /\ Len(P) = Cardinality(Listed(m)) /\ Len(P) \in 0 .. 4
        /\ DOMAIN P = 1 .. Len(P)
        /\ \A i \in DOMAIN P : /\ P[i].slot \in Listed(m) /\ Rank(Listed(m), P[i].slot) = i
                               /\ P[i].nr = Number(m, P[i].slot)
        /\ \A s \in Listed(m) : \E i \in DOMAIN P : P[i].slot = s
    BY <1>2, FetchedList
  <2>2. Listed(m) \subseteq Counted(m) /\ Counted(m) \subseteq Slot /\ Slot \subseteq Int
    BY DEF Listed, Counted, Slot
  <2>3. ASSUME NEW i \in DOMAIN P, NEW j \in DOMAIN P, P[i].nr = P[j].nr
        PROVE  i = j
    <3> DEFINE s == P[i].slot
               t == P[j].slot
    <3>1. /\ s \in Listed(m) /\ t \in Listed(m) /\ s \in Slot /\ t \in Slot
          /\ s \in Int /\ t \in Int
      BY <2>1, <2>2
    <3>2. Number(m, s) = Number(m, t) /\ Number(m, s) \in Int
      <4>1. P[i].nr = Number(m, s) /\ P[j].nr = Number(m, t)
        BY <2>1
      <4>2. Number(m, s) = Number(m, t)
        BY <2>3, <4>1
      <4> HIDE DEF s, t
      <4>3. Number(m, s) \in Nat
        BY <3>1, NumbersGrow
      <4> QED BY <4>2, <4>3
    <3>3. Rank(Listed(m), s) = i /\ Rank(Listed(m), t) = j
      BY <2>1
    <3> HIDE DEF s, t
    <3>4. ~(s < t) /\ ~(t < s)
      BY <3>1, <3>2, NumbersGrow
    <3>5. s = t
      BY <3>1, <3>4
    <3> QED BY <3>3, <3>5
  <2>4. ASSUME \A i \in DOMAIN P : P[i].slot = i - 1, NEW i \in DOMAIN P
        PROVE  P[i].nr = P[i].slot /\ Borrowed(P, P[i].nr) = {P[i]}
    <3>1. i \in Int /\ 1 <= i /\ i <= Len(P) /\ Len(P) \in Nat /\ i - 1 \in Slot
      BY <2>1, <2>2, <2>4
    <3>2. {r \in Counted(m) : r < i - 1} = 0 .. i - 2
      <4>1. ASSUME NEW r \in 0 .. i - 2 PROVE r \in Counted(m) /\ r < i - 1
        <5>1. r + 1 \in DOMAIN P /\ r + 1 - 1 = r
          BY <2>1, <3>1
        <5>2. P[r + 1].slot = r
          BY <2>4, <5>1
        <5> QED BY <2>1, <2>2, <3>1, <5>1, <5>2
      <4>2. ASSUME NEW r \in Counted(m), r < i - 1 PROVE r \in 0 .. i - 2
        BY <2>2, <3>1, <4>2 DEF Slot
      <4> QED BY <4>1, <4>2
    <3>3. Cardinality(0 .. i - 2) = i - 1
      <4>1. \A a, b \in Int : Cardinality(a .. b) = IF a > b THEN 0 ELSE b - a + 1
        BY FS_Interval
      <4>2. 0 \in Int /\ i - 2 \in Int
        BY <3>1
      <4>3. Cardinality(0 .. i - 2) = IF 0 > i - 2 THEN 0 ELSE (i - 2) - 0 + 1
        BY <4>1, <4>2
      <4> QED BY <3>1, <4>3
    <3>4. P[i].nr = i - 1
      BY <2>1, <2>4, <3>2, <3>3 DEF Number
    <3> QED BY <2>4, <3>1, <3>4 DEF Borrowed
  <2>5. Len(P) \in 0 .. 4 /\ \A i \in DOMAIN P : P[i] \in Partition
    BY <2>1
  <2> QED BY <2>3, <2>4, <2>5
<1> QED BY <1>1, <1>2 DEF Lists

-----------------------------------------------------------------------------
(* What the writers leave in the table.                                    *)

\* A number as it is stored, and what the unsigned subtraction tests of it.
LEMMA StoredEntry ==
    ASSUME NEW conf \in Conf
    PROVE  /\ Stored(conf) \in Entry /\ conf.nr \in Slot
           /\ conf.start \in Nat /\ conf.num \in Nat
           /\ Stored(conf).start = conf.start <=> conf.start < Word
           /\ Stored(conf).num = conf.num <=> conf.num < Word
           /\ Accepts(conf) =>
                /\ conf.num # 0
                /\ conf.start + conf.num <= SectorCount <=> conf.start < SectorCount
<1>1. /\ conf.nr \in Slot /\ conf.type \in Type
      /\ conf.start \in 0 .. Size - 1 /\ conf.num \in 0 .. Size - 1
  BY PartTableAssumption
<1>2. /\ Word \in Nat /\ Word > 0 /\ Size \in Nat /\ SectorCount \in Nat
      /\ SectorCount < Size /\ Word <= Size
  BY PartTableAssumption
<1>3. \A x \in Nat : x % Word \in 0 .. Word - 1 /\ (x < Word => x % Word = x)
  BY <1>2
<1>4. \A x \in Nat : x < Size => x % Size = x
  BY <1>2
<1>5. conf.start \in Nat /\ conf.num \in Nat
  BY <1>1, <1>2
<1>6. Stored(conf) \in Entry
  BY <1>1, <1>3, <1>5 DEF Stored, Entry
<1>7. \A x \in Nat : x % Word = x <=> x < Word
  BY <1>2, <1>3
<1>8. /\ Stored(conf).start = conf.start <=> conf.start < Word
      /\ Stored(conf).num = conf.num <=> conf.num < Word
  BY <1>5, <1>7 DEF Stored
<1>9. ASSUME Accepts(conf)
      PROVE  /\ conf.num # 0
             /\ conf.start + conf.num <= SectorCount <=> conf.start < SectorCount
  <2>1. conf.num # 0 /\ (SectorCount - conf.start) % Size >= conf.num
    BY <1>9 DEF Accepts
  <2>2. CASE conf.start < SectorCount
    <3>1. (SectorCount - conf.start) % Size = SectorCount - conf.start
      BY <1>2, <1>4, <1>5, <2>2
    <3> QED BY <1>2, <1>5, <2>1, <2>2, <3>1
  <2>3. CASE ~(conf.start < SectorCount)
    BY <1>2, <1>5, <2>1, <2>3
  <2> QED BY <2>2, <2>3
<1> QED BY <1>1, <1>5, <1>6, <1>8, <1>9

\* The last of the first k configurations for a slot.
LEMMA LastWrite ==
    ASSUME NEW k \in 0 .. 4, NEW W \in SUBSET (1 .. k), W # {}
    PROVE  (CHOOSE i \in W : \A j \in W : j <= i) \in W
<1>1. W \subseteq {1, 2, 3, 4}
  OBVIOUS
<1>2. \E i \in W : \A j \in W : j <= i
  <2>1. CASE 4 \in W
    BY <1>1, <2>1
  <2>2. CASE 4 \notin W /\ 3 \in W
    BY <1>1, <2>2
  <2>3. CASE 4 \notin W /\ 3 \notin W /\ 2 \in W
    BY <1>1, <2>3
  <2>4. CASE W = {1}
    BY <2>4
  <2> QED BY <1>1, <2>1, <2>2, <2>3, <2>4
<1> QED BY <1>2

\* The array version leaves a table, and in the slot of a configuration that no later
\* one has replaced, what was stored of it.
LEMMA ArraySlots ==
    ASSUME NEW m \in Mbr, NEW confs \in ConfArray, NEW k \in 0 .. 4
    PROVE  /\ AfterWrites(m, confs, k) \in Mbr
           /\ \A i \in 1 .. k :
                (\A j \in 1 .. k : i < j => confs[j].nr # confs[i].nr) =>
                    AfterWrites(m, confs, k).slot[confs[i].nr] = Stored(confs[i])
<1> DEFINE writes(s) == {i \in 1 .. k : confs[i].nr = s}
           chosen(s) == CHOOSE i \in writes(s) : \A j \in writes(s) : j <= i
           new == [s \in Slot |-> IF writes(s) = {} THEN m.slot[s] ELSE Stored(confs[chosen(s)])]
<1>1. AfterWrites(m, confs, k) = [m EXCEPT !.slot = new]
  BY DEF AfterWrites
<1>2. ASSUME NEW s \in Slot PROVE new[s] \in Entry
  <2>1. CASE writes(s) = {}
    BY <2>1 DEF Mbr
  <2>2. CASE writes(s) # {}
    <3>1. chosen(s) \in writes(s)
      BY <2>2, LastWrite
    <3>2. chosen(s) \in 1 .. 4
      BY <3>1
    <3>3. confs[chosen(s)] \in Conf
      BY <3>2, PartTableAssumption
    <3> QED BY <2>2, <3>3, StoredEntry
  <2> QED BY <2>1, <2>2
<1>3. ASSUME NEW i \in 1 .. k, \A j \in 1 .. k : i < j => confs[j].nr # confs[i].nr
      PROVE  new[confs[i].nr] = Stored(confs[i])
  <2> DEFINE s == confs[i].nr
  <2>1. i \in writes(s) /\ \A j \in writes(s) : j <= i
    BY <1>3
  <2>2. \A c \in writes(s) : (\A j \in writes(s) : j <= c) => c = i
    BY <2>1
  <2>3. chosen(s) = i
    BY <2>1, <2>2
  <2>4. confs[i] \in Conf
    <3>1. i \in 1 .. 4
      OBVIOUS
    <3> QED BY <3>1, PartTableAssumption
  <2>5. s \in Slot
    BY <2>4, StoredEntry
  <2>6. writes(s) # {}
    BY <2>1
  <2> HIDE DEF writes, chosen
  <2> QED BY <2>3, <2>5, <2>6
<1>4. new \in [Slot -> Entry]
  BY <1>2
<1> HIDE DEF new
<1>5. AfterWrites(m, confs, k).slot = new
  BY <1>1 DEF Mbr
<1> QED BY <1>1, <1>3, <1>4, <1>5 DEF Mbr

\* Of an entry that was stored, fetch_partitions lists what was given exactly if it
\* starts inside the device and fits the table.
LEMMA ListedIfFits ==
    ASSUME NEW m \in Mbr, NEW conf \in Conf, Accepts(conf), conf.type # "extended",
           m.slot[conf.nr] = Stored(conf)
    PROVE  ListedAsGiven(m, conf)
             <=> conf.start < SectorCount /\ conf.start < Word /\ conf.num < Word
<1>1. /\ Stored(conf) \in Entry /\ conf.nr \in Slot
      /\ conf.start \in Nat /\ conf.num \in Nat
      /\ Stored(conf).start = conf.start <=> conf.start < Word
      /\ Stored(conf).num = conf.num <=> conf.num < Word
      /\ conf.num # 0
      /\ conf.start + conf.num <= SectorCount <=> conf.start < SectorCount
  BY StoredEntry
<1>2. ASSUME ListedAsGiven(m, conf)
      PROVE  conf.start < SectorCount /\ conf.start < Word /\ conf.num < Word
  <2>1. PICK i \in DOMAIN Fetched(m) :
           /\ Fetched(m)[i].slot = conf.nr
           /\ Fetched(m)[i].start = conf.start /\ Fetched(m)[i].num = conf.num
    BY <1>2 DEF ListedAsGiven, Range
  <2>2. /\ conf.nr \in Listed(m)
        /\ Stored(conf).start = conf.start /\ Stored(conf).num = conf.num
    BY <2>1, FetchedList
  <2>3. Stored(conf).start + Stored(conf).num <= SectorCount
    BY <2>2 DEF Listed, Counted, ValidEntry
  <2> QED BY <1>1, <2>2, <2>3
<1>3. ASSUME conf.start < SectorCount, conf.start < Word, conf.num < Word
      PROVE  ListedAsGiven(m, conf)
  <2>1. Stored(conf).start = conf.start /\ Stored(conf).num = conf.num
        /\ conf.start + conf.num <= SectorCount
    BY <1>1, <1>3
  <2>2. Stored(conf).type = conf.type
    BY DEF Stored
  <2>3. conf.nr \in Listed(m)
    BY <1>1, <2>1, <2>2 DEF Listed, Counted, ValidEntry
  <2>4. PICK i \in DOMAIN Fetched(m) : Fetched(m)[i].slot = conf.nr
    BY <2>3, FetchedList
  <2>5. Fetched(m)[i].start = conf.start /\ Fetched(m)[i].num = conf.num
    BY <2>1, <2>4, FetchedList
  <2> QED BY <2>4, <2>5 DEF ListedAsGiven, Range
<1> QED BY <1>2, <1>3

-----------------------------------------------------------------------------
(* The invariant.                                                          *)

LEMMA InitInvariant ==
    ASSUME Init
    PROVE  IInv
<1>1. Foreign \cup {NoEntry} \subseteq Entry
  BY PartTableAssumption DEF NoEntry, Entry, Type
<1>2. mbr \in Mbr
  BY <1>1 DEF Init, Mbr
<1> QED BY <1>2 DEF Init, IInv

\* A call that only returns, or that writes the table.
LEMMA NextKeepsInvariant ==
    ASSUME IInv, [Next]_vars
    PROVE  IInv'
<1> USE DEF Returns, Return
<1>1. ASSUME NEW conf \in Conf, WriteEntry(conf)
      PROVE  IInv'
  <2>1. mbr' \in Mbr
    <3>1. CASE mbr' = mbr
      BY <3>1 DEF IInv
    <3>2. CASE mbr' = [mbr EXCEPT !.slot = [@ EXCEPT ![conf.nr] = Stored(conf)]]
      BY <3>2, StoredEntry DEF IInv, Mbr
    <3> QED BY <1>1, <3>1, <3>2 DEF WriteEntry
  <2> QED BY <1>1, <2>1 DEF WriteEntry, IInv
<1>2. ASSUME NEW confs \in ConfArray, WriteEntries(confs)
      PROVE  IInv'
  <2>1. PICK k \in Written(confs) :
           /\ mbr' = AfterWrites(mbr, confs, k)
           /\ Returns("write_all", confs,
                      IF k = 4 THEN "OK" ELSE IF Accepts(confs[k + 1]) THEN "EIO" ELSE "EINVAL")
    BY <1>2 DEF WriteEntries
  <2>2. mbr' \in Mbr
    BY <2>1, ArraySlots DEF IInv, Written
  <2>3. last'.err \in {"OK", "EIO", "EINVAL"}
    BY <2>1
  <2> QED BY <1>2, <2>2, <2>3 DEF WriteEntries, IInv
<1>3. ASSUME CreateMbr \/ EraseMbr
      PROVE  IInv'
  <2>1. Blank \in Mbr /\ [Blank EXCEPT !.lo = TRUE, !.hi = TRUE] \in Mbr
    <3>1. NoEntry \in Entry
      BY PartTableAssumption DEF NoEntry, Entry, Type
    <3> QED BY <3>1 DEF Blank, Mbr
  <2>2. mbr' \in Mbr
    BY <1>3, <2>1 DEF CreateMbr, EraseMbr, IInv
  <2> QED BY <1>3, <2>2 DEF CreateMbr, EraseMbr, IInv
<1>4. ASSUME ValidateMbr \/ UNCHANGED vars
      PROVE  IInv'
  BY <1>4 DEF ValidateMbr, IInv, vars
<1>5. ASSUME RegisterDevice \/ UnregisterDevice
      PROVE  IInv'
  <2>1. mbr' = mbr /\ registered' \in BOOLEAN /\ last'.err \in {"OK", "EINVAL", "ENOENT", "EIO", "ENXIO"}
    <3>1. CASE RegisterDevice
      <4>1. mbr' = mbr /\ last'.err \in {"OK", "EINVAL", "EIO"}
        BY <3>1 DEF RegisterDevice
      <4>2. registered' = registered \/ registered' = TRUE
        BY <3>1 DEF RegisterDevice
      <4>3. registered' \in BOOLEAN
        BY <4>2 DEF IInv
      <4> QED BY <4>1, <4>3
    <3>2. CASE UnregisterDevice
      <4>1. last'.err = IF registered THEN "OK" ELSE "ENOENT"
        BY <3>2 DEF UnregisterDevice
      <4>2. mbr' = mbr /\ registered' = FALSE
        BY <3>2 DEF UnregisterDevice
      <4> QED BY <4>1, <4>2
    <3> QED BY <1>5, <3>1, <3>2
  <2>2. partitions' \in {partitions, << >>, Fetched(mbr)}
    BY <1>5 DEF RegisterDevice, UnregisterDevice
  <2>3. partitions' = << >> \/ \E m \in Mbr : partitions' = Fetched(m)
    BY <2>2 DEF IInv
  <2> HIDE DEF Returns, Return
  <2> QED BY <2>1, <2>3 DEF IInv
<1> QED BY <1>1, <1>2, <1>3, <1>4, <1>5 DEF Next

-----------------------------------------------------------------------------
(* The theorems.                                                           *)

LEMMA InvariantHolds == Spec => []IInv
BY InitInvariant, NextKeepsInvariant, PTL DEF Spec

LEMMA ListIsOfSomeTable ==
    ASSUME IInv
    PROVE  partitions \in Lists
BY DEF IInv, Lists

\* Every variable keeps its type, whatever table a device comes with: a listed
\* partition has a number below four (fetch_partitions).
THEOREM TypeCorrect == Spec => []TypeOK
<1>1. IInv => TypeOK
  BY ListIsOfSomeTable, ListsAreSound DEF IInv, TypeOK, Mbr
<1> QED BY <1>1, InvariantHolds, PTL

\* Two partitions of a disk never have the same number, and so never the same name
\* (create_partition_name), in any table: a number counts the slots before.
THEOREM NamesAreUnique == Spec => []NumbersAreUnique
<1>1. IInv => NumbersAreUnique
  BY ListIsOfSomeTable, ListsAreSound DEF NumbersAreUnique
<1> QED BY <1>1, InvariantHolds, PTL

\* In a table whose first slots hold partitions and whose other slots hold none,
\* the name of each partition leads back to it (fs_discovery, borrow_partition).
THEOREM DenseTablesResolve == Spec => []DenseTableResolves
<1>1. IInv => DenseTableResolves
  BY ListIsOfSomeTable, ListsAreSound DEF DenseTableResolves
<1> QED BY <1>1, InvariantHolds, PTL

\* What write_partition_entry accepted, alone or in an array, is listed by the next
\* register_device as it was given exactly if it starts inside the device and its
\* numbers fit the 32 bits of the table: the unsigned subtraction accepts some that
\* do not start inside, and no test looks at the 32 bits.
THEOREM WhatIsWrittenIsListed == Spec => WrittenIsListed
<1> DEFINE Fits(conf) == conf.start < SectorCount /\ conf.start < Word /\ conf.num < Word
           Final(args, i) == args[i].type # "extended"
                             /\ \A j \in DOMAIN args : i < j => args[j].nr # args[i].nr
<1>1. ASSUME IInv, NEW conf \in Conf, WriteEntry(conf), last'.err = "OK",
             NEW i \in DOMAIN last'.args, Final(last'.args, i)
      PROVE  ListedAsGiven(mbr', last'.args[i]) <=> Fits(last'.args[i])
  <2>1. /\ Accepts(conf) /\ last'.args = <<conf>>
        /\ mbr' = [mbr EXCEPT !.slot = [@ EXCEPT ![conf.nr] = Stored(conf)]]
    BY <1>1 DEF WriteEntry, Returns
  <2>2. last'.args[i] = conf
    BY <1>1, <2>1
  <2>3. Stored(conf) \in Entry /\ conf.nr \in Slot
    BY StoredEntry
  <2>4. mbr' \in Mbr /\ mbr'.slot[conf.nr] = Stored(conf)
    BY <1>1, <2>1, <2>3 DEF IInv, Mbr
  <2> QED BY <1>1, <2>1, <2>2, <2>4, ListedIfFits
<1>2. ASSUME IInv, NEW confs \in ConfArray, WriteEntries(confs), last'.err = "OK",
             NEW i \in DOMAIN last'.args, Final(last'.args, i)
      PROVE  ListedAsGiven(mbr', last'.args[i]) <=> Fits(last'.args[i])
  <2>1. PICK k \in Written(confs) :
           /\ mbr' = AfterWrites(mbr, confs, k) /\ last'.args = confs
           /\ last'.err = IF k = 4 THEN "OK" ELSE IF Accepts(confs[k + 1]) THEN "EIO" ELSE "EINVAL"
    BY <1>2 DEF WriteEntries, Returns
  <2>2. k = 4 /\ k \in 0 .. 4 /\ \A j \in 1 .. 4 : Accepts(confs[j])
    BY <1>2, <2>1 DEF Written
  <2>3. confs \in [1 .. 4 -> Conf]
    BY PartTableAssumption
  <2>4. DOMAIN confs = 1 .. 4 /\ i \in 1 .. 4 /\ confs[i] \in Conf /\ Accepts(confs[i])
    BY <1>2, <2>1, <2>2, <2>3
  <2>5. \A j \in 1 .. 4 : i < j => confs[j].nr # confs[i].nr
    BY <1>2, <2>1, <2>4
  <2>6. mbr' \in Mbr /\ mbr'.slot[confs[i].nr] = Stored(confs[i])
    BY <1>2, <2>1, <2>2, <2>4, <2>5, ArraySlots DEF IInv
  <2> QED BY <1>2, <2>1, <2>4, <2>6, ListedIfFits
<1> HIDE DEF Fits, Final
<1>3. ASSUME IInv, [Next]_vars, vars' # vars, last'.call \in {"write", "write_all"},
             last'.err = "OK", NEW i \in DOMAIN last'.args, Final(last'.args, i)
      PROVE  ListedAsGiven(mbr', last'.args[i]) <=> Fits(last'.args[i])
  <2>1. (\E conf \in Conf : WriteEntry(conf)) \/ (\E confs \in ConfArray : WriteEntries(confs))
    BY <1>3 DEF Next, CreateMbr, EraseMbr, ValidateMbr, RegisterDevice, UnregisterDevice,
       Returns, Return
  <2> QED BY <1>1, <1>2, <1>3, <2>1
<1>4. IInv /\ [Next]_vars =>
        [last'.call \in {"write", "write_all"} /\ last'.err = "OK" /\ SignatureAccepted(mbr) =>
            \A i \in DOMAIN last'.args :
                LET conf == last'.args[i]
                IN  conf.type # "extended" /\ (\A j \in DOMAIN last'.args : i < j => last'.args[j].nr # conf.nr)
                      => (ListedAsGiven(mbr', conf)
                            <=> conf.start < SectorCount /\ conf.start < Word /\ conf.num < Word)]_vars
  BY <1>3 DEF Fits, Final
<1> QED BY <1>4, InvariantHolds, PTL DEF Spec, WrittenIsListed

=============================================================================
