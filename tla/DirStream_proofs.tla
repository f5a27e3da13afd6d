-------------------------- MODULE DirStream_proofs --------------------------
(***************************************************************************)
(* Theorems about DirStream, for any names, any size of the leaf and any   *)
(* number of streams: every variable keeps its type; and where reads do    *)
(* not fail, the streams of a careful program are those of DirListing, and *)
(* seekdir finds the places that telldir told.                             *)
(*                                                                         *)
(* The directory is well formed at all times: the lengths of the entries   *)
(* with an inode, and of the first entry of the leaf, lead from one to     *)
(* the next up to the end (Linked).  A stream may stand at an entry that   *)
(* no length leads to any more.  What keeps it right is that there is a    *)
(* sound set of offsets with every cursor in it (Tracked): from each of    *)
(* them the length of the entry leads to another, over no entry with an    *)
(* inode, whether or not the entry itself has one.                         *)
(*                                                                         *)
(* A stream before which nothing changed stands at an entry or at the end, *)
(* and its position is the number of entries before it; a told place is    *)
(* such a place as long as it is good, and no other has the same position  *)
(* (Settled, Marked).                                                      *)
(***************************************************************************)
EXTENDS DirStream, FiniteSetTheorems, WellFoundedInduction, TLAPS

Directory == [Offsets -> Slots]

\* The entries that the leaf is divided into, and the dots.
Marks(d) == Live(d) \cup {Leaf}

Inside(d) == \A o \in Offsets : d[o].kind # "torn" => o + d[o].len <= Term

Rooted(d) ==
    /\ {0, 1} \subseteq Live(d) /\ d[Leaf].kind # "torn"
    /\ d[0].len = 1 /\ d[1].len = 1 /\ d[0].name = "." /\ d[1].name = ".."

\* No entry is between o and where its length leads.
Clear(d, o) == \A p \in Marks(d) : ~(o < p /\ p < o + d[o].len)

Linked(d) == \A o \in Marks(d) : o + d[o].len \in Marks(d) \cup {Term} /\ Clear(d, o)

\* An entry has room for its name.
Roomy(d) ==
    \A o \in Live(d) : o > 1 =>
        /\ d[o].name \in Names /\ Size[d[o].name] <= d[o].len
        /\ \A k \in Offsets : o < k /\ k < o + Size[d[o].name] => d[k].kind = "torn"

\* Where no entry begins, none has begun.
NoneTorn(d, e) == \A o \in Offsets : d[o].kind # "torn" => e[o].kind # "torn"

Distinct(d) == \A o, p \in Live(d) : d[o].name = d[p].name => o = p

WellFormed(d) ==
    d \in Directory /\ Inside(d) /\ Rooted(d) /\ Linked(d) /\ Roomy(d) /\ Distinct(d)

\* Offsets a stream may stand at: each leads to another, over no entry.
Sound(d, P) ==
    /\ P \subseteq 0..Term /\ Marks(d) \cup {Term} \subseteq P
    /\ \A o \in P \ {Term} :
          d[o].kind # "torn" /\ o + d[o].len \in P /\ Clear(d, o)

Behind == \A s \in Streams : position[s] <= cursor[s]

IInv == TypeOK /\ WellFormed(dir) /\ Behind

\* Every cursor is in a sound set, and a stream that stands at a removed entry
\* was open when it was removed.
Tracked == \E P \in SUBSET (0..Term) : Sound(dir, P) /\ \A s \in open : cursor[s] \in P

Told ==
    \A s \in open :
        cursor[s] # Term /\ dir[cursor[s]].kind = "dead" => dir[cursor[s]].name \in removed[s]

-----------------------------------------------------------------------------
(* Numbers.                                                                 *)
LEMMA Bounds ==
    /\ Leaf = 2 /\ Units \in Nat \ {0} /\ Term \in Nat /\ Term = Leaf + Units
    /\ \A o : o \in Offsets <=> o \in Nat /\ o < Term
    /\ \A o : o \in 0..Term <=> o \in Offsets \/ o = Term
    /\ {0, 1, 2} \subseteq Offsets /\ Term \notin Offsets
  BY SizeAssumption DEF Leaf, Term, Offsets

LEMMA SizeIs == \A n \in Names : Size[n] \in Nat /\ Size[n] > 0
  BY SizeAssumption

\* A set of numbers has a least one.
LEMMA LeastNumber ==
    ASSUME NEW S, S \subseteq Nat, S # {}
    PROVE  \E x \in S : \A y \in S : x <= y
<1> DEFINE Less == {ss \in Nat \X Nat : ss[1] < ss[2]}
<1>1. IsWellFoundedOn(Less, Nat)
  BY NatLessThanWellFounded DEF OpToRel
<1>2. \E x \in S : \A y \in S : <<y, x>> \notin Less
  BY <1>1, WFMin
<1>3. \A x, y \in S : <<y, x>> \notin Less => x <= y
  OBVIOUS
<1> QED BY <1>2, <1>3

\* And a greatest one, if it is bounded.
LEMMA GreatestNumber ==
    ASSUME NEW S, NEW n \in Nat, S \subseteq 0..n, S # {}
    PROVE  \E x \in S : \A y \in S : y <= x
<1> DEFINE R == {n - x : x \in S}
<1>1. R \subseteq Nat /\ R # {}
  <2>1. \A x \in S : n - x \in Nat
    OBVIOUS
  <2>2. PICK x \in S : TRUE
    OBVIOUS
  <2>3. n - x \in R
    OBVIOUS
  <2> QED BY <2>1, <2>3
<1> HIDE DEF R
<1>2. PICK r \in R : \A q \in R : r <= q
  BY <1>1, LeastNumber
<1>3. PICK x \in S : r = n - x
  BY <1>2 DEF R
<1>4. ASSUME NEW y \in S PROVE y <= x
  <2>1. n - y \in R
    BY DEF R
  <2>2. n - x <= n - y
    BY <1>2, <1>3, <2>1
  <2> QED BY <2>2
<1> QED BY <1>4

\* What is in a slot.
LEMMA SlotFacts ==
    ASSUME NEW d \in Directory, NEW o \in Offsets
    PROVE  /\ d[o] \in Slots
           /\ d[o].kind \in {"live", "dead", "torn"}
           /\ d[o].kind # "torn" => d[o].len \in 1..Units /\ d[o].name \in Names \cup Dots
           /\ d[o].kind = "torn" => d[o] = Torn
           /\ o \in Live(d) <=> d[o].kind = "live"
<1>1. d[o] \in Slots
  BY DEF Directory
<1>2. CASE d[o] \in [kind : {"live", "dead"}, name : Names \cup Dots, len : 1..Units]
  BY <1>2, <1>1 DEF Live
<1>3. CASE d[o] = Entry("torn", "garbled", 0)
  BY <1>1, <1>3 DEF Live, Entry, Torn
<1> QED BY <1>1, <1>2, <1>3 DEF Slots

LEMMA LiveFacts ==
    ASSUME NEW d PROVE Live(d) \subseteq Offsets /\ Marks(d) \subseteq Offsets
  BY Bounds DEF Live, Marks

-----------------------------------------------------------------------------
(* The path of lengths from an offset.                                      *)

\* The step that the lengths make, and the sets it leads through.
Leads(d, q, p) == d[q].kind # "torn" /\ p = q + d[q].len
Follows(d, S) == \A q \in S \ {Term} : d[q].kind # "torn" => q + d[q].len \in S

LEMMA LeadsOn ==
    ASSUME NEW d \in Directory, Inside(d), NEW q \in Offsets, d[q].kind # "torn"
    PROVE  q + d[q].len \in 0..Term /\ q < q + d[q].len
<1>1. d[q].len \in 1..Units /\ q + d[q].len <= Term
  BY SlotFacts DEF Inside
<1> QED BY <1>1, Bounds

LEMMA PathIs ==
    ASSUME NEW d \in Directory, Inside(d), NEW o \in 0..Term
    PROVE  /\ Path(d, o) \in SUBSET (o..Term) /\ o \in Path(d, o)
           /\ Follows(d, Path(d, o))
           /\ \A p \in Path(d, o) \ {o} : \E q \in Path(d, o) \ {Term} : Leads(d, q, p)
<1> DEFINE Good(S) == /\ o \in S
                      /\ Follows(d, S)
                      /\ \A p \in S \ {o} : \E q \in S \ {Term} : Leads(d, q, p)
<1> DEFINE L == {p \in o..Term :
                    \A S \in SUBSET (o..Term) : o \in S /\ Follows(d, S) => p \in S}
<1>1. o..Term \subseteq 0..Term /\ o \in o..Term
  BY Bounds
<1>2. L \in SUBSET (o..Term) /\ o \in L
  BY <1>1
<1>3. Follows(d, o..Term)
  <2>1. SUFFICES ASSUME NEW q \in (o..Term) \ {Term}, d[q].kind # "torn"
                 PROVE  q + d[q].len \in o..Term
    BY DEF Follows
  <2>2. q \in Offsets
    BY <1>1, Bounds
  <2>3. q + d[q].len \in 0..Term /\ q < q + d[q].len
    BY <2>1, <2>2, LeadsOn
  <2>4. q \in Nat /\ o \in Nat /\ o <= q
    BY <2>2, Bounds
  <2> QED BY <2>3, <2>4, Bounds
<1>4. Follows(d, L)
  <2>1. SUFFICES ASSUME NEW q \in L \ {Term}, d[q].kind # "torn"
                 PROVE  q + d[q].len \in L
    BY DEF Follows
  <2>2. ASSUME NEW S \in SUBSET (o..Term), o \in S, Follows(d, S)
        PROVE  q + d[q].len \in S
    BY <2>1, <2>2 DEF Follows
  <2>3. q + d[q].len \in o..Term
    BY <1>1, <1>3, <2>2
  <2> QED BY <2>2, <2>3
<1>5. ASSUME NEW p \in L \ {o} PROVE \E q \in L \ {Term} : Leads(d, q, p)
  <2>1. SUFFICES ASSUME \A q \in L \ {Term} : ~Leads(d, q, p) PROVE FALSE
    OBVIOUS
  <2> DEFINE S == L \ {p}
  <2>2. S \in SUBSET (o..Term) /\ o \in S
    BY <1>2, <1>5
  <2>3. Follows(d, S)
    BY <1>4, <2>1 DEF Follows, Leads
  <2> HIDE DEF S
  <2>4. p \in S
    BY <2>2, <2>3
  <2> QED BY <2>4 DEF S
<1> HIDE DEF L
<1>6. Good(L)
  BY <1>2, <1>4, <1>5
<1> DEFINE steps == {q \in o..(Term - 1) : d[q].kind # "torn"}
<1> DEFINE ends == {o} \cup {q + d[q].len : q \in steps}
<1>7. \A q : q \in steps <=> q \in (o..Term) \ {Term} /\ d[q].kind # "torn"
  BY Bounds
<1>8. ends \subseteq o..Term
  BY <1>1, <1>3, <1>7 DEF Follows
<1> DEFINE Chosen(S) == /\ o \in S
                        /\ \A q \in S \cap steps : q + d[q].len \in S
                        /\ \A p \in S \ {o} : \E q \in S \cap steps : p = q + d[q].len
<1>9. Path(d, o) = CHOOSE S \in SUBSET ends : Chosen(S)
  BY DEF Path
<1> HIDE DEF steps
<1>10. ASSUME NEW S \in SUBSET (o..Term) PROVE Chosen(S) <=> Good(S)
  <2>1. \A q : q \in S \cap steps <=> q \in S \ {Term} /\ d[q].kind # "torn"
    BY <1>7
  <2> QED BY <2>1 DEF Follows, Leads
<1>11. L \in SUBSET ends
  <2>1. ASSUME NEW p \in L \ {o} PROVE p \in ends
    <3>1. PICK q \in L \ {Term} : Leads(d, q, p)
      BY <1>5
    <3>2. q \in steps /\ p = q + d[q].len
      BY <1>2, <1>7, <3>1 DEF Leads
    <3> QED BY <3>2
  <2> QED BY <2>1
<1> HIDE DEF Good, Chosen, ends
<1>12. \E S \in SUBSET ends : Chosen(S)
  BY <1>2, <1>6, <1>10, <1>11
<1>13. Path(d, o) \in SUBSET ends /\ Chosen(Path(d, o))
  BY <1>9, <1>12
<1>14. Path(d, o) \in SUBSET (o..Term) /\ Good(Path(d, o))
  BY <1>8, <1>10, <1>13
<1> QED BY <1>14 DEF Good

\* After leads forward.
LEMMA AfterForward ==
    ASSUME NEW d \in Directory, Inside(d), NEW o \in Offsets, NEW r \in After(d, o)
    PROVE  /\ r \in 0..Term /\ o < r
           /\ TornOn(d, o) = {} => /\ r = Term \/ r \in Live(d) \cap Path(d, o)
                                  /\ \A p \in Live(d) \cap Path(d, o) : o < p => r <= p
<1> DEFINE met == {p \in Path(d, o) \ {o, Term} : d[p].kind = "live"}
<1>1. Path(d, o) \in SUBSET (o..Term)
  BY PathIs, Bounds
<1>2. met \subseteq Offsets /\ \A p \in met : o < p /\ p < Term
  BY <1>1, Bounds
<1>3. met \subseteq Nat /\ \A p \in met : p \in Live(d) \cap Path(d, o)
  BY <1>2, Bounds DEF Live
<1>4. \A p \in Live(d) \cap Path(d, o) : o < p => p \in met
  <2>1. \A p \in Live(d) : p # Term /\ d[p].kind = "live" /\ p \in Nat
    BY Bounds DEF Live
  <2> QED BY <2>1, Bounds
<1>5. After(d, o) = IF met # {} THEN {CHOOSE p \in met : \A q \in met : p <= q}
                    ELSE {Term} \cup (Astray(d, o) \ {o})
  BY DEF After
<1> HIDE DEF met
<1>6. CASE met # {}
  <2>1. \E p \in met : \A q \in met : p <= q
    BY <1>3, <1>6, LeastNumber
  <2>2. r \in met /\ \A q \in met : r <= q
    BY <1>5, <1>6, <2>1
  <2> QED BY <1>2, <1>3, <1>4, <2>2, Bounds
<1>7. CASE met = {} /\ r = Term
  BY <1>4, <1>7, Bounds
<1>8. CASE met = {} /\ r \in Astray(d, o) \ {o}
  <2>1. PICK q \in TornOn(d, o) : q <= r
    BY <1>8 DEF Astray
  <2>2. r \in Offsets /\ q \in o..Term
    BY <1>1, <1>8 DEF Astray, TornOn
  <2> QED BY <1>8, <2>1, <2>2, Bounds
<1> QED BY <1>5, <1>6, <1>7, <1>8

-----------------------------------------------------------------------------
(* Sound sets.                                                              *)

\* The path from an offset of a sound set stays in it, and so meets every entry
\* that is to come.
LEMMA SoundPath ==
    ASSUME NEW d \in Directory, Inside(d), NEW P, Sound(d, P), NEW c \in P
    PROVE  Path(d, c) \subseteq P
<1> DEFINE out == Path(d, c) \ P
<1>1. c \in 0..Term /\ P \subseteq 0..Term
  BY DEF Sound
<1>2. /\ Path(d, c) \in SUBSET (c..Term)
      /\ \A p \in Path(d, c) \ {c} : \E q \in Path(d, c) \ {Term} : Leads(d, q, p)
  BY <1>1, PathIs
<1>3. Path(d, c) \subseteq 0..Term
  BY <1>1, <1>2, Bounds
<1> SUFFICES ASSUME out # {} PROVE FALSE
  OBVIOUS
<1>4. PICK p \in out : \A q \in out : p <= q
  BY <1>3, LeastNumber, Bounds
<1>5. p \in Path(d, c) \ {c}
  BY <1>4
<1>6. PICK q \in Path(d, c) \ {Term} : Leads(d, q, p)
  BY <1>2, <1>5
<1>7. q \in Offsets /\ d[q].kind # "torn" /\ p = q + d[q].len
  BY <1>3, <1>6, Bounds DEF Leads
<1>8. q < p
  BY <1>7, LeadsOn
<1>9. q \in P
  BY <1>3, <1>4, <1>6, <1>8
<1>10. p \in P
  BY <1>6, <1>7, <1>9 DEF Sound
<1> QED BY <1>4, <1>10

LEMMA PathMeets ==
    ASSUME NEW d \in Directory, Inside(d), NEW P, Sound(d, P), NEW c \in P,
           NEW y \in Marks(d) \cup {Term}, c <= y
    PROVE  y \in Path(d, c)
<1> DEFINE before == {p \in Path(d, c) : p <= y}
<1>1. c \in 0..Term /\ P \subseteq 0..Term /\ y \in 0..Term
  BY LiveFacts, Bounds DEF Sound
<1>2. /\ Path(d, c) \in SUBSET (c..Term) /\ c \in Path(d, c)
      /\ Follows(d, Path(d, c))
  BY <1>1, PathIs
<1>3. before \subseteq 0..Term /\ c \in before
  BY <1>1, <1>2, Bounds
<1>4. PICK z \in before : \A q \in before : q <= z
  BY <1>3, GreatestNumber, Bounds
<1>5. z \in P /\ z \in Path(d, c) /\ z <= y
  BY <1>4, SoundPath
<1> SUFFICES ASSUME z # y PROVE FALSE
  BY <1>5
<1>6. z \in Offsets /\ z < y /\ z # Term
  BY <1>1, <1>5, Bounds
<1>7. d[z].kind # "torn" /\ z + d[z].len \in P /\ Clear(d, z)
  BY <1>5, <1>6 DEF Sound
<1>8. z + d[z].len \in 0..Term /\ z < z + d[z].len /\ z + d[z].len \in Path(d, c)
  BY <1>2, <1>5, <1>6, <1>7, LeadsOn DEF Follows
<1>9. ~(z + d[z].len <= y)
  <2>1. ASSUME z + d[z].len <= y PROVE FALSE
    <3>1. z + d[z].len \in before
      BY <1>8, <2>1
    <3>2. z + d[z].len <= z
      BY <1>4, <3>1
    <3> QED BY <1>6, <1>8, <3>2, Bounds
  <2> QED BY <2>1
<1>10. CASE y = Term
  BY <1>8, <1>9, <1>10, Bounds
<1>11. CASE y \in Marks(d)
  BY <1>1, <1>6, <1>7, <1>8, <1>9, <1>11, Bounds DEF Clear
<1> QED BY <1>10, <1>11

\* From a sound place no torn bytes are met.
LEMMA SoundUntorn ==
    ASSUME NEW d \in Directory, Inside(d), NEW P, Sound(d, P), NEW c \in P
    PROVE  TornOn(d, c) = {}
<1>1. Path(d, c) \subseteq P
  BY SoundPath
<1> QED BY <1>1 DEF TornOn, Sound

\* The next entry a stream gets is the next one there is.
LEMMA AfterNext ==
    ASSUME NEW d \in Directory, Inside(d), NEW P, Sound(d, P), NEW c \in P \ {Term},
           NEW r \in After(d, c)
    PROVE  /\ r \in Live(d) \cup {Term} /\ c < r
           /\ \A p \in Live(d) : c < p => r <= p
           /\ r \in P
<1>1. c \in Offsets /\ Live(d) \subseteq Offsets /\ TornOn(d, c) = {}
  BY LiveFacts, SoundUntorn, Bounds DEF Sound
<1>2. ASSUME NEW p \in Live(d), c < p PROVE r <= p
  <2>1. p \in Path(d, c)
    BY <1>1, <1>2, PathMeets, Bounds DEF Marks
  <2> QED BY <1>1, <1>2, <2>1, AfterForward
<1> QED BY <1>1, <1>2, AfterForward DEF Sound, Marks

\* In a well-formed directory the entries and the end are a sound set.
LEMMA MarksSound ==
    ASSUME NEW d, WellFormed(d)
    PROVE  Sound(d, Marks(d) \cup {Term})
<1>1. Marks(d) \subseteq Offsets /\ d \in Directory
  BY LiveFacts DEF WellFormed
<1>2. \A o \in Marks(d) : d[o].kind # "torn"
  BY <1>1, SlotFacts DEF WellFormed, Rooted, Marks
<1>3. Marks(d) \cup {Term} \subseteq 0..Term
  BY <1>1, Bounds
<1> QED BY <1>2, <1>3 DEF Sound, WellFormed, Linked

-----------------------------------------------------------------------------
(* Removing an entry.                                                       *)

\* An entry with a file's name is in the leaf, and no other has the name.
LEMMA AtIs ==
    ASSUME NEW d, WellFormed(d), NEW n \in Names, n \in NamesOf(d)
    PROVE  /\ At(d, n) \in Live(d) /\ d[At(d, n)].name = n /\ Leaf <= At(d, n)
           /\ \A o \in Live(d) : d[o].name = n => o = At(d, n)
<1>1. PICK o \in Live(d) : d[o].name = n
  BY DEF NamesOf
<1>2. At(d, n) \in Live(d) /\ d[At(d, n)].name = n
  BY <1>1 DEF At
<1>3. At(d, n) # 0 /\ At(d, n) # 1
  BY <1>2, SizeAssumption DEF WellFormed, Rooted
<1>4. Leaf <= At(d, n)
  BY <1>2, <1>3, LiveFacts, Bounds
<1> QED BY <1>2, <1>4 DEF WellFormed, Distinct

\* The entry before one is the one whose length leads to it.
LEMMA BeforeIs ==
    ASSUME NEW d, WellFormed(d), NEW at \in Live(d), Leaf < at,
           NEW b, b = CHOOSE o \in Chain(d) : o < at /\ \A p \in Chain(d) : p < at => p <= o
    PROVE  b \in Marks(d) /\ Leaf <= b /\ b < at /\ b + d[b].len = at
<1> DEFINE S == {o \in Chain(d) : o < at}
<1>1. /\ Live(d) \subseteq Offsets /\ Chain(d) \subseteq Marks(d) /\ Marks(d) \subseteq Offsets
      /\ Leaf \in Chain(d) /\ \A o \in Chain(d) : Leaf <= o
      /\ \A o \in Marks(d) : Leaf <= o => o \in Chain(d)
  BY LiveFacts, Bounds DEF Chain, Marks
<1>2. S \subseteq 0..Term /\ Leaf \in S
  BY <1>1, Bounds
<1>3. \E o \in S : \A p \in S : p <= o
  <2> HIDE DEF S
  <2> QED BY <1>2, GreatestNumber, Bounds
<1>4. \E o \in Chain(d) : o < at /\ \A p \in Chain(d) : p < at => p <= o
  BY <1>3
<1>5. b \in Chain(d) /\ b < at /\ \A p \in Chain(d) : p < at => p <= b
  BY <1>4
<1>6. b \in Marks(d) /\ b \in Offsets /\ at \in Offsets /\ Leaf <= b
  BY <1>1, <1>5
<1>7. b + d[b].len \in Marks(d) \cup {Term} /\ Clear(d, b)
  BY <1>6 DEF WellFormed, Linked
<1>8. b + d[b].len \in Nat /\ b < b + d[b].len
  <2>1. d[b].kind # "torn"
    BY <1>6, SlotFacts DEF WellFormed, Rooted, Marks
  <2> QED BY <1>6, <2>1, LeadsOn, Bounds DEF WellFormed
<1>9. b + d[b].len <= at
  <2>1. ~(at < b + d[b].len)
    BY <1>5, <1>7 DEF Clear, Marks
  <2>2. at \in Nat
    BY <1>6, Bounds
  <2> HIDE DEF S
  <2> QED BY <1>8, <2>1, <2>2
<1>10. CASE b + d[b].len = Term
  BY <1>6, <1>9, <1>10, Bounds
<1>11. CASE b + d[b].len \in Marks(d)
  <2>1. b + d[b].len \in Chain(d)
    BY <1>1, <1>6, <1>8, <1>11, Bounds
  <2>2. ~(b + d[b].len < at)
    BY <1>5, <1>6, <1>8, <2>1, Bounds
  <2> QED BY <1>5, <1>6, <1>8, <1>9, <2>2, Bounds
<1> QED BY <1>5, <1>6, <1>7, <1>10, <1>11

\* What Remove does to each slot.
LEMMA RemoveIs ==
    ASSUME NEW d, WellFormed(d), NEW n \in Names, n \in NamesOf(d),
           NEW at, at = At(d, n), NEW e, e = Remove(d, n)
    PROVE  /\ e \in Directory
           /\ \A o \in Offsets : e[o].name = d[o].name
                                 /\ e[o].kind = IF o = at THEN "dead" ELSE d[o].kind
           /\ \/ at = Leaf /\ \A o \in Offsets : e[o].len = d[o].len
              \/ \E b \in Marks(d) :
                    /\ Leaf <= b /\ b < at /\ b + d[b].len = at
                    /\ e[b].len = d[b].len + d[at].len
                    /\ \A o \in Offsets \ {b} : e[o].len = d[o].len
<1>1. at \in Live(d) /\ d[at].name = n /\ Leaf <= at /\ at \in Offsets
  BY AtIs, LiveFacts
<1>2. d \in [Offsets -> Slots] /\ \A o \in Offsets : d[o] \in Slots
  BY DEF WellFormed, Directory
<1>3. /\ d[at].kind = "live" /\ d[at].len \in 1..Units
      /\ d[at] \in [kind : {"live", "dead"}, name : Names \cup Dots, len : 1..Units]
  BY <1>1, SlotFacts DEF WellFormed, Slots, Entry
<1> DEFINE dead == [d EXCEPT ![at].kind = "dead"]
<1>4. /\ dead \in [Offsets -> Slots]
      /\ \A o \in Offsets \ {at} : dead[o] = d[o]
      /\ dead[at].kind = "dead" /\ dead[at].name = d[at].name /\ dead[at].len = d[at].len
  <2>1. [d[at] EXCEPT !.kind = "dead"] \in Slots
    BY <1>3 DEF Slots
  <2> QED BY <1>1, <1>2, <1>3, <2>1
<1>5. CASE at = Leaf
  <2>1. e = dead
    BY <1>5 DEF Remove
  <2> QED BY <1>1, <1>2, <1>4, <1>5, <2>1 DEF Directory
<1>6. CASE at # Leaf
  <2> DEFINE b == CHOOSE o \in Chain(d) : o < at /\ \A p \in Chain(d) : p < at => p <= o
  <2>1. b \in Marks(d) /\ Leaf <= b /\ b < at /\ b + d[b].len = at
    BY <1>1, <1>6, BeforeIs, Bounds
  <2>2. e = [dead EXCEPT ![b].len = @ + d[at].len]
    BY <1>6 DEF Remove
  <2> HIDE DEF b, dead
  <2>3. b \in Offsets /\ b # at /\ d[b].kind \in {"live", "dead"} /\ d[b].len \in 1..Units
        /\ d[b] \in [kind : {"live", "dead"}, name : Names \cup Dots, len : 1..Units]
    <3>1. b \in Offsets /\ d[b].kind # "torn"
      BY <2>1, LiveFacts, SlotFacts DEF WellFormed, Rooted, Marks
    <3>2. b # at
      BY <1>1, <2>1, <3>1, Bounds
    <3> QED BY <3>1, <3>2, <1>2, SlotFacts DEF Slots, Entry, WellFormed
  <2>4. d[b].len + d[at].len \in 1..Units
    <3>1. at + d[at].len <= Term
      BY <1>1, <1>3 DEF WellFormed, Inside
    <3> QED BY <1>1, <1>3, <2>1, <2>3, <3>1, Bounds
  <2>5. dead[b] = d[b]
    BY <1>4, <2>3
  <2>6. [d[b] EXCEPT !.len = d[b].len + d[at].len] \in Slots
    BY <2>3, <2>4 DEF Slots
  <2>7. /\ e \in [Offsets -> Slots]
        /\ \A o \in Offsets \ {b} : e[o] = dead[o]
        /\ e[b] = [d[b] EXCEPT !.len = d[b].len + d[at].len]
    BY <1>4, <2>2, <2>3, <2>5, <2>6
  <2>8. e[b].len = d[b].len + d[at].len /\ e[b].name = d[b].name /\ e[b].kind = d[b].kind
    BY <2>3, <2>7
  <2> QED BY <1>4, <2>1, <2>3, <2>7, <2>8 DEF Directory
<1> QED BY <1>5, <1>6

\* A directory from which an entry is removed stays well formed, and what was
\* sound for the streams in it stays sound.
LEMMA Removed ==
    ASSUME NEW d, WellFormed(d), NEW n \in Names, n \in NamesOf(d),
           NEW at, at = At(d, n), NEW e, e = Remove(d, n)
    PROVE  /\ WellFormed(e)
           /\ Live(e) = Live(d) \ {at}
           /\ NamesOf(e) = NamesOf(d) \ {n}
           /\ \A P : Sound(d, P) => Sound(e, P)
<1>1. /\ e \in Directory
      /\ \A o \in Offsets : e[o].name = d[o].name
                            /\ e[o].kind = IF o = at THEN "dead" ELSE d[o].kind
  BY RemoveIs
<1>2. at \in Live(d) /\ d[at].name = n /\ Leaf <= at /\ at \in Offsets /\ at > 1
      /\ d[at].kind = "live" /\ \A o \in Live(d) : d[o].name = n => o = at
  BY AtIs, LiveFacts, Bounds DEF Live
<1>3. /\ Live(d) \subseteq Offsets /\ Marks(d) \subseteq Offsets /\ \A o \in Offsets : o \in Nat
      /\ d \in Directory
  BY LiveFacts, Bounds DEF WellFormed
<1>4. Live(e) = Live(d) \ {at}
  BY <1>1 DEF Live
<1>5. Marks(e) = Marks(d) \ ({at} \ {Leaf})
  BY <1>4 DEF Marks
<1>6. NamesOf(e) = NamesOf(d) \ {n}
  BY <1>1, <1>2, <1>3, <1>4 DEF NamesOf
<1>7. \A o \in Offsets : e[o].kind # "torn" <=> d[o].kind # "torn"
  BY <1>1, <1>2
<1>8. \A o \in Offsets : d[o].kind # "torn" => d[o].len \in 1..Units /\ o + d[o].len <= Term
  BY <1>3, SlotFacts DEF WellFormed, Inside
<1>9. \A o \in Marks(d) : d[o].kind # "torn"
  BY <1>3, SlotFacts DEF WellFormed, Rooted, Marks
<1>10. \A o \in Marks(d) : o + d[o].len \in Marks(d) \cup {Term} /\ Clear(d, o)
  BY DEF WellFormed, Linked
\* The lengths: one entry has taken over that of the removed one, or none.
<1>11. ASSUME NEW o \in Offsets, e[o].len = d[o].len, Clear(d, o)
       PROVE  Clear(e, o)
  BY <1>5, <1>11 DEF Clear
<1>12. ASSUME NEW b \in Marks(d), Leaf <= b, b < at, b + d[b].len = at,
              e[b].len = d[b].len + d[at].len
       PROVE  /\ b + e[b].len = at + d[at].len /\ Clear(e, b)
              /\ \A o \in Marks(d) : o + d[o].len = at => o = b
  <2>1. b \in Nat /\ at \in Nat /\ d[b].len \in Nat /\ d[at].len \in Nat
    BY <1>2, <1>3, <1>8, <1>9, <1>12, Bounds DEF Marks
  <2>2. b + e[b].len = at + d[at].len
    BY <1>12, <2>1
  <2>3. ASSUME NEW p \in Marks(e), b < p, p < at + d[at].len PROVE FALSE
    <3>1. p \in Marks(d) /\ p \in Nat /\ p # at
      BY <1>2, <1>3, <1>5, <1>12, <2>1, <2>3, Bounds
    <3>2. ~(p < at)
      BY <1>10, <1>12, <2>3, <3>1 DEF Clear
    <3>3. ~(at < p)
      BY <1>2, <1>10, <2>3, <3>1 DEF Clear, Marks
    <3> QED BY <2>1, <3>1, <3>2, <3>3
  <2>4. ASSUME NEW o \in Marks(d), o + d[o].len = at PROVE o = b
    <3>1. o \in Nat /\ d[o].len \in Nat \ {0} /\ o < at
      BY <1>3, <1>8, <1>9, <2>1, <2>4
    <3>2. ~(o < b)
      BY <1>10, <1>12, <2>4 DEF Clear
    <3>3. ~(b < o)
      BY <1>10, <1>12, <3>1 DEF Clear
    <3> QED BY <2>1, <3>1, <3>2, <3>3
  <2> QED BY <2>2, <2>3, <2>4 DEF Clear
<1>13. \/ at = Leaf /\ \A o \in Offsets : e[o].len = d[o].len
       \/ \E b \in Marks(d) :
             /\ Leaf <= b /\ b < at /\ b + d[b].len = at
             /\ e[b].len = d[b].len + d[at].len
             /\ \A o \in Offsets \ {b} : e[o].len = d[o].len
  BY RemoveIs
<1>14. ASSUME NEW o \in Offsets, d[o].kind # "torn"
       PROVE  /\ o + e[o].len <= Term /\ d[o].len <= e[o].len
              /\ Clear(d, o) => Clear(e, o)
  <2>1. CASE e[o].len = d[o].len
    BY <1>8, <1>11, <1>14, <2>1
  <2>2. CASE /\ o \in Marks(d) /\ Leaf <= o /\ o < at /\ o + d[o].len = at
             /\ e[o].len = d[o].len + d[at].len
    <3>1. o + e[o].len = at + d[at].len /\ Clear(e, o)
      BY <1>12, <2>2
    <3> QED BY <1>2, <1>8, <1>14, <2>2, <3>1
  <2> QED BY <1>13, <2>1, <2>2
<1>15. Inside(e)
  BY <1>7, <1>14 DEF Inside
<1>16. Rooted(e)
  <2>1. \A o \in {0, 1} : o \in Offsets /\ o # at /\ e[o].len = d[o].len
    BY <1>2, <1>13, Bounds
  <2>2. e[Leaf].kind # "torn"
    BY <1>7, Bounds DEF WellFormed, Rooted
  <2> QED BY <1>1, <1>4, <2>1, <2>2 DEF WellFormed, Rooted
<1>17. Linked(e)
  <2>1. SUFFICES ASSUME NEW o \in Marks(e)
                 PROVE  o + e[o].len \in Marks(e) \cup {Term} /\ Clear(e, o)
    BY DEF Linked
  <2>2. o \in Marks(d) /\ o \in Offsets
    BY <1>3, <1>5
  <2>3. Clear(e, o)
    BY <1>9, <1>10, <1>14, <2>2
  <2>4. CASE at = Leaf /\ \A k \in Offsets : e[k].len = d[k].len
    BY <1>5, <1>10, <2>2, <2>3, <2>4
  <2>5. ASSUME NEW b \in Marks(d), Leaf <= b, b < at, b + d[b].len = at,
               e[b].len = d[b].len + d[at].len, \A k \in Offsets \ {b} : e[k].len = d[k].len
        PROVE  o + e[o].len \in Marks(e) \cup {Term}
    <3>1. CASE o = b
      <4>1. b + e[b].len = at + d[at].len
        BY <1>12, <2>5
      <4>2. at + d[at].len # at
        BY <1>2, <1>3, <1>8
      <4> QED BY <1>2, <1>5, <1>10, <3>1, <4>1, <4>2 DEF Marks
    <3>2. CASE o # b
      <4>1. o + d[o].len # at
        BY <1>12, <2>2, <2>5, <3>2
      <4> QED BY <1>5, <1>10, <2>2, <2>5, <3>2, <4>1
    <3> QED BY <3>1, <3>2
  <2> QED BY <1>13, <2>3, <2>4, <2>5
<1>18. Roomy(e)
  <2>1. SUFFICES ASSUME NEW o \in Live(e), o > 1
                 PROVE  /\ e[o].name \in Names /\ Size[e[o].name] <= e[o].len
                        /\ \A k \in Offsets :
                              o < k /\ k < o + Size[e[o].name] => e[k].kind = "torn"
    BY DEF Roomy
  <2>2. o \in Live(d) /\ o \in Offsets /\ e[o].name = d[o].name /\ d[o].kind # "torn"
    BY <1>1, <1>3, <1>4, <1>9 DEF Marks
  <2>3. /\ d[o].name \in Names /\ Size[d[o].name] <= d[o].len /\ Size[d[o].name] \in Nat
        /\ \A k \in Offsets : o < k /\ k < o + Size[d[o].name] => d[k].kind = "torn"
    BY <2>1, <2>2, SizeIs DEF WellFormed, Roomy
  <2>4. d[o].len \in Nat /\ d[o].len <= e[o].len /\ e[o].len \in Nat
    BY <1>1, <1>7, <1>8, <1>14, <2>2, SlotFacts
  <2>5. \A k \in Offsets : d[k].kind = "torn" => e[k].kind = "torn"
    BY <1>7
  <2> QED BY <2>2, <2>3, <2>4, <2>5
<1>19. Distinct(e)
  BY <1>1, <1>3, <1>4 DEF WellFormed, Distinct
<1>20. ASSUME NEW P, Sound(d, P) PROVE Sound(e, P)
  <2>1. P \subseteq 0..Term /\ Marks(e) \cup {Term} \subseteq P /\ at \in P
    BY <1>2, <1>5, <1>20 DEF Sound, Marks
  <2>2. ASSUME NEW o \in P \ {Term}
        PROVE  e[o].kind # "torn" /\ o + e[o].len \in P /\ Clear(e, o)
    <3>1. o \in Offsets /\ d[o].kind # "torn" /\ o + d[o].len \in P /\ Clear(d, o)
      BY <1>20, <2>2, Bounds DEF Sound
    <3>2. o + e[o].len \in P
      <4>1. CASE e[o].len = d[o].len
        BY <3>1, <4>1
      <4>2. CASE /\ o \in Marks(d) /\ Leaf <= o /\ o < at /\ o + d[o].len = at
                 /\ e[o].len = d[o].len + d[at].len
        <5>1. o + e[o].len = at + d[at].len
          BY <1>12, <4>2
        <5>2. at # Term
          BY <1>2, Bounds
        <5> QED BY <1>20, <2>1, <5>1, <5>2 DEF Sound
      <4> QED BY <1>13, <3>1, <4>1, <4>2
    <3> QED BY <1>7, <1>14, <3>1, <3>2
  <2> QED BY <2>1, <2>2 DEF Sound
<1> QED BY <1>1, <1>4, <1>6, <1>15, <1>16, <1>17, <1>18, <1>19, <1>20 DEF WellFormed

-----------------------------------------------------------------------------
(* Writing an entry.                                                        *)

\* The bytes of an entry behind its beginning.
Covered(q, n) == {o \in Offsets : q < o /\ o < q + Size[n]}

\* The new entry is at q, in the room of the entry f; nothing else changes but
\* the bytes the new one covers.
Wrote(d, e, n, f, q) ==
    /\ f \in Marks(d) /\ Leaf <= f /\ q \in Offsets
    /\ e \in Directory
    /\ e[q].kind = "live" /\ e[q].name = n /\ Size[n] <= e[q].len
    /\ q + e[q].len = f + d[f].len
    /\ \A o \in Offsets \ {f, q} : e[o] = IF o \in Covered(q, n) THEN Torn ELSE d[o]
    /\ f \notin Covered(q, n)
    /\ \/ q = f /\ d[f].kind = "dead"
       \/ /\ d[f].kind = "live" /\ e[f].kind = "live" /\ e[f].name = d[f].name
          /\ e[f].len = Size[d[f].name] /\ q = f + Size[d[f].name]

LEMMA WriteIs ==
    ASSUME NEW d \in Directory, NEW q \in Offsets, NEW n \in Names, NEW l \in 1..Units
    PROVE  /\ Write(d, q, n, l) \in Directory
           /\ Write(d, q, n, l)[q] = Entry("live", n, l)
           /\ \A o \in Offsets \ {q} :
                 Write(d, q, n, l)[o] = IF o \in Covered(q, n) THEN Torn ELSE d[o]
<1>1. Entry("live", n, l) \in Slots /\ Torn \in Slots
  BY DEF Slots, Entry, Torn
<1>2. \A o \in Offsets : d[o] \in Slots
  BY DEF Directory
<1> QED BY <1>1, <1>2 DEF Write, Covered, Directory

LEMMA InsertIs ==
    ASSUME NEW d, WellFormed(d), NEW n \in Names, Fitting(d, n) # {}
    PROVE  \E f, q \in Offsets : Wrote(d, Insert(d, n), n, f, q)
<1> DEFINE f == CHOOSE o \in Fitting(d, n) : \A p \in Fitting(d, n) : o <= p
<1>1. /\ Chain(d) \subseteq Marks(d) /\ Marks(d) \subseteq Offsets /\ Offsets \subseteq Nat
      /\ \A o \in Chain(d) : Leaf <= o
  BY LiveFacts, Bounds DEF Chain, Marks
<1>2. Fitting(d, n) \subseteq Chain(d) /\ Fitting(d, n) \subseteq Nat
  BY <1>1 DEF Fitting
<1>3. f \in Fitting(d, n)
  BY <1>2, LeastNumber
<1> HIDE DEF f
<1>4. f \in Marks(d) /\ f \in Offsets /\ Leaf <= f /\ f \in Nat /\ Slack(d, f) >= Size[n]
  BY <1>1, <1>2, <1>3 DEF Fitting
<1>5. d \in Directory /\ d[f].kind \in {"live", "dead"} /\ d[f].len \in 1..Units /\ f + d[f].len <= Term
  <2>1. d[f].kind # "torn"
    BY <1>4, SlotFacts DEF WellFormed, Rooted, Marks
  <2> QED BY <1>4, <2>1, SlotFacts DEF WellFormed, Inside
<1>6. Size[n] \in Nat /\ Size[n] > 0
  BY SizeIs
<1>7. CASE d[f].kind = "dead"
  <2>1. Insert(d, n) = Write(d, f, n, d[f].len)
    BY <1>7 DEF Insert, f
  <2>2. Size[n] <= d[f].len
    BY <1>4, <1>5, <1>6, <1>7 DEF Slack
  <2>3. /\ Insert(d, n) \in Directory
        /\ Insert(d, n)[f] = Entry("live", n, d[f].len)
        /\ \A o \in Offsets \ {f} :
              Insert(d, n)[o] = IF o \in Covered(f, n) THEN Torn ELSE d[o]
    BY <1>4, <1>5, <2>1, WriteIs
  <2>4. f \notin Covered(f, n)
    BY <1>4 DEF Covered
  <2>5. Wrote(d, Insert(d, n), n, f, f)
    BY <1>4, <1>7, <2>2, <2>3, <2>4 DEF Wrote, Entry
  <2> QED BY <1>4, <2>5
<1>8. CASE d[f].kind = "live"
  <2> DEFINE used == Size[d[f].name]
  <2> DEFINE cut == [d EXCEPT ![f].len = used]
  <2>1. used \in Nat /\ used > 0 /\ used <= d[f].len
    <3>1. f > 1 /\ f \in Live(d)
      BY <1>4, <1>8, Bounds DEF Live
    <3> QED BY <3>1, SizeIs DEF WellFormed, Roomy
  <2>2. Slack(d, f) = d[f].len - used
    BY <1>8 DEF Slack
  <2>3. Insert(d, n) = Write(cut, f + used, n, Slack(d, f))
    BY <1>8 DEF Insert, f
  <2>4. cut \in Directory /\ cut[f] = [d[f] EXCEPT !.len = used]
        /\ \A o \in Offsets \ {f} : cut[o] = d[o]
    <3>1. d[f] \in [kind : {"live", "dead"}, name : Names \cup Dots, len : 1..Units]
      BY <1>4, <1>5, SlotFacts DEF Slots, Entry
    <3>2. used \in 1..Units
      BY <1>5, <2>1, Bounds
    <3> HIDE DEF used
    <3>3. [d[f] EXCEPT !.len = used] \in Slots
      BY <3>1, <3>2 DEF Slots
    <3> QED BY <1>4, <1>5, <3>3 DEF Directory
  <2>5. cut[f].kind = "live" /\ cut[f].name = d[f].name /\ cut[f].len = used
    <3>1. d[f] \in [kind : {"live", "dead"}, name : Names \cup Dots, len : 1..Units]
      BY <1>4, <1>5, SlotFacts DEF Slots, Entry
    <3> HIDE DEF used, cut
    <3> QED BY <1>8, <2>4, <3>1
  <2> HIDE DEF cut, used
  <2> DEFINE q == f + used
  <2> DEFINE l == d[f].len - used
  <2>6. l \in 1..Units /\ Size[n] <= l /\ q + l = f + d[f].len /\ q \in Offsets /\ q # f
        /\ q + l <= Term
    BY <1>4, <1>5, <1>6, <2>1, <2>2, Bounds
  <2> HIDE DEF q, l
  <2>7. Insert(d, n) = Write(cut, q, n, l)
    BY <2>2, <2>3 DEF q, l
  <2>8. /\ Insert(d, n) \in Directory
        /\ Insert(d, n)[q] = Entry("live", n, l)
        /\ \A o \in Offsets \ {q} :
              Insert(d, n)[o] = IF o \in Covered(q, n) THEN Torn ELSE cut[o]
    BY <2>4, <2>6, <2>7, WriteIs
  <2>9. Insert(d, n)[f] = cut[f] /\ f \notin Covered(q, n)
    <3>1. f \notin Covered(q, n)
      BY <1>4, <2>1 DEF q, Covered
    <3> QED BY <1>4, <2>6, <2>8, <3>1
  <2>10. Wrote(d, Insert(d, n), n, f, q)
    <3>1. /\ f \in Marks(d) /\ Leaf <= f /\ q \in Offsets /\ Insert(d, n) \in Directory
          /\ \A o \in Offsets \ {f, q} :
                Insert(d, n)[o] = IF o \in Covered(q, n) THEN Torn ELSE d[o]
      BY <1>4, <2>4, <2>6, <2>8
    <3>2. /\ Insert(d, n)[q].kind = "live" /\ Insert(d, n)[q].name = n
          /\ Insert(d, n)[q].len = l
      BY <2>8 DEF Entry
    <3>3. q = f + Size[d[f].name] /\ cut[f].len = Size[d[f].name]
      BY <2>5 DEF q, used
    <3> QED BY <1>8, <2>5, <2>6, <2>9, <3>1, <3>2, <3>3 DEF Wrote
  <2> QED BY <1>4, <2>6, <2>10
<1> QED BY <1>5, <1>7, <1>8

\* A directory to which an entry is written stays well formed.
LEMMA Inserted ==
    ASSUME NEW d, WellFormed(d), NEW n \in Names, n \notin NamesOf(d),
           NEW e, NEW f \in Offsets, NEW q \in Offsets, Wrote(d, e, n, f, q)
    PROVE  /\ WellFormed(e)
           /\ Live(e) = Live(d) \cup {q} /\ q \notin Live(d)
           /\ \A o \in Live(d) : e[o].name = d[o].name
           /\ NamesOf(e) = NamesOf(d) \cup {n}
           /\ NoneTorn(d, e) =>
                 /\ \A o \in Offsets \ {q} : e[o].kind = d[o].kind /\ e[o].name = d[o].name
                 /\ \A P : Sound(d, P) => Sound(e, P \cup {q})
<1>1. /\ f \in Marks(d) /\ Leaf <= f /\ e \in Directory /\ d \in Directory
      /\ e[q].kind = "live" /\ e[q].name = n /\ Size[n] <= e[q].len
      /\ Size[n] \in Nat /\ Size[n] > 0
      /\ q + e[q].len = f + d[f].len
      /\ \A o \in Offsets \ {f, q} : e[o] = IF o \in Covered(q, n) THEN Torn ELSE d[o]
      /\ f \notin Covered(q, n) /\ Torn.kind = "torn"
  BY SizeIs DEF Wrote, WellFormed, Torn, Entry
<1>2. \/ q = f /\ d[f].kind = "dead"
      \/ /\ d[f].kind = "live" /\ e[f].kind = "live" /\ e[f].name = d[f].name
         /\ e[f].len = Size[d[f].name] /\ q = f + Size[d[f].name]
  BY DEF Wrote
<1>3. /\ Live(d) \subseteq Offsets /\ Marks(d) \subseteq Offsets /\ \A o \in Offsets : o \in Nat
      /\ \A o \in Offsets : o < Term
      /\ f \in Nat /\ q \in Nat
  BY LiveFacts, Bounds
<1>4. \A o \in Offsets : d[o].kind # "torn" => d[o].len \in 1..Units /\ o + d[o].len <= Term
  BY <1>1, SlotFacts DEF WellFormed, Inside
<1>5. \A o \in Marks(d) : d[o].kind # "torn"
  BY <1>1, <1>3, SlotFacts DEF WellFormed, Rooted, Marks
<1>6. \A o \in Marks(d) : o + d[o].len \in Marks(d) \cup {Term} /\ Clear(d, o)
  BY DEF WellFormed, Linked
<1>7. \A o \in Live(d) : o > 1 =>
        /\ d[o].name \in Names /\ Size[d[o].name] <= d[o].len
        /\ Size[d[o].name] \in Nat /\ Size[d[o].name] > 0
        /\ \A k \in Offsets : o < k /\ k < o + Size[d[o].name] => d[k].kind = "torn"
  BY SizeIs DEF WellFormed, Roomy
<1>8. d[f].len \in 1..Units /\ f + d[f].len <= Term /\ f > 1 /\ e[q].len \in 1..Units
  BY <1>1, <1>3, <1>4, <1>5, SlotFacts, Bounds
\* The room between f and where its length leads has no entry.
<1>9. /\ f <= q /\ q < f + d[f].len
      /\ \A o \in Covered(q, n) : o \in Offsets /\ f < o /\ o < f + d[f].len
      /\ q = f => d[f].kind = "dead"
  <2>1. d[f].kind = "live" => Size[d[f].name] \in Nat /\ Size[d[f].name] > 0
    BY <1>7, <1>8 DEF Live
  <2>2. f <= q /\ (q = f => d[f].kind = "dead")
    BY <1>2, <1>3, <2>1
  <2>3. ASSUME NEW o \in Covered(q, n) PROVE o \in Offsets /\ f < o /\ o < f + d[f].len
    <3>1. o \in Nat /\ o \in Offsets /\ q < o /\ o < q + Size[n]
      BY <1>3 DEF Covered
    <3>2. f < o
      BY <1>3, <2>2, <3>1
    <3>3. e[q].len \in Nat /\ d[f].len \in Nat
      BY <1>8
    <3>4. o < q + e[q].len
      BY <1>1, <1>3, <3>1, <3>3
    <3> QED BY <1>1, <3>1, <3>2, <3>4
  <2> QED BY <1>1, <1>3, <1>8, <2>2, <2>3
<1>10. ASSUME NEW o \in Offsets, f < o, o < f + d[f].len
       PROVE  o \notin Marks(d) /\ o \notin Live(d)
  BY <1>1, <1>6, <1>10 DEF Clear, Marks
<1>11. q # f => f < q /\ q \notin Marks(d) /\ d[f].kind = "live"
  <2>1. q # f => f < q
    BY <1>3, <1>9
  <2> QED BY <1>2, <1>9, <1>10, <2>1
<1>12. q \notin Live(d)
  <2>1. CASE q = f
    BY <1>9, <2>1 DEF Live
  <2>2. CASE q # f
    BY <1>11, <2>2 DEF Marks
  <2> QED BY <2>1, <2>2
<1>13. \A o \in Marks(d) \ {f, q} : e[o] = d[o]
  <2>1. ASSUME NEW o \in Covered(q, n) PROVE o \notin Marks(d)
    BY <1>9, <1>10
  <2> QED BY <1>1, <1>3, <2>1
<1>14. Live(e) = Live(d) \cup {q}
  <2>1. ASSUME NEW o \in Offsets, o # q PROVE e[o].kind = "live" <=> d[o].kind = "live"
    <3>1. CASE o = f
      BY <1>2, <2>1, <3>1
    <3>2. CASE o # f /\ o \in Covered(q, n)
      <4>1. f < o /\ o < f + d[f].len
        BY <1>9, <3>2
      <4>2. o \notin Live(d)
        BY <1>10, <2>1, <4>1
      <4> QED BY <1>1, <2>1, <3>2, <4>2 DEF Live
    <3> QED BY <1>1, <2>1, <3>1, <3>2
  <2> QED BY <1>1, <2>1 DEF Live
<1>15. Marks(e) = Marks(d) \cup {q}
  BY <1>14 DEF Marks
<1>16. \A o \in Live(d) : e[o].name = d[o].name
  <2>1. ASSUME NEW o \in Live(d) PROVE e[o].name = d[o].name
    <3>1. o \in Marks(d) /\ o # q
      BY <1>12 DEF Marks
    <3>2. CASE o = f
      BY <1>2, <3>1, <3>2
    <3>3. CASE o # f
      BY <1>13, <3>1, <3>3
    <3> QED BY <3>2, <3>3
  <2> QED BY <2>1
<1>17. NamesOf(e) = NamesOf(d) \cup {n}
  BY <1>1, <1>14, <1>16 DEF NamesOf
\* Where lengths lead.
<1>18. q # f => f + e[f].len = q
  BY <1>2, <1>11
<1>19. Clear(e, q)
  <2>1. ASSUME NEW p \in Marks(e), q < p, p < q + e[q].len PROVE FALSE
    <3>1. p \in Marks(d) /\ p \in Offsets /\ p \in Nat
      <4>1. p # q
        BY <1>3, <2>1
      <4>2. p \in Marks(d)
        BY <1>15, <4>1
      <4> QED BY <1>3, <4>2
    <3>2. f < p /\ p < f + d[f].len
      BY <1>1, <1>3, <1>9, <2>1, <3>1
    <3> QED BY <1>10, <3>1, <3>2
  <2> QED BY <2>1 DEF Clear
<1>20. Clear(e, f)
  <2>1. CASE q = f
    BY <1>19, <2>1
  <2>2. CASE q # f
    <3>1. ASSUME NEW p \in Marks(e), f < p, p < f + e[f].len PROVE FALSE
      <4>1. p < q /\ p # q
        BY <1>3, <1>18, <2>2, <3>1
      <4>2. p \in Marks(d)
        BY <1>15, <3>1, <4>1
      <4>3. p \in Offsets /\ p \in Nat
        BY <1>3, <4>2
      <4>4. p < f + d[f].len
        BY <1>3, <1>8, <1>9, <4>1, <4>3
      <4> QED BY <1>10, <3>1, <4>2, <4>3, <4>4
    <3> QED BY <3>1 DEF Clear
  <2> QED BY <2>1, <2>2
\* The new entry is in the way of no other.
<1>21. ASSUME NEW o \in Offsets, d[o].kind # "torn", Clear(d, o), o # f, o # q, e[o] = d[o],
              o < f \/ q <= o \/ o \in Marks(d)
       PROVE  Clear(e, o)
  <2>1. o \in Nat /\ d[o].len \in 1..Units
    BY <1>3, <1>4, <1>21
  <2>2. ASSUME o < q, q < o + d[o].len PROVE FALSE
    <3>1. CASE q = f
      BY <1>1, <1>21, <2>2, <3>1 DEF Clear
    <3>2. CASE q # f /\ o < f
      <4>1. f < o + d[o].len
        BY <1>3, <1>8, <1>9, <2>1, <2>2
      <4> QED BY <1>1, <1>21, <3>2, <4>1 DEF Clear
    <3>3. CASE q # f /\ ~(o < f)
      <4>1. f < o /\ o < f + d[f].len
        BY <1>3, <1>8, <1>9, <1>21, <2>1, <2>2, <3>3
      <4>2. o \in Marks(d)
        BY <1>3, <1>21, <2>1, <2>2, <3>3
      <4> QED BY <1>10, <4>1, <4>2
    <3> QED BY <3>1, <3>2, <3>3
  <2>3. ASSUME NEW p \in Marks(e), o < p, p < o + e[o].len PROVE FALSE
    <3>1. p # q
      BY <1>21, <2>2, <2>3
    <3>2. p \in Marks(d)
      BY <1>15, <2>3, <3>1
    <3> QED BY <1>21, <2>3, <3>2 DEF Clear
  <2> QED BY <2>3 DEF Clear
<1>22. Inside(e)
  <2>1. SUFFICES ASSUME NEW o \in Offsets, e[o].kind # "torn" PROVE o + e[o].len <= Term
    BY DEF Inside
  <2>2. CASE o = q
    BY <1>1, <1>8, <2>2
  <2>3. CASE o = f /\ o # q
    <3>1. o + e[o].len = q
      BY <1>18, <2>3
    <3> QED BY <1>3, <3>1, Bounds
  <2>4. CASE o # f /\ o # q
    <3>1. e[o] = d[o]
      BY <1>1, <2>1, <2>4
    <3> QED BY <1>4, <2>1, <3>1
  <2> QED BY <2>2, <2>3, <2>4
<1>23. Rooted(e)
  <2>1. \A o \in {0, 1} : o \in Live(d) /\ o \in Marks(d) /\ o # f /\ o # q
    BY <1>3, <1>8, <1>9 DEF WellFormed, Rooted, Marks
  <2>2. Leaf \in Marks(e) /\ Leaf \in Marks(d)
    BY <1>15 DEF Marks
  <2>3. e[Leaf].kind # "torn"
    <3>1. CASE Leaf = q
      BY <1>1, <3>1
    <3>2. CASE Leaf # q /\ Leaf = f
      BY <1>2, <1>11, <3>2
    <3>3. CASE Leaf # q /\ Leaf # f
      BY <1>5, <1>13, <2>2, <3>3
    <3> QED BY <3>1, <3>2, <3>3
  <2> QED BY <1>13, <1>14, <2>1, <2>3 DEF WellFormed, Rooted
<1>24. Linked(e)
  <2>1. SUFFICES ASSUME NEW o \in Marks(e)
                 PROVE  o + e[o].len \in Marks(e) \cup {Term} /\ Clear(e, o)
    BY DEF Linked
  <2>2. CASE o = q
    BY <1>1, <1>6, <1>15, <1>19, <2>2
  <2>3. CASE o = f /\ o # q
    BY <1>15, <1>18, <1>20, <2>3
  <2>4. CASE o # f /\ o # q
    <3>1. o \in Marks(d) /\ o \in Offsets /\ e[o] = d[o]
      BY <1>3, <1>13, <1>15, <2>1, <2>4
    <3>2. Clear(e, o)
      BY <1>5, <1>6, <1>21, <2>4, <3>1
    <3> QED BY <1>6, <1>15, <3>1, <3>2
  <2> QED BY <2>2, <2>3, <2>4
<1>25. Roomy(e)
  <2>1. SUFFICES ASSUME NEW o \in Live(e), o > 1
                 PROVE  /\ e[o].name \in Names /\ Size[e[o].name] <= e[o].len
                        /\ \A k \in Offsets :
                              o < k /\ k < o + Size[e[o].name] => e[k].kind = "torn"
    BY DEF Roomy
  <2>2. CASE o = q
    <3>1. ASSUME NEW k \in Offsets, q < k, k < q + Size[n] PROVE e[k].kind = "torn"
      <4>1. k \in Covered(q, n) /\ k # q
        BY <1>3, <3>1 DEF Covered
      <4> QED BY <1>1, <4>1
    <3> QED BY <1>1, <2>2, <3>1
  <2>3. CASE o # q
    <3>1. o \in Live(d) /\ o \in Marks(d) /\ o \in Offsets /\ o \in Nat /\ e[o].name = d[o].name
      BY <1>3, <1>14, <1>16, <2>1, <2>3 DEF Marks
    <3>2. /\ d[o].name \in Names /\ Size[d[o].name] <= d[o].len
          /\ Size[d[o].name] \in Nat /\ Size[d[o].name] > 0
          /\ \A k \in Offsets : o < k /\ k < o + Size[d[o].name] => d[k].kind = "torn"
      BY <1>7, <2>1, <3>1
    <3>3. Size[d[o].name] <= e[o].len
      <4>1. CASE o = f
        BY <1>2, <1>11, <2>3, <3>2, <4>1
      <4>2. CASE o # f
        BY <1>13, <2>3, <3>1, <3>2, <4>2
      <4> QED BY <4>1, <4>2
    <3>4. ASSUME NEW k \in Offsets, o < k, k < o + Size[d[o].name] PROVE e[k].kind = "torn"
      <4>1. d[k].kind = "torn" /\ k \in Nat
        BY <1>3, <3>2, <3>4
      <4>2. k # f
        BY <1>1, <1>5, <4>1
      <4>3. k # q
        <5>1. ASSUME k = q PROVE FALSE
          <6>1. q # f
            BY <4>2, <5>1
          <6>2. CASE o = f
            BY <1>2, <1>11, <3>1, <3>4, <5>1, <6>1, <6>2
          <6>3. CASE o # f
            <7>1. Clear(e, o) /\ e[o] = d[o]
              BY <1>5, <1>6, <1>13, <1>21, <2>3, <3>1, <6>3
            <7>2. o < q /\ q < o + e[o].len /\ q \in Marks(e)
              <8>1. d[o].len \in 1..Units
                BY <1>4, <1>5, <3>1
              <8>2. k < o + d[o].len
                BY <3>1, <3>2, <3>4, <4>1, <8>1
              <8> QED BY <1>15, <3>4, <5>1, <7>1, <8>2
            <7> QED BY <7>1, <7>2 DEF Clear
          <6> QED BY <6>2, <6>3
        <5> QED BY <5>1
      <4> QED BY <1>1, <4>1, <4>2, <4>3
    <3> QED BY <3>1, <3>2, <3>3, <3>4
  <2> QED BY <2>2, <2>3
<1>26. Distinct(e)
  <2>1. SUFFICES ASSUME NEW o \in Live(e), NEW p \in Live(e), e[o].name = e[p].name
                 PROVE  o = p
    BY DEF Distinct
  <2>2. \A k \in Live(d) : e[k].name # n
    BY <1>16 DEF NamesOf
  <2> QED BY <1>1, <1>14, <1>16, <2>1, <2>2 DEF WellFormed, Distinct
<1>27. WellFormed(e)
  BY <1>1, <1>22, <1>23, <1>24, <1>25, <1>26 DEF WellFormed
\* Where nothing was torn, the entry covers what no one reads.
<1>28. ASSUME NoneTorn(d, e), NEW o \in Offsets \ {f, q} PROVE e[o] = d[o]
  <2>1. CASE o \in Covered(q, n)
    <3>1. e[o].kind = "torn" /\ e[o] = Torn
      BY <1>1, <1>28, <2>1
    <3>2. d[o].kind = "torn"
      BY <1>28, <3>1 DEF NoneTorn
    <3> QED BY <1>1, <3>1, <3>2, SlotFacts
  <2> QED BY <1>1, <1>28, <2>1
<1>29. ASSUME NoneTorn(d, e), NEW o \in Offsets \ {q}
       PROVE  e[o].kind = d[o].kind /\ e[o].name = d[o].name
  <2>1. CASE o = f
    BY <1>2, <1>11, <1>29, <2>1
  <2>2. CASE o # f
    BY <1>28, <1>29, <2>2
  <2> QED BY <2>1, <2>2
<1>30. ASSUME NoneTorn(d, e), NEW P, Sound(d, P) PROVE Sound(e, P \cup {q})
  <2>1. P \subseteq 0..Term /\ Marks(d) \cup {Term} \subseteq P
        /\ \A o \in P \ {Term} : d[o].kind # "torn" /\ o + d[o].len \in P /\ Clear(d, o)
    BY <1>30 DEF Sound
  <2>2. P \cup {q} \subseteq 0..Term /\ Marks(e) \cup {Term} \subseteq P \cup {q}
    BY <1>15, <2>1, Bounds
  <2>3. f \in P /\ f # Term /\ f + d[f].len \in P
    BY <1>1, <2>1, Bounds
  <2>4. ASSUME NEW o \in (P \cup {q}) \ {Term}
        PROVE  e[o].kind # "torn" /\ o + e[o].len \in P \cup {q} /\ Clear(e, o)
    <3>1. CASE o = q
      BY <1>1, <1>19, <2>3, <3>1
    <3>2. CASE o = f /\ o # q
      BY <1>2, <1>18, <1>20, <3>2
    <3>3. CASE o # f /\ o # q
      <4>1. o \in P /\ o \in Offsets /\ d[o].kind # "torn" /\ o + d[o].len \in P /\ Clear(d, o)
        BY <2>1, <2>4, <3>3, Bounds
      <4>2. e[o] = d[o]
        BY <1>28, <1>30, <3>3, <4>1
      <4>3. o < f \/ q <= o \/ o \in Marks(d)
        <5>1. SUFFICES ASSUME f < o, o < q PROVE FALSE
          BY <1>3, <3>3, <4>1
        <5>2. o \in Nat /\ q # f
          BY <1>3, <4>1, <5>1
        <5>3. q = f + Size[d[f].name] /\ f \in Live(d)
          BY <1>2, <5>2 DEF Live
        <5>4. \A k \in Offsets : f < k /\ k < f + Size[d[f].name] => d[k].kind = "torn"
          BY <1>7, <1>8, <5>3
        <5> QED BY <4>1, <5>1, <5>3, <5>4
      <4> QED BY <1>21, <3>3, <4>1, <4>2, <4>3
    <3> QED BY <3>1, <3>2, <3>3
  <2> QED BY <2>2, <2>4 DEF Sound
<1> QED BY <1>12, <1>14, <1>16, <1>17, <1>27, <1>29, <1>30

-----------------------------------------------------------------------------
(* The handle.                                                              *)

LEMMA NamesDiffer ==
    NoName \notin Names \cup Dots \cup {"garbled"} /\ Names \cap Dots = {}
  BY SizeAssumption DEF NoName, Dots

LEMMA DirNextIs ==
    ASSUME WellFormed(dir), NEW c \in 0..Term, NEW r \in DirNext(c)
    PROVE  \/ r.name = NoName /\ r.cursor = c
           \/ /\ c \in Offsets /\ r.name = dir[c].name /\ r.name # NoName
              /\ r.cursor \in 0..Term /\ c < r.cursor
              /\ r.cursor \in After(dir, c) \/ (Fails /\ r.cursor = Term)
<1>1. CASE c = Term
  BY <1>1 DEF DirNext
<1>2. CASE c # Term
  <2>1. c \in Offsets /\ c \in Nat /\ c < Term /\ dir \in Directory /\ Inside(dir) /\ Term \in 0..Term
    BY <1>2, Bounds DEF WellFormed
  <2>2. dir[c].name \in Names \cup Dots \cup {"garbled"}
    BY <2>1, SlotFacts DEF Torn, Entry
  <2>3. \A p \in After(dir, c) : p \in 0..Term /\ c < p
    BY <2>1, AfterForward
  <2>4. \/ r = [name |-> NoName, cursor |-> c]
        \/ \E p \in After(dir, c) : r = [name |-> dir[c].name, cursor |-> p]
        \/ Fails /\ r = [name |-> dir[c].name, cursor |-> Term]
    BY <1>2 DEF DirNext
  <2> QED BY <2>1, <2>2, <2>3, <2>4, NamesDiffer
<1> QED BY <1>1, <1>2

\* So many reads lead at least so far.
LEMMA ReadsForward ==
    ASSUME WellFormed(dir), NEW c \in 0..Term
    PROVE  /\ Reads(c) \subseteq c..Term
           /\ \A p \in Reads(c) : Cardinality({q \in Reads(c) : q < p}) \in 0..(p - c)
<1>1. Path(dir, c) \in SUBSET (c..Term)
  BY PathIs DEF WellFormed
<1>2. Reads(c) \subseteq c..Term
  <2>1. ASSUME NEW p \in Astray(dir, c) PROVE p \in c..Term
    <3>1. PICK q \in TornOn(dir, c) : q <= p
      BY DEF Astray
    <3>2. p \in Offsets /\ q \in c..Term
      BY <1>1 DEF Astray, TornOn
    <3> QED BY <3>1, <3>2, Bounds
  <2> QED BY <1>1, <2>1, Bounds DEF Reads
<1>3. ASSUME NEW p \in Reads(c) PROVE Cardinality({q \in Reads(c) : q < p}) \in 0..(p - c)
  <2> DEFINE before == {q \in Reads(c) : q < p}
  <2>1. c \in Nat /\ p \in Nat /\ c <= p
    BY <1>2, <1>3, Bounds
  <2>2. before \subseteq c..(p - 1)
    BY <1>2, <2>1, Bounds
  <2>3. IsFiniteSet(c..(p - 1)) /\ Cardinality(c..(p - 1)) <= p - c
    <3>1. c \in Int /\ p - 1 \in Int
      BY <2>1
    <3>2. /\ IsFiniteSet(c..(p - 1))
          /\ Cardinality(c..(p - 1)) = IF c > p - 1 THEN 0 ELSE (p - 1) - c + 1
      BY <3>1, FS_Interval
    <3> QED BY <2>1, <3>2
  <2> HIDE DEF before
  <2>4. IsFiniteSet(before) /\ Cardinality(before) <= Cardinality(c..(p - 1))
    BY <2>2, <2>3, FS_Subset
  <2>5. Cardinality(before) \in Nat /\ Cardinality(c..(p - 1)) \in Nat
    BY <2>3, <2>4, FS_CardinalityType
  <2>6. Cardinality(before) \in 0..(p - c)
    BY <2>1, <2>3, <2>4, <2>5
  <2> QED BY <2>6 DEF before
<1> QED BY <1>2, <1>3

LEMMA PassedIs ==
    ASSUME WellFormed(dir), NEW c \in 0..Term, NEW n, NEW p \in Passed(c, n)
    PROVE  /\ p.cursor \in Reads(c) \cup {Term} /\ p.cursor \in 0..Term
           /\ p.count \in Nat /\ c + p.count <= p.cursor
<1> DEFINE count(q) == Cardinality({k \in Reads(c) : k < q})
<1>1. \A q \in Reads(c) : q \in Nat /\ c <= q /\ q <= Term /\ count(q) \in 0..(q - c)
  BY ReadsForward, Bounds
<1>2. \/ /\ \E q \in Reads(c), k \in 0..n : p = [cursor |-> q, count |-> k]
         /\ p \in [cursor : c..Term, count : 0..Term] /\ c + p.count <= p.cursor
      \/ \E q \in Reads(c) : p = [cursor |-> q, count |-> count(q)]
      \/ \E q \in Reads(c) : /\ ~(\A k \in Reads(c) : k <= q)
                             /\ p = [cursor |-> Term, count |-> count(q) + 1]
  <2>1. CASE c # Term /\ TornOn(dir, c) # {}
    <3>1. p \in {[cursor |-> q, count |-> k] : q \in Reads(c), k \in 0..n}
               \cap {r \in [cursor : c..Term, count : 0..Term] :
                         c + r.count <= r.cursor /\ (r.count = 0 <=> r.cursor = c)}
      BY <2>1 DEF Passed
    <3> QED BY <3>1
  <2>2. CASE ~(c # Term /\ TornOn(dir, c) # {})
    <3> DEFINE at(q) == [cursor |-> q, count |-> count(q)]
    <3> DEFINE ends == {q \in Reads(c) : \A k \in Reads(c) : k <= q}
    <3>1. p \in {at(q) : q \in {q \in Reads(c) :
                        at(q).count = n \/ (at(q).count < n /\ (Fails \/ q \in ends))}}
                \cup {[cursor |-> Term, count |-> at(q).count + 1] :
                        q \in {q \in Reads(c) \ ends : at(q).count < n /\ Fails}}
      <4>1. Passed(c, n) = IF c # Term /\ TornOn(dir, c) # {}
              THEN {[cursor |-> q, count |-> k] : q \in Reads(c), k \in 0..n}
                   \cap {r \in [cursor : c..Term, count : 0..Term] :
                             c + r.count <= r.cursor /\ (r.count = 0 <=> r.cursor = c)}
              ELSE {at(q) : q \in {q \in Reads(c) :
                        at(q).count = n \/ (at(q).count < n /\ (Fails \/ q \in ends))}}
                   \cup {[cursor |-> Term, count |-> at(q).count + 1] :
                        q \in {q \in Reads(c) \ ends : at(q).count < n /\ Fails}}
        BY DEF Passed
      <4> HIDE DEF at, ends
      <4> QED BY <2>2, <4>1
    <3>2. \/ \E q \in Reads(c) : p = at(q)
          \/ \E q \in Reads(c) \ ends : p = [cursor |-> Term, count |-> at(q).count + 1]
      BY <3>1
    <3> QED BY <3>2
  <2> QED BY <2>1, <2>2
<1> HIDE DEF count
<1>3. CASE \E q \in Reads(c) : p = [cursor |-> q, count |-> count(q)]
  BY <1>1, <1>3, Bounds
<1>4. ASSUME NEW q \in Reads(c), ~(\A k \in Reads(c) : k <= q),
             p = [cursor |-> Term, count |-> count(q) + 1]
      PROVE  /\ p.cursor \in Reads(c) \cup {Term} /\ p.cursor \in 0..Term
             /\ p.count \in Nat /\ c + p.count <= p.cursor
  <2>1. PICK k \in Reads(c) : ~(k <= q)
    BY <1>4
  <2>2. q \in Nat /\ k \in Nat /\ q < k /\ k <= Term /\ c <= q /\ count(q) \in 0..(q - c)
        /\ Term \in Nat /\ c \in Nat
    BY <1>1, <2>1, Bounds
  <2>3. count(q) + 1 \in Nat /\ c + (count(q) + 1) <= Term
    BY <2>2
  <2> QED BY <1>4, <2>3, Bounds
<1>5. CASE /\ \E q \in Reads(c), k \in 0..n : p = [cursor |-> q, count |-> k]
           /\ p \in [cursor : c..Term, count : 0..Term] /\ c + p.count <= p.cursor
  <2>1. p.cursor \in Reads(c)
    BY <1>5
  <2>2. p.count \in 0..Term /\ c + p.count <= p.cursor
    BY <1>5
  <2> QED BY <1>1, <2>1, <2>2, Bounds
<1> QED BY <1>2, <1>3, <1>4, <1>5

-----------------------------------------------------------------------------
(* Every variable keeps its type.                                           *)
LEMMA InitInv == Init => IInv
<1> SUFFICES ASSUME Init PROVE IInv
  OBVIOUS
<1> DEFINE d == NewDir
<1>1. \A o \in Offsets : o \in Nat /\ o < Term
  BY Bounds
<1>2. d[0] = Entry("live", ".", 1) /\ d[1] = Entry("live", "..", 1) /\ d[Leaf] = Entry("dead", ".", Units)
      /\ \A o \in Offsets \ {0, 1, Leaf} : d[o] = Torn
  BY Bounds DEF NewDir
<1>3. d \in Directory
  <2>1. \A o \in Offsets : d[o] \in Slots
    BY <1>2, Bounds DEF Slots, Entry, Torn, Dots
  <2> QED BY <2>1 DEF NewDir, Directory
<1> HIDE DEF d
<1>4. /\ d[0].kind = "live" /\ d[0].name = "." /\ d[0].len = 1
      /\ d[1].kind = "live" /\ d[1].name = ".." /\ d[1].len = 1
      /\ d[Leaf].kind = "dead" /\ d[Leaf].len = Units
      /\ \A o \in Offsets \ {0, 1, Leaf} : d[o].kind = "torn"
  BY <1>2 DEF Entry, Torn
<1>5. Live(d) = {0, 1} /\ Marks(d) = {0, 1, 2}
  BY <1>4, Bounds DEF Live, Marks
<1>6. Inside(d)
  BY <1>4, Bounds DEF Inside
<1>7. Linked(d)
  BY <1>1, <1>4, <1>5, Bounds DEF Linked, Clear
<1>8. WellFormed(d)
  BY <1>3, <1>4, <1>5, <1>6, <1>7 DEF WellFormed, Rooted, Roomy, Distinct
<1>9. dir = d /\ 0 \in 0..Term
  BY Bounds DEF Init, d
<1> QED BY <1>3, <1>8, <1>9 DEF Init, IInv, TypeOK, Behind, Directory

LEMMA StreamMoves ==
    ASSUME IInv, NEW s \in Streams, NEW c \in 0..Term, NEW k \in Nat, k <= c,
           dir' = dir, cursor' = [cursor EXCEPT ![s] = c], position' = [position EXCEPT ![s] = k],
           open' \subseteq Streams, settled' \subseteq Streams,
           removed' \in [Streams -> SUBSET Names]
    PROVE  IInv'
<1>1. c \in Nat /\ c <= Term /\ k \in 0..Term
  BY Bounds
<1>2. TypeOK'
  BY <1>1 DEF IInv, TypeOK
<1>3. Behind'
  BY <1>1 DEF IInv, TypeOK, Behind
<1> QED BY <1>2, <1>3 DEF IInv

LEMMA BeginKeeps ==
    ASSUME IInv, NEW s \in Streams, Begin(s), dir' = dir, open' \subseteq Streams
    PROVE  IInv'
<1>1. 0 \in 0..Term /\ 0 \in Nat /\ 0 <= 0
  BY Bounds
<1>2. settled' \subseteq Streams /\ removed' \in [Streams -> SUBSET Names]
  BY DEF Begin, IInv, TypeOK
<1> QED BY <1>1, <1>2, StreamMoves DEF Begin

LEMMA DirectoryChanges ==
    ASSUME IInv, WellFormed(dir'), UNCHANGED <<open, cursor, position>>,
           settled' \subseteq Streams, removed' \in [Streams -> SUBSET Names]
    PROVE  IInv'
<1>1. dir' \in [Offsets -> Slots]
  BY DEF WellFormed, Directory
<1>2. TypeOK'
  BY <1>1 DEF IInv, TypeOK
<1>3. Behind'
  BY DEF IInv, Behind
<1> QED BY <1>2, <1>3 DEF IInv

LEMMA readdirKeeps ==
    ASSUME IInv, NEW s \in Streams, readdir(s)
    PROVE  IInv'
<1>1. PICK r \in DirNext(cursor[s]) :
          /\ cursor' = [cursor EXCEPT ![s] = r.cursor]
          /\ position' = [position EXCEPT ![s] = @ + (IF r.name = NoName THEN 0 ELSE 1)]
          /\ removed' = [removed EXCEPT ![s] =
                IF r.name # NoName /\ dir[cursor[s]].kind = "dead" THEN @ \ {r.name} ELSE @]
  BY DEF readdir
<1>2. cursor[s] \in 0..Term /\ position[s] \in Nat /\ position[s] <= cursor[s]
  BY Bounds DEF IInv, TypeOK, Behind
<1>3. removed' \in [Streams -> SUBSET Names]
  <2> DEFINE left == IF r.name # NoName /\ dir[cursor[s]].kind = "dead"
                     THEN removed[s] \ {r.name} ELSE removed[s]
  <2>1. left \in SUBSET Names
    BY DEF IInv, TypeOK
  <2> HIDE DEF left
  <2>2. removed' = [removed EXCEPT ![s] = left]
    BY <1>1 DEF left
  <2> QED BY <2>1, <2>2 DEF IInv, TypeOK
<1>4. /\ dir' = dir /\ open' \subseteq Streams /\ settled' \subseteq Streams
  BY DEF readdir, IInv, TypeOK
<1>5. \/ r.name = NoName /\ r.cursor = cursor[s]
      \/ r.name # NoName /\ r.cursor \in 0..Term /\ cursor[s] < r.cursor
  BY <1>2, DirNextIs, NamesDiffer DEF IInv
<1>6. CASE r.name = NoName /\ r.cursor = cursor[s]
  <2> DEFINE k == position[s] + (IF r.name = NoName THEN 0 ELSE 1)
  <2>1. k = position[s]
    BY <1>2, <1>6
  <2>2. position' = [position EXCEPT ![s] = k]
    BY <1>1
  <2> HIDE DEF k
  <2> QED BY <1>1, <1>2, <1>3, <1>4, <1>6, <2>1, <2>2, StreamMoves
<1>7. CASE r.name # NoName /\ r.cursor \in 0..Term /\ cursor[s] < r.cursor
  <2>1. position' = [position EXCEPT ![s] = position[s] + 1]
    BY <1>1, <1>7
  <2>2. position[s] + 1 \in Nat /\ position[s] + 1 <= r.cursor
    BY <1>2, <1>7, Bounds
  <2> QED BY <1>1, <1>3, <1>4, <1>7, <2>1, <2>2, StreamMoves
<1> QED BY <1>5, <1>6, <1>7

LEMMA seekdirKeeps ==
    ASSUME IInv, NEW s \in Streams, NEW loc, seekdir(s, loc)
    PROVE  IInv'
<1> DEFINE back == position[s] > loc
<1> DEFINE from == IF back THEN 0 ELSE cursor[s]
<1> DEFINE at == IF back THEN 0 ELSE position[s]
<1>1. PICK p \in Passed(from, loc - at) :
          /\ cursor' = [cursor EXCEPT ![s] = p.cursor]
          /\ position' = [position EXCEPT ![s] = at + p.count]
  BY DEF seekdir
<1>2. from \in 0..Term /\ at \in Nat /\ at <= from
  BY Bounds DEF IInv, TypeOK, Behind
<1>3. /\ dir' = dir /\ open' \subseteq Streams /\ settled' \subseteq Streams
      /\ removed' \in [Streams -> SUBSET Names]
  <2>1. removed' = [removed EXCEPT ![s] = IF back THEN {} ELSE @]
        /\ settled' = IF back THEN settled \cup {s} ELSE settled
    BY DEF seekdir
  <2> HIDE DEF back
  <2> QED BY <2>1 DEF seekdir, IInv, TypeOK
<1> HIDE DEF from, at
<1>4. p.cursor \in 0..Term /\ p.count \in Nat /\ from + p.count <= p.cursor
  BY <1>2, PassedIs DEF IInv
<1>5. at + p.count \in Nat /\ at + p.count <= p.cursor
  BY <1>2, <1>4, Bounds
<1> QED BY <1>1, <1>3, <1>4, <1>5, StreamMoves

LEMMA CreateIs ==
    ASSUME IInv, NEW n \in Names, Create(n)
    PROVE  \E f, q \in Offsets : Wrote(dir, dir', n, f, q) /\ WellFormed(dir') /\ At(dir', n) = q
<1>1. PICK f \in Offsets, q \in Offsets : Wrote(dir, dir', n, f, q)
  BY InsertIs DEF IInv, Create
<1>2. WellFormed(dir') /\ q \in Live(dir') /\ n \in NamesOf(dir')
  BY <1>1, Inserted DEF IInv, Create
<1>3. dir'[q].name = n
  BY <1>1 DEF Wrote
<1> QED BY <1>1, <1>2, <1>3, AtIs

LEMMA KeepIInv == IInv /\ [Next]_vars => IInv'
<1> SUFFICES ASSUME IInv, [Next]_vars PROVE IInv'
  OBVIOUS
<1>1. ASSUME NEW s \in Streams, opendir(s) PROVE IInv'
  BY <1>1, BeginKeeps DEF opendir, IInv, TypeOK
<1>2. ASSUME NEW s \in Streams, closedir(s) PROVE IInv'
  BY <1>2, BeginKeeps DEF closedir, IInv, TypeOK
<1>3. ASSUME NEW s \in Streams, rewinddir(s) PROVE IInv'
  BY <1>3, BeginKeeps DEF rewinddir, IInv, TypeOK
<1>4. ASSUME NEW s \in Streams, readdir_r(s) PROVE IInv'
  <2>1. CASE UNCHANGED <<dir, open, cursor, position, removed, settled, mark>>
    BY <2>1 DEF IInv, TypeOK, Behind
  <2> QED BY <1>4, <2>1, readdirKeeps DEF readdir_r
<1>5. ASSUME NEW s \in Streams, telldir(s) PROVE IInv'
  BY <1>5 DEF telldir, IInv, TypeOK, Behind
<1>6. ASSUME NEW n \in Names, Create(n) PROVE IInv'
  <2>1. WellFormed(dir')
    BY <1>6, CreateIs
  <2> QED BY <1>6, <2>1, DirectoryChanges DEF Create, ChangedAt, IInv, TypeOK
<1>7. ASSUME NEW n \in Names, Delete(n) PROVE IInv'
  <2>1. WellFormed(dir')
    BY <1>7, Removed DEF Delete, IInv
  <2>2. removed' \in [Streams -> SUBSET Names]
    BY <1>7 DEF Delete, IInv, TypeOK
  <2> QED BY <1>7, <2>1, <2>2, DirectoryChanges DEF Delete, ChangedAt, IInv, TypeOK
<1>8. CASE UNCHANGED vars
  BY <1>8 DEF vars, IInv, TypeOK, Behind
<1> QED
  BY <1>1, <1>2, <1>3, <1>4, <1>5, <1>6, <1>7, <1>8, readdirKeeps, seekdirKeeps DEF Next

LEMMA Invariance == Spec => []IInv
  BY InitInv, KeepIInv, PTL DEF Spec

\* Every variable keeps its type, whatever is created and removed in whatever
\* lengths and whether or not reads fail: no cursor leaves the directory, and the
\* position is never ahead of the cursor (readdir, seekdir).
THEOREM TypeCorrect == Spec => []TypeOK
  BY Invariance, PTL DEF IInv

-----------------------------------------------------------------------------
(* Where the streams of a careful program stand.                            *)

\* One stream moves, to a sound place.
LEMMA Moves ==
    ASSUME IInv, Told, NEW s \in Streams, NEW P \in SUBSET (0..Term), Sound(dir, P),
           \A u \in open : cursor[u] \in P,
           dir' = dir, open' \subseteq open \cup {s}, NEW c \in P, cursor' = [cursor EXCEPT ![s] = c],
           \A u \in Streams \ {s} : removed'[u] = removed[u],
           s \in open' => c = Term \/ dir[c].kind # "dead" \/ dir[c].name \in removed'[s]
    PROVE  Tracked' /\ Told'
<1>1. /\ cursor'[s] = c /\ \A u \in Streams \ {s} : cursor'[u] = cursor[u]
      /\ open \subseteq Streams
  BY DEF IInv, TypeOK
<1>2. \A u \in open' : u = s \/ (u # s /\ u \in open /\ u \in Streams)
  BY <1>1
<1>3. Sound(dir', P) /\ \A u \in open' : cursor'[u] \in P
  BY <1>1, <1>2
<1>4. Tracked'
  BY <1>3 DEF Tracked
<1>5. Told'
  BY <1>1, <1>2 DEF Told
<1> QED BY <1>4, <1>5

LEMMA BeginMoves ==
    ASSUME IInv, Tracked, Told, NEW s \in Streams, Begin(s), dir' = dir, open' \subseteq open \cup {s}
    PROVE  Tracked' /\ Told'
<1>1. PICK P \in SUBSET (0..Term) : Sound(dir, P) /\ \A u \in open : cursor[u] \in P
  BY DEF Tracked
<1>2. 0 \in P /\ dir[0].kind = "live"
  BY <1>1 DEF IInv, WellFormed, Rooted, Sound, Marks, Live
<1>3. /\ cursor' = [cursor EXCEPT ![s] = 0]
      /\ \A u \in Streams \ {s} : removed'[u] = removed[u]
  BY DEF Begin, IInv, TypeOK
<1> QED BY <1>1, <1>2, <1>3, Moves

LEMMA readdirMoves ==
    ASSUME IInv, Tracked, Told, NEW s \in Streams, readdir(s)
    PROVE  Tracked' /\ Told'
<1>1. PICK P \in SUBSET (0..Term) : Sound(dir, P) /\ \A u \in open : cursor[u] \in P
  BY DEF Tracked
<1>2. PICK r \in DirNext(cursor[s]) :
          /\ cursor' = [cursor EXCEPT ![s] = r.cursor]
          /\ removed' = [removed EXCEPT ![s] =
                IF r.name # NoName /\ dir[cursor[s]].kind = "dead" THEN @ \ {r.name} ELSE @]
  BY DEF readdir
<1>3. /\ s \in open /\ dir' = dir /\ open' = open /\ cursor[s] \in P /\ cursor[s] \in 0..Term
      /\ \A u \in Streams \ {s} : removed'[u] = removed[u]
  BY <1>1, <1>2 DEF readdir, IInv, TypeOK
<1>4. CASE r.name = NoName /\ r.cursor = cursor[s]
  <2>1. removed'[s] = removed[s]
    BY <1>2, <1>4 DEF IInv, TypeOK
  <2> QED BY <1>1, <1>2, <1>3, <1>4, <2>1, Moves DEF Told
<1>5. CASE /\ cursor[s] \in Offsets /\ r.cursor \in 0..Term
           /\ r.cursor = Term \/ r.cursor \in After(dir, cursor[s])
  <2>1. cursor[s] \in P \ {Term}
    BY <1>3, <1>5, Bounds
  <2>2. Term \in P /\ \A p \in After(dir, cursor[s]) : p \in Live(dir) \cup {Term} /\ p \in P
    BY <1>1, <2>1, AfterNext DEF IInv, WellFormed, Sound
  <2>3. r.cursor \in P /\ (r.cursor = Term \/ dir[r.cursor].kind # "dead")
    BY <1>5, <2>2 DEF Live
  <2> QED BY <1>1, <1>2, <1>3, <2>3, Moves
<1> QED BY <1>3, <1>4, <1>5, DirNextIs DEF IInv

LEMMA seekdirMoves ==
    ASSUME IInv, Tracked, Told, NEW s \in Streams, NEW loc, seekdir(s, loc)
    PROVE  Tracked' /\ Told'
<1>1. PICK P \in SUBSET (0..Term) : Sound(dir, P) /\ \A u \in open : cursor[u] \in P
  BY DEF Tracked
<1> DEFINE back == position[s] > loc
<1> DEFINE from == IF back THEN 0 ELSE cursor[s]
<1> DEFINE at == IF back THEN 0 ELSE position[s]
<1>2. PICK p \in Passed(from, loc - at) : cursor' = [cursor EXCEPT ![s] = p.cursor]
  BY DEF seekdir
<1>3. /\ s \in open /\ dir' = dir /\ open' = open /\ cursor[s] \in P
      /\ removed' = [removed EXCEPT ![s] = IF back THEN {} ELSE @]
  BY <1>1 DEF seekdir
<1>4. 0 \in P /\ dir[0].kind = "live" /\ P \subseteq 0..Term /\ Term \in P /\ Live(dir) \subseteq P
  BY <1>1 DEF IInv, WellFormed, Rooted, Sound, Marks, Live
<1>5. from \in P /\ from \in 0..Term
      /\ (from = Term \/ dir[from].kind # "dead" \/ (~back /\ dir[from].name \in removed[s]))
  BY <1>3, <1>4 DEF Told
<1>6. /\ \A u \in Streams \ {s} : removed'[u] = removed[u]
      /\ ~back => removed'[s] = removed[s]
  <2> HIDE DEF back
  <2> QED BY <1>3 DEF IInv, TypeOK
<1> HIDE DEF from, at, back
<1>7. p.cursor \in Reads(from) \cup {Term}
  BY <1>5, PassedIs DEF IInv
<1>8. p.cursor = from \/ p.cursor = Term
      \/ (p.cursor \in Path(dir, from) \ {Term} /\ dir[p.cursor].kind = "live")
  <2>1. TornOn(dir, from) = {}
    BY <1>1, <1>5, SoundUntorn DEF IInv, WellFormed
  <2> QED BY <1>7, <2>1 DEF Reads, Astray
<1>9. Path(dir, from) \subseteq P
  BY <1>1, <1>5, SoundPath DEF IInv, WellFormed
<1>10. p.cursor \in P
       /\ (p.cursor = Term \/ dir[p.cursor].kind # "dead" \/ dir[p.cursor].name \in removed'[s])
  BY <1>4, <1>5, <1>6, <1>8, <1>9
<1> QED BY <1>1, <1>2, <1>3, <1>6, <1>10, Moves

LEMMA CreateMoves ==
    ASSUME IInv, Tracked, Told, NEW n \in Names, Create(n),
           open # {} => NoneTorn(dir, dir')
    PROVE  Tracked' /\ Told'
<1>1. PICK f \in Offsets, q \in Offsets : Wrote(dir, dir', n, f, q)
  BY CreateIs
<1>2. /\ WellFormed(dir') /\ Live(dir') = Live(dir) \cup {q}
      /\ NoneTorn(dir, dir') =>
            /\ \A o \in Offsets \ {q} :
                  dir'[o].kind = dir[o].kind /\ dir'[o].name = dir[o].name
            /\ \A P : Sound(dir, P) => Sound(dir', P \cup {q})
  BY <1>1, Inserted DEF IInv, Create
<1>3. UNCHANGED <<open, cursor, removed>>
  BY DEF Create
<1>4. CASE open = {}
  <2>1. Sound(dir', Marks(dir') \cup {Term}) /\ Marks(dir') \cup {Term} \in SUBSET (0..Term)
    BY <1>2, MarksSound DEF Sound
  <2>2. Tracked'
    BY <1>3, <1>4, <2>1 DEF Tracked
  <2> QED BY <1>3, <1>4, <2>2 DEF Told
<1>5. CASE open # {}
  <2>1. NoneTorn(dir, dir')
    BY <1>5
  <2>2. PICK P \in SUBSET (0..Term) : Sound(dir, P) /\ \A u \in open : cursor[u] \in P
    BY DEF Tracked
  <2>3. Sound(dir', P \cup {q}) /\ P \cup {q} \in SUBSET (0..Term)
    BY <1>2, <2>1, <2>2, Bounds
  <2>4. Tracked'
    BY <1>3, <2>2, <2>3 DEF Tracked
  <2>5. ASSUME NEW s \in open, cursor[s] # Term, dir'[cursor[s]].kind = "dead"
        PROVE  dir'[cursor[s]].name \in removed[s]
    <3>1. cursor[s] \in Offsets
      BY <2>2, <2>5, Bounds
    <3>2. cursor[s] # q
      BY <1>2, <2>5 DEF Live
    <3> QED BY <1>2, <2>1, <2>5, <3>1, <3>2 DEF Told
  <2>6. Told'
    BY <1>3, <2>5 DEF Told
  <2> QED BY <2>4, <2>6
<1> QED BY <1>4, <1>5

LEMMA DeleteMoves ==
    ASSUME IInv, Tracked, Told, NEW n \in Names, Delete(n)
    PROVE  Tracked' /\ Told'
<1> DEFINE at == At(dir, n)
<1>1. /\ n \in NamesOf(dir) /\ dir' = Remove(dir, n) /\ UNCHANGED <<open, cursor>>
      /\ removed' = [s \in Streams |->
            IF s \in open /\ at >= cursor[s] THEN removed[s] \cup {n} ELSE removed[s]]
  BY DEF Delete
<1>2. /\ \A P : Sound(dir, P) => Sound(dir', P)
      /\ \A o \in Offsets : dir'[o].name = dir[o].name
                            /\ dir'[o].kind = IF o = at THEN "dead" ELSE dir[o].kind
  BY <1>1, Removed, RemoveIs DEF IInv
<1>3. at \in Live(dir) /\ dir[at].name = n
  BY <1>1, AtIs DEF IInv
<1>4. at \in Nat
  BY <1>3, LiveFacts, Bounds
<1> HIDE DEF at
<1>5. Tracked'
  BY <1>1, <1>2 DEF Tracked
<1>6. ASSUME NEW s \in open, cursor[s] # Term, dir'[cursor[s]].kind = "dead"
      PROVE  dir'[cursor[s]].name \in removed'[s]
  <2>1. s \in Streams /\ cursor[s] \in Offsets
    BY <1>6, Bounds DEF IInv, TypeOK
  <2>2. CASE cursor[s] = at
    <3>1. removed'[s] = removed[s] \cup {n}
      BY <1>1, <1>4, <2>1, <2>2
    <3> QED BY <1>2, <1>3, <2>1, <2>2, <3>1
  <2>3. CASE cursor[s] # at
    <3>1. removed[s] \subseteq removed'[s]
      BY <1>1, <2>1
    <3>2. dir[cursor[s]].kind = "dead" /\ dir'[cursor[s]].name = dir[cursor[s]].name
      BY <1>2, <1>6, <2>1, <2>3
    <3> QED BY <1>6, <3>1, <3>2 DEF Told
  <2> QED BY <2>2, <2>3
<1>7. Told'
  BY <1>1, <1>6 DEF Told
<1> QED BY <1>5, <1>7

CarefulInv == IInv /\ Tracked /\ Told

LEMMA InitCareful == Init => CarefulInv
<1> SUFFICES ASSUME Init PROVE CarefulInv
  OBVIOUS
<1>1. IInv
  BY InitInv
<1>2. Sound(dir, Marks(dir) \cup {Term}) /\ Marks(dir) \cup {Term} \in SUBSET (0..Term)
  BY <1>1, MarksSound DEF IInv, Sound
<1>3. open = {}
  BY DEF Init
<1> QED BY <1>1, <1>2, <1>3 DEF CarefulInv, Tracked, Told

LEMMA KeepCareful == CarefulInv /\ [CarefulNext]_vars => CarefulInv'
<1> SUFFICES ASSUME CarefulInv, [CarefulNext]_vars PROVE CarefulInv'
  OBVIOUS
<1>1. IInv'
  BY KeepIInv DEF CarefulInv, CarefulNext
<1> SUFFICES Tracked' /\ Told'
  BY <1>1 DEF CarefulInv
<1>2. IInv /\ Tracked /\ Told /\ open \subseteq Streams
  BY DEF CarefulInv, IInv, TypeOK
<1>3. CASE UNCHANGED <<dir, open, cursor, removed>>
  BY <1>2, <1>3 DEF Tracked, Told
<1>4. ASSUME NEW s \in Streams, opendir(s) PROVE Tracked' /\ Told'
  BY <1>2, <1>4, BeginMoves DEF opendir
<1>5. ASSUME NEW s \in Streams, closedir(s) PROVE Tracked' /\ Told'
  BY <1>2, <1>5, BeginMoves DEF closedir
<1>6. ASSUME NEW s \in Streams, rewinddir(s) PROVE Tracked' /\ Told'
  BY <1>2, <1>6, BeginMoves DEF rewinddir
<1>7. ASSUME NEW s \in Streams, readdir_r(s) PROVE Tracked' /\ Told'
  BY <1>2, <1>3, <1>7, readdirMoves DEF readdir_r
<1>8. ASSUME NEW s \in Streams, telldir(s) PROVE Tracked' /\ Told'
  BY <1>3, <1>8 DEF telldir
<1>9. ASSUME NEW n \in Names, Create(n), CarefulNext PROVE Tracked' /\ Told'
  <2>1. open # {} => NoneTorn(dir, dir')
    BY <1>9 DEF CarefulNext, NoneTorn
  <2> QED BY <1>2, <1>9, <2>1, CreateMoves
<1>10. CASE UNCHANGED vars
  BY <1>3, <1>10 DEF vars
<1> QED
  BY <1>2, <1>4, <1>5, <1>6, <1>7, <1>8, <1>9, <1>10, readdirMoves, seekdirMoves, DeleteMoves
     DEF CarefulNext, Next

LEMMA CarefulInvariance == CarefulSpec => []CarefulInv
  BY InitCareful, KeepCareful, PTL DEF CarefulSpec

-----------------------------------------------------------------------------
(* The listing.  Without failures, every call is a step of DirListing.      *)
Pending == [s \in Streams |-> Unread(s)]

LEMMA PendingMoves ==
    ASSUME NEW s \in Streams, NEW left, Unread(s)' = left,
           \A u \in Streams \ {s} : Unread(u)' = Unread(u)
    PROVE  Pending' = [Pending EXCEPT ![s] = left]
  BY DEF Pending

\* One stream moves: the names it has to come are those at or behind its cursor.
LEMMA StreamPlaced ==
    ASSUME CarefulInv, NEW s \in Streams, dir' = dir,
           \A u \in Streams \ {s} : (u \in open' <=> u \in open) /\ cursor'[u] = cursor[u]
    PROVE  /\ NamesOf(dir)' = NamesOf(dir)
           /\ Pending' = [Pending EXCEPT ![s] = Unread(s)']
           /\ Unread(s)' \subseteq NamesOf(dir)
<1>1. \A u \in Streams \ {s} : Unread(u)' = Unread(u)
  BY DEF Unread, Live
<1>2. Unread(s)' \subseteq NamesOf(dir)
  BY DEF Unread, NamesOf, Live
<1> QED BY <1>1, <1>2, PendingMoves DEF NamesOf, Live

LEMMA StreamSeeks ==
    ASSUME CarefulInv, NEW s \in open, dir' = dir, open' = open, got' = Nothing,
           \A u \in Streams \ {s} : cursor'[u] = cursor[u],
           \/ removed' = [removed EXCEPT ![s] = {}]
           \/ removed' = [removed EXCEPT ![s] = removed[s]]
    PROVE  Listing!Seek(s)
<1>1. s \in Streams
  BY DEF CarefulInv, IInv, TypeOK
<1>2. /\ NamesOf(dir)' = NamesOf(dir)
      /\ Pending' = [Pending EXCEPT ![s] = Unread(s)']
      /\ Unread(s)' \subseteq NamesOf(dir)
  BY <1>1, StreamPlaced
<1>3. got' = Listing!Nothing
  BY DEF Nothing, Listing!Nothing
<1> DEFINE left == Unread(s)'
<1>4. /\ left \in SUBSET NamesOf(dir)
      /\ Pending' = [Pending EXCEPT ![s] = left]
  BY <1>2
<1> HIDE DEF left
<1>5. PICK gone \in {{}, removed[s]} : Listing!Place(s, left, gone)
  BY <1>4 DEF Listing!Place, Pending
<1> QED BY <1>2, <1>3, <1>4, <1>5 DEF Listing!Seek

LEMMA BeginPlaces ==
    ASSUME CarefulInv, NEW s \in Streams, Begin(s), dir' = dir,
           \A u \in Streams \ {s} : u \in open' <=> u \in open
    PROVE  /\ Listing!Place(s, IF s \in open' THEN NamesOf(dir) ELSE {}, {})
           /\ got' = Listing!Nothing
           /\ NamesOf(dir)' = NamesOf(dir)
<1>1. cursor'[s] = 0 /\ \A u \in Streams \ {s} : cursor'[u] = cursor[u]
  BY DEF Begin, CarefulInv, IInv, TypeOK
<1>2. /\ NamesOf(dir)' = NamesOf(dir)
      /\ Pending' = [Pending EXCEPT ![s] = Unread(s)']
  BY <1>1, StreamPlaced
<1>3. Unread(s)' = IF s \in open' THEN NamesOf(dir) ELSE {}
  <2>1. CASE s \in open'
    <3>1. \A o \in Live(dir) : o >= 0
      BY LiveFacts, Bounds
    <3> QED BY <1>1, <2>1, <3>1 DEF Unread, NamesOf, Live
  <2>2. CASE s \notin open'
    BY <2>2 DEF Unread
  <2> QED BY <2>1, <2>2
<1>4. got' = Listing!Nothing /\ removed' = [removed EXCEPT ![s] = {}]
  BY DEF Begin, Nothing, Listing!Nothing
<1> QED BY <1>2, <1>3, <1>4 DEF Listing!Place, Pending

LEMMA OpenRefines ==
    ASSUME CarefulInv, NEW s \in Streams, opendir(s) PROVE Listing!Open(s)
<1>1. /\ Listing!Place(s, NamesOf(dir), {}) /\ got' = Listing!Nothing
      /\ NamesOf(dir)' = NamesOf(dir)
  BY BeginPlaces DEF opendir
<1> QED BY <1>1 DEF opendir, Listing!Open

LEMMA CloseRefines ==
    ASSUME CarefulInv, NEW s \in Streams, closedir(s) PROVE Listing!Close(s)
<1>1. /\ Listing!Place(s, {}, {}) /\ got' = Listing!Nothing
      /\ NamesOf(dir)' = NamesOf(dir)
  BY BeginPlaces DEF closedir
<1> QED BY <1>1 DEF closedir, Listing!Close

LEMMA RewindRefines ==
    ASSUME CarefulInv, NEW s \in Streams, rewinddir(s) PROVE Listing!Rewind(s)
<1>1. /\ Listing!Place(s, NamesOf(dir), {}) /\ got' = Listing!Nothing
      /\ NamesOf(dir)' = NamesOf(dir)
  BY BeginPlaces DEF rewinddir
<1> QED BY <1>1 DEF rewinddir, Listing!Rewind

\* A read takes the name at the cursor out of the names to come, or out of the
\* removed ones, and says that there is none only at the end.
LEMMA ReadRefines ==
    ASSUME Fails = FALSE, CarefulInv, NEW s \in Streams, readdir(s)
    PROVE  Listing!Read(s) \/ Listing!ReadRemoved(s) \/ Listing!End(s)
<1>1. PICK P \in SUBSET (0..Term) : Sound(dir, P) /\ \A u \in open : cursor[u] \in P
  BY DEF CarefulInv, Tracked
<1> DEFINE c == cursor[s]
<1>2. /\ s \in open /\ open' = open /\ dir' = dir /\ c \in P /\ WellFormed(dir)
      /\ removed \in [Streams -> SUBSET Names] /\ cursor \in [Streams -> 0..Term]
  BY <1>1 DEF readdir, CarefulInv, IInv, TypeOK
<1>3. PICK r \in DirNext(c) :
          /\ cursor' = [cursor EXCEPT ![s] = r.cursor]
          /\ got' = <<s, r.name>>
          /\ removed' = [removed EXCEPT ![s] =
                IF r.name # NoName /\ dir[c].kind = "dead" THEN @ \ {r.name} ELSE @]
  BY DEF readdir
<1>4. \A u \in Streams \ {s} : cursor'[u] = cursor[u]
  BY <1>2, <1>3
<1>5. /\ NamesOf(dir)' = NamesOf(dir)
      /\ Pending' = [Pending EXCEPT ![s] = Unread(s)']
  BY <1>2, <1>4, StreamPlaced
<1>6. CASE c = Term
  <2>1. r = [name |-> NoName, cursor |-> c]
    BY <1>3, <1>6 DEF DirNext
  <2>2. cursor' = cursor /\ got' = <<s, NoName>> /\ removed' = removed
    BY <1>2, <1>3, <2>1
  <2>3. Unread(s) = {}
    <3>1. \A o \in Live(dir) : ~(o >= Term)
      BY LiveFacts, Bounds
    <3> QED BY <1>6, <3>1 DEF Unread
  <2>4. Pending' = Pending
    BY <1>2, <2>2 DEF Pending, Unread, Live
  <2>5. Listing!End(s)
    BY <1>2, <1>5, <2>2, <2>3, <2>4 DEF Listing!End, NoName, Listing!NoName, Pending
  <2> QED BY <2>5
<1>7. CASE c # Term
  <2>1. c \in Offsets /\ dir[c].kind # "torn"
    BY <1>1, <1>2, <1>7, Bounds DEF Sound
  <2> DEFINE next == r.cursor
  <2>2. r.name = dir[c].name /\ next \in After(dir, c)
    BY <1>3, <1>7, <2>1 DEF DirNext
  <2>3. dir[c].name \in Names \cup Dots /\ dir[c].name # NoName
    BY <1>2, <2>1, SlotFacts, NamesDiffer DEF WellFormed
  <2>4. /\ next \in Live(dir) \cup {Term} /\ c < next
        /\ \A p \in Live(dir) : c < p => next <= p
    BY <1>1, <1>2, <1>7, <2>2, AfterNext DEF WellFormed
  <2>5. /\ c \in Nat /\ next \in Nat /\ \A p \in Live(dir) : p \in Nat
    BY <2>1, <2>4, LiveFacts, Bounds
  <2>6. cursor'[s] = next /\ got' = <<s, dir[c].name>>
    BY <1>2, <1>3, <2>2
  <2>7. Unread(s)' = {dir[o].name : o \in {o \in Live(dir) : o >= next}}
    BY <1>2, <2>6 DEF Unread, Live
  <2>8. Unread(s) = {dir[o].name : o \in {o \in Live(dir) : o >= c}}
    BY <1>2 DEF Unread
  <2> HIDE DEF next
  <2>9. \A o \in Live(dir) : o >= next <=> o >= c /\ o # c
    BY <2>4, <2>5
  <2>10. CASE dir[c].kind = "live"
    <3>1. c \in Live(dir) /\ dir[c].name \in Unread(s)
      BY <2>1, <2>5, <2>8, <2>10 DEF Live
    <3>2. \A o \in Live(dir) : dir[o].name = dir[c].name => o = c
      BY <1>2, <3>1 DEF WellFormed, Distinct
    <3>3. Unread(s)' = Unread(s) \ {dir[c].name}
      BY <2>7, <2>8, <2>9, <3>2
    <3>4. removed' = [removed EXCEPT ![s] = removed[s]]
      BY <1>3, <2>10
    <3>5. Listing!Place(s, Unread(s) \ {dir[c].name}, removed[s])
      <4> DEFINE left == Unread(s) \ {dir[c].name}
      <4>1. Pending' = [Pending EXCEPT ![s] = left]
        BY <1>5, <3>3
      <4> HIDE DEF left
      <4>2. Listing!Place(s, left, removed[s])
        BY <3>4, <4>1 DEF Listing!Place, Pending
      <4> QED BY <4>2 DEF left
    <3>6. Pending[s] = Unread(s)
      BY DEF Pending
    <3>7. Listing!Read(s)
      BY <1>2, <1>5, <2>6, <3>1, <3>5, <3>6 DEF Listing!Read, Pending
    <3> QED BY <3>7
  <2>11. CASE dir[c].kind = "dead"
    <3>1. dir[c].name \in removed[s]
      BY <1>2, <1>7, <2>11 DEF CarefulInv, Told
    <3>2. c \notin Live(dir)
      BY <2>11 DEF Live
    <3>3. Unread(s)' = Unread(s)
      BY <2>7, <2>8, <2>9, <3>2
    <3>4. removed' = [removed EXCEPT ![s] = removed[s] \ {dir[c].name}]
      BY <1>3, <2>2, <2>3, <2>11
    <3>5. Listing!Place(s, Unread(s), removed[s] \ {dir[c].name})
      <4> DEFINE left == Unread(s)
      <4>1. Pending' = [Pending EXCEPT ![s] = left]
        BY <1>5, <3>3
      <4> HIDE DEF left
      <4>2. Listing!Place(s, left, removed[s] \ {dir[c].name})
        BY <3>4, <4>1 DEF Listing!Place, Pending
      <4> QED BY <4>2 DEF left
    <3>6. Pending[s] = Unread(s)
      BY DEF Pending
    <3>7. Listing!ReadRemoved(s)
      BY <1>2, <1>5, <2>6, <3>1, <3>5, <3>6 DEF Listing!ReadRemoved, Pending
    <3> QED BY <3>7
  <2> QED BY <1>2, <2>1, <2>10, <2>11, SlotFacts DEF WellFormed
<1> QED BY <1>6, <1>7

LEMMA SeekRefines ==
    ASSUME CarefulInv, NEW s \in Streams, NEW loc, seekdir(s, loc) PROVE Listing!Seek(s)
<1> DEFINE back == position[s] > loc
<1>1. /\ s \in open /\ dir' = dir /\ open' = open /\ got' = Nothing
      /\ removed' = [removed EXCEPT ![s] = IF back THEN {} ELSE removed[s]]
      /\ \E c : cursor' = [cursor EXCEPT ![s] = c]
  BY DEF seekdir
<1>2. \A u \in Streams \ {s} : cursor'[u] = cursor[u]
  BY <1>1 DEF CarefulInv, IInv, TypeOK
<1> HIDE DEF back
<1>3. \/ removed' = [removed EXCEPT ![s] = {}]
      \/ removed' = [removed EXCEPT ![s] = removed[s]]
  BY <1>1
<1> QED BY <1>1, <1>2, <1>3, StreamSeeks

LEMMA StaysRefines ==
    ASSUME CarefulInv, NEW s \in open, UNCHANGED <<dir, open, cursor, removed>>, got' = Nothing
    PROVE  Listing!Seek(s)
<1>1. removed' = [removed EXCEPT ![s] = removed[s]]
  BY DEF CarefulInv, IInv, TypeOK
<1> QED BY <1>1, StreamSeeks

\* A new name may come for the streams that are still in front of it, and no
\* other name comes or goes for any stream.
LEMMA CreateRefines ==
    ASSUME CarefulInv, NEW n \in Names, Create(n)
    PROVE  Listing!Add(n)
<1>1. PICK f \in Offsets, q \in Offsets : Wrote(dir, dir', n, f, q) /\ At(dir', n) = q
  BY CreateIs DEF CarefulInv
<1>0. WellFormed(dir) /\ n \notin NamesOf(dir)
  BY DEF CarefulInv, IInv, Create
<1>2. /\ Live(dir') = Live(dir) \cup {q} /\ q \notin Live(dir)
      /\ \A o \in Live(dir) : dir'[o].name = dir[o].name
      /\ NamesOf(dir') = NamesOf(dir) \cup {n} /\ n \notin NamesOf(dir)
  <2>1. Wrote(dir, dir', n, f, q)
    BY <1>1
  <2> QED BY <1>0, <2>1, Inserted
<1>3. dir'[q].name = n
  BY <1>1 DEF Wrote
<1>4. UNCHANGED <<open, cursor, removed>> /\ got' = Listing!Nothing
  BY DEF Create, ChangedAt, Nothing, Listing!Nothing
<1> DEFINE S == {s \in open : q >= cursor[s]}
<1>5. ASSUME NEW s \in Streams
      PROVE  Unread(s)' = IF s \in S THEN Unread(s) \cup {n} ELSE Unread(s)
  <2>1. CASE s \notin open
    BY <1>4, <2>1 DEF Unread
  <2>2. CASE s \in open
    <3>1. Unread(s)' = {dir'[o].name : o \in {o \in Live(dir') : o >= cursor[s]}}
      BY <1>4, <2>2 DEF Unread
    <3>2. Unread(s) = {dir[o].name : o \in {o \in Live(dir) : o >= cursor[s]}}
      BY <2>2 DEF Unread
    <3> QED BY <1>2, <1>3, <2>2, <3>1, <3>2
  <2> QED BY <2>1, <2>2
<1> HIDE DEF S
<1>6. Pending' = [s \in Streams |-> IF s \in S THEN Pending[s] \cup {n} ELSE Pending[s]]
  BY <1>5 DEF Pending
<1>7. S \in SUBSET open
  BY DEF S
<1>8. NamesOf(dir)' = NamesOf(dir) \cup {n}
  BY <1>2 DEF NamesOf, Live
<1> QED BY <1>2, <1>4, <1>6, <1>7, <1>8 DEF Listing!Add, Pending

\* A name that goes is no longer to come for any stream, and those that it was to
\* come for may still return it.
LEMMA DeleteRefines ==
    ASSUME CarefulInv, NEW n \in Names, Delete(n)
    PROVE  Listing!Remove(n)
<1> DEFINE at == At(dir, n)
<1>1. /\ n \in NamesOf(dir) /\ n \notin Dots /\ dir' = Remove(dir, n)
      /\ UNCHANGED <<open, cursor>> /\ got' = Listing!Nothing
      /\ removed' = [s \in Streams |->
            IF s \in open /\ at >= cursor[s] THEN removed[s] \cup {n} ELSE removed[s]]
  BY NamesDiffer DEF Delete, ChangedAt, Nothing, Listing!Nothing
<1>2. /\ Live(dir') = Live(dir) \ {at} /\ NamesOf(dir') = NamesOf(dir) \ {n}
      /\ \A o \in Offsets : dir'[o].name = dir[o].name
  BY <1>1, Removed, RemoveIs DEF CarefulInv, IInv
<1>3. /\ at \in Live(dir) /\ dir[at].name = n /\ \A o \in Live(dir) : dir[o].name = n => o = at
      /\ Live(dir) \subseteq Offsets
  BY <1>1, AtIs, LiveFacts DEF CarefulInv, IInv
<1> HIDE DEF at
<1>4. ASSUME NEW s \in Streams
      PROVE  /\ Unread(s)' = Unread(s) \ {n}
             /\ n \in Unread(s) <=> s \in open /\ at >= cursor[s]
  <2>1. CASE s \notin open
    BY <1>1, <2>1 DEF Unread
  <2>2. CASE s \in open
    <3>1. Unread(s)' = {dir'[o].name : o \in {o \in Live(dir') : o >= cursor[s]}}
      BY <1>1, <2>2 DEF Unread
    <3>2. Unread(s) = {dir[o].name : o \in {o \in Live(dir) : o >= cursor[s]}}
      BY <2>2 DEF Unread
    <3>3. n \in Unread(s) <=> at >= cursor[s]
      BY <1>3, <3>2
    <3>4. Unread(s)' = Unread(s) \ {n}
      BY <1>2, <1>3, <3>1, <3>2
    <3> QED BY <2>2, <3>3, <3>4
  <2> QED BY <2>1, <2>2
<1>5. Pending' = [s \in Streams |-> Pending[s] \ {n}]
  BY <1>4 DEF Pending
<1>6. removed' = [s \in Streams |-> removed[s] \cup ({n} \cap Pending[s])]
  <2>1. ASSUME NEW s \in Streams
        PROVE  (IF s \in open /\ at >= cursor[s] THEN removed[s] \cup {n} ELSE removed[s])
               = removed[s] \cup ({n} \cap Unread(s))
    BY <1>4
  <2> QED BY <1>1, <2>1 DEF Pending
<1>7. NamesOf(dir)' = NamesOf(dir) \ {n}
  BY <1>2 DEF NamesOf, Live
<1> QED BY <1>1, <1>5, <1>6, <1>7 DEF Listing!Remove, Pending

LEMMA InitRefines == Init => Listing!Init
<1> SUFFICES ASSUME Init PROVE Listing!Init
  OBVIOUS
<1>1. WellFormed(dir) /\ open = {} /\ dir = NewDir
  BY InitInv DEF Init, IInv
<1>2. Live(dir) = {0, 1}
  <2>1. /\ dir[0].kind = "live" /\ dir[1].kind = "live" /\ dir[Leaf].kind = "dead"
        /\ \A o \in Offsets \ {0, 1, Leaf} : dir[o].kind = "torn"
    BY <1>1, Bounds DEF NewDir, Entry, Torn
  <2> QED BY <2>1, Bounds DEF Live
<1>3. NamesOf(dir) = Dots
  BY <1>1, <1>2 DEF NamesOf, WellFormed, Rooted, Dots
<1>4. Pending = [s \in Streams |-> {}]
  BY <1>1 DEF Pending, Unread
<1> QED BY <1>3, <1>4 DEF Init, Listing!Init, Pending, Nothing, Listing!Nothing

LEMMA StepRefines ==
    ASSUME Fails = FALSE, CarefulInv, [CarefulNext]_vars
    PROVE  [Listing!Next]_(Listing!listing)
<1>1. open \subseteq Streams
  BY DEF CarefulInv, IInv, TypeOK
<1>2. ASSUME NEW s \in Streams, opendir(s) PROVE Listing!Next
  BY <1>2, OpenRefines DEF Listing!Next
<1>3. ASSUME NEW s \in Streams, closedir(s) PROVE Listing!Next
  BY <1>3, CloseRefines DEF Listing!Next
<1>4. ASSUME NEW s \in Streams, rewinddir(s) PROVE Listing!Next
  BY <1>4, RewindRefines DEF Listing!Next
<1>5. ASSUME NEW s \in Streams, readdir(s) PROVE Listing!Next
  BY <1>5, ReadRefines DEF Listing!Next
<1>6. ASSUME NEW s \in Streams, readdir_r(s) PROVE Listing!Next
  <2>1. CASE /\ s \in open /\ got' = Nothing
             /\ UNCHANGED <<dir, open, cursor, position, removed, settled, mark>>
    BY <1>6, <2>1, StaysRefines DEF Listing!Next
  <2> QED BY <1>5, <1>6, <2>1 DEF readdir_r
<1>7. ASSUME NEW s \in Streams, telldir(s) PROVE Listing!Next
  <2>1. Listing!Seek(s)
    BY <1>7, StaysRefines DEF telldir
  <2> QED BY <2>1 DEF Listing!Next
<1>8. ASSUME NEW s \in Streams, NEW loc, seekdir(s, loc) PROVE Listing!Next
  BY <1>8, SeekRefines DEF Listing!Next
<1>9. ASSUME NEW n \in Names, Create(n) PROVE Listing!Next
  BY <1>9, CreateRefines DEF Listing!Next
<1>10. ASSUME NEW n \in Names, Delete(n) PROVE Listing!Next
  BY <1>10, DeleteRefines DEF Listing!Next
<1>11. CASE UNCHANGED vars
  <2>1. UNCHANGED <<dir, open, cursor, removed, got>>
    BY <1>11 DEF vars
  <2> QED BY <2>1 DEF Listing!listing, Unread, NamesOf, Live
<1> QED
  BY <1>2, <1>3, <1>4, <1>5, <1>6, <1>7, <1>8, <1>9, <1>10, <1>11 DEF CarefulNext, Next

\* Where reads do not fail, and a careful program covers the beginning of no older
\* entry by another while a stream is open: whatever is created and removed between two readdirs, a name
\* that stays is returned once, and the end is reported when none is left, although
\* the cursor may stand on an entry that was removed or written over.
THEOREM ListingIsImplemented ==
    ASSUME Fails = FALSE
    PROVE  CarefulSpec => ImplementsDirListing
<1>1. Init => Listing!Init
  BY InitRefines
<1>2. CarefulInv /\ [CarefulNext]_vars => [Listing!Next]_(Listing!listing)
  BY StepRefines
<1> QED BY <1>1, <1>2, CarefulInvariance, PTL DEF CarefulSpec, ImplementsDirListing, Listing!Spec

-----------------------------------------------------------------------------
(* Places.  While nothing changed before a stream it stands at an entry or  *)
(* at the end, with the number of entries before it for a position.         *)
Before(d, c) == {q \in Live(d) : q < c}
Count(d, c) == Cardinality(Before(d, c))
PlaceIn(d, c, k) == c \in Live(d) \cup {Term} /\ k = Count(d, c)

Settled == \A s \in settled : PlaceIn(dir, cursor[s], position[s])

\* A place that was told and is still good is a place, and a stream before which
\* something changed is behind it in both measures.
Marked ==
    /\ mark \in [Streams -> [position : Nat, cursor : 0..Term, valid : BOOLEAN]]
    /\ \A s \in Streams : mark[s].valid =>
          /\ PlaceIn(dir, mark[s].cursor, mark[s].position)
          /\ s \notin settled => mark[s].cursor < cursor[s] /\ mark[s].position < position[s]

PlaceInv == IInv /\ Settled /\ Marked

LEMMA CountIs ==
    ASSUME NEW d, NEW c
    PROVE  IsFiniteSet(Live(d)) /\ IsFiniteSet(Before(d, c)) /\ Count(d, c) \in Nat
<1>1. IsFiniteSet(0..Term)
  BY FS_Interval, Bounds
<1>2. Live(d) \in SUBSET (0..Term) /\ Before(d, c) \in SUBSET (0..Term)
  BY LiveFacts, Bounds DEF Before
<1>3. IsFiniteSet(Live(d)) /\ IsFiniteSet(Before(d, c))
  BY <1>1, <1>2, FS_Subset
<1> QED BY <1>3, FS_CardinalityType DEF Count

LEMMA CountGrows ==
    ASSUME NEW d, NEW p \in 0..Term, NEW r \in 0..Term, p <= r
    PROVE  /\ Count(d, p) <= Count(d, r)
           /\ p \in Live(d) /\ p < r => Count(d, p) < Count(d, r)
<1>1. /\ IsFiniteSet(Before(d, r)) /\ Count(d, p) \in Nat /\ Count(d, r) \in Nat
  BY CountIs
<1>2. Before(d, p) \in SUBSET Before(d, r)
  BY LiveFacts, Bounds DEF Before
<1>3. /\ Count(d, p) <= Count(d, r)
      /\ Count(d, r) = Count(d, p) => Before(d, r) = Before(d, p)
  BY <1>1, <1>2, FS_Subset DEF Count
<1>4. ASSUME p \in Live(d), p < r PROVE Before(d, r) # Before(d, p)
  <2>1. p \in Before(d, r) /\ p \notin Before(d, p)
    BY <1>4, Bounds DEF Before
  <2> QED BY <2>1
<1> QED BY <1>1, <1>3, <1>4

\* No two places have the same number of entries before them.
LEMMA PlaceUnique ==
    ASSUME NEW d, NEW p \in Live(d) \cup {Term}, NEW r \in Live(d) \cup {Term},
           Count(d, p) = Count(d, r)
    PROVE  p = r
<1>1. p \in 0..Term /\ r \in 0..Term /\ Count(d, p) \in Nat
      /\ (p < r => p \in Live(d)) /\ (r < p => r \in Live(d))
  BY LiveFacts, CountIs, Bounds
<1>2. ~(p < r)
  BY <1>1, CountGrows
<1>3. ~(r < p)
  BY <1>1, CountGrows
<1> QED BY <1>1, <1>2, <1>3, Bounds

LEMMA StartIsPlace ==
    ASSUME NEW d, WellFormed(d)
    PROVE  PlaceIn(d, 0, 0)
<1>1. 0 \in Live(d)
  BY DEF WellFormed, Rooted
<1>2. Before(d, 0) = {}
  BY LiveFacts, Bounds DEF Before
<1> QED BY <1>1, <1>2, FS_EmptySet DEF PlaceIn, Count

LEMMA PlaceUntorn ==
    ASSUME NEW d, WellFormed(d), NEW c \in Live(d) \cup {Term}
    PROVE  TornOn(d, c) = {}
<1> DEFINE P == Marks(d) \cup {Term}
<1>1. Sound(d, P) /\ c \in P
  BY MarksSound DEF Marks
<1> HIDE DEF P
<1> QED BY <1>1, SoundUntorn DEF WellFormed

\* What a stream at a place has still to read is what is there.
LEMMA ReadsAreLive ==
    ASSUME WellFormed(dir), NEW c \in Live(dir) \cup {Term}
    PROVE  Reads(c) = {q \in Live(dir) : c <= q} \cup {Term}
<1>1. Live(dir) \subseteq Offsets /\ Marks(dir) \subseteq Offsets /\ dir \in Directory /\ Inside(dir)
  BY LiveFacts DEF WellFormed
<1>2. CASE c = Term
  <2>1. {q \in Live(dir) : c <= q} = {}
    BY <1>1, <1>2, Bounds
  <2> QED BY <1>2, <2>1 DEF Reads
<1>3. CASE c \in Live(dir)
  <2>1. c \in Offsets /\ c # Term /\ dir[c].kind = "live" /\ c \in 0..Term /\ c <= c
    BY <1>1, <1>3, Bounds DEF Live
  <2>2. Path(dir, c) \in SUBSET (c..Term)
    BY <2>1, <1>1, PathIs
  <2>3. Sound(dir, Marks(dir) \cup {Term})
    BY MarksSound
  <2>4. ASSUME NEW q \in Live(dir), c <= q PROVE q \in Path(dir, c)
    BY <1>1, <1>3, <2>3, <2>4, PathMeets DEF Marks
  <2>5. \A q : q \in Path(dir, c) \ {Term} /\ dir[q].kind = "live" => q \in Live(dir) /\ c <= q
    BY <2>1, <2>2, Bounds DEF Live
  <2>6. \A q \in Live(dir) : q # Term /\ dir[q].kind = "live"
    BY <1>1, Bounds DEF Live
  <2>7. Reads(c) = {c, Term} \cup {p \in Path(dir, c) \ {Term} : dir[p].kind = "live"}
    BY <2>1, PlaceUntorn DEF Reads, Astray
  <2> QED BY <1>3, <2>1, <2>4, <2>5, <2>6, <2>7
<1> QED BY <1>2, <1>3

\* Reading on from a place adds to the count what lies between.
LEMMA ReadsCount ==
    ASSUME WellFormed(dir), NEW c \in Live(dir) \cup {Term}, NEW p \in Reads(c)
    PROVE  /\ p \in Live(dir) \cup {Term} /\ c <= p
           /\ Cardinality({q \in Reads(c) : q < p}) \in Nat
           /\ Count(dir, p) = Count(dir, c) + Cardinality({q \in Reads(c) : q < p})
<1> DEFINE met == {q \in Reads(c) : q < p}
<1>1. Reads(c) = {q \in Live(dir) : c <= q} \cup {Term}
  BY ReadsAreLive
<1>2. /\ Live(dir) \subseteq Offsets /\ c \in 0..Term /\ p \in 0..Term /\ c <= p
      /\ p \in Live(dir) \cup {Term}
  BY <1>1, LiveFacts, Bounds
<1>3. met = {q \in Live(dir) : c <= q /\ q < p}
  BY <1>1, <1>2, Bounds
<1> HIDE DEF met
<1>4. Before(dir, p) = Before(dir, c) \cup met
  BY <1>2, <1>3, Bounds DEF Before
<1>5. Before(dir, c) \cap met = {}
  BY <1>2, <1>3, Bounds DEF Before
<1>6. IsFiniteSet(Before(dir, c)) /\ IsFiniteSet(met)
  <2>1. met \in SUBSET Live(dir)
    BY <1>3
  <2> QED BY <2>1, CountIs, FS_Subset
<1>7. Cardinality(met) \in Nat /\ Count(dir, c) \in Nat
  BY <1>6, CountIs, FS_CardinalityType
<1>8. Count(dir, p) = Count(dir, c) + Cardinality(met)
  BY <1>4, <1>5, <1>6, <1>7, FS_Union, FS_EmptySet DEF Count
<1> QED BY <1>2, <1>7, <1>8 DEF met

\* seekdir reads from a place to a place, as far as it was told to or to the end.
LEMMA PassedPlaces ==
    ASSUME Fails = FALSE, WellFormed(dir), NEW c \in Live(dir) \cup {Term}, NEW n \in Nat,
           NEW p \in Passed(c, n)
    PROVE  /\ PlaceIn(dir, p.cursor, Count(dir, c) + p.count)
           /\ p.count \in Nat
           /\ p.count = n \/ (p.count < n /\ p.cursor = Term)
<1>0. c = Term \/ TornOn(dir, c) = {}
  BY PlaceUntorn
<1> DEFINE count(q) == Cardinality({k \in Reads(c) : k < q})
<1>1. \E q \in Reads(c) :
         /\ p = [cursor |-> q, count |-> count(q)]
         /\ count(q) = n \/ (count(q) < n /\ \A k \in Reads(c) : k <= q)
  <2>1. ~(c # Term /\ TornOn(dir, c) # {})
    BY <1>0
  <2> QED BY <2>1 DEF Passed
<1>2. PICK q \in Reads(c) :
         /\ p = [cursor |-> q, count |-> count(q)]
         /\ count(q) = n \/ (count(q) < n /\ \A k \in Reads(c) : k <= q)
  BY <1>1
<1>3. /\ q \in Live(dir) \cup {Term} /\ c <= q /\ count(q) \in Nat
      /\ Count(dir, q) = Count(dir, c) + count(q)
  BY ReadsCount
<1> HIDE DEF count
<1>4. p.cursor = q /\ p.count = count(q)
  BY <1>2
<1>5. ASSUME \A k \in Reads(c) : k <= q PROVE q = Term
  <2>1. Term \in Reads(c)
    BY ReadsAreLive
  <2> QED BY <1>3, <1>5, <2>1, LiveFacts, Bounds
<1> QED BY <1>2, <1>3, <1>4, <1>5 DEF PlaceIn

\* And finds the place with as many entries before it.
LEMMA PassedFinds ==
    ASSUME Fails = FALSE, WellFormed(dir), NEW c \in Live(dir) \cup {Term}, NEW n \in Nat,
           NEW p \in Passed(c, n), NEW m, PlaceIn(dir, m, Count(dir, c) + n)
    PROVE  p.cursor = m
<1>1. /\ PlaceIn(dir, p.cursor, Count(dir, c) + p.count) /\ p.count \in Nat
      /\ p.count = n \/ (p.count < n /\ p.cursor = Term)
  BY PassedPlaces
<1>2. Count(dir, c) \in Nat /\ m \in 0..Term /\ Term \in 0..Term /\ m <= Term
  BY CountIs, LiveFacts, Bounds DEF PlaceIn
<1>3. CASE p.count = n
  BY <1>1, <1>3, PlaceUnique DEF PlaceIn
<1>4. CASE p.count < n /\ p.cursor = Term
  <2>1. Count(dir, m) <= Count(dir, Term)
    BY <1>2, CountGrows
  <2>2. Count(dir, m) = Count(dir, c) + n /\ Count(dir, Term) = Count(dir, c) + p.count
    BY <1>1, <1>4 DEF PlaceIn
  <2>3. FALSE
    BY <1>1, <1>2, <1>4, <2>1, <2>2
  <2> QED BY <2>3
<1> QED BY <1>1, <1>3, <1>4

\* readdir goes from a place to the next one.
LEMMA ReadPlaces ==
    ASSUME WellFormed(dir), NEW c \in Live(dir), NEW r \in After(dir, c)
    PROVE  PlaceIn(dir, r, Count(dir, c) + 1)
<1>1. /\ Live(dir) \subseteq Offsets /\ c \in Offsets /\ c # Term /\ dir \in Directory /\ Inside(dir)
      /\ c \in Marks(dir) /\ \A q \in Offsets : q \in Nat
  BY LiveFacts, Bounds DEF WellFormed, Marks
<1>2. /\ r \in Live(dir) \cup {Term} /\ c < r
      /\ \A p \in Live(dir) : c < p => r <= p
  <2> DEFINE P == Marks(dir) \cup {Term}
  <2>1. Sound(dir, P) /\ c \in P \ {Term}
    BY <1>1, MarksSound
  <2> HIDE DEF P
  <2> QED BY <1>1, <2>1, AfterNext
<1>3. r \in Nat
  BY <1>1, <1>2, Bounds
<1>4. Before(dir, r) = Before(dir, c) \cup {c} /\ c \notin Before(dir, c)
  <2>1. \A q \in Live(dir) : q \in Nat
    BY <1>1
  <2>2. \A q \in Live(dir) : q < r <=> q < c \/ q = c
    BY <1>1, <1>2, <1>3, <2>1
  <2> QED BY <1>1, <2>1, <2>2 DEF Before
<1>5. Cardinality(Before(dir, c) \cup {c}) = Cardinality(Before(dir, c)) + 1
  BY <1>4, CountIs, FS_AddElement
<1> QED BY <1>2, <1>4, <1>5 DEF PlaceIn, Count

\* A stream moves to a place, or on from where it is lost.
LEMMA StreamPlaces ==
    ASSUME PlaceInv, NEW s \in Streams, NEW c \in 0..Term, NEW k \in Nat, dir' = dir, mark' = mark,
           cursor' = [cursor EXCEPT ![s] = c], position' = [position EXCEPT ![s] = k],
           \/ settled' = settled \cup {s} /\ PlaceIn(dir, c, k)
           \/ settled' = settled /\ s \notin settled /\ cursor[s] <= c /\ position[s] <= k
    PROVE  Settled' /\ Marked'
<1>1. /\ cursor'[s] = c /\ \A u \in Streams \ {s} : cursor'[u] = cursor[u]
      /\ position'[s] = k /\ \A u \in Streams \ {s} : position'[u] = position[u]
      /\ settled \subseteq Streams /\ \A u \in Streams : cursor[u] \in Nat /\ position[u] \in Nat
      /\ settled' \subseteq Streams /\ c \in Nat
  BY Bounds DEF PlaceInv, IInv, TypeOK
<1>2. Settled'
  BY <1>1 DEF PlaceInv, Settled
<1>3. \A u \in Streams : mark[u].position \in Nat /\ mark[u].cursor \in Nat
  BY Bounds DEF PlaceInv, Marked
<1>4. ASSUME NEW u \in Streams, mark[u].valid, u \notin settled'
      PROVE  mark[u].cursor < cursor'[u] /\ mark[u].position < position'[u]
  <2>1. u \notin settled /\ mark[u].cursor < cursor[u] /\ mark[u].position < position[u]
    BY <1>4 DEF PlaceInv, Marked
  <2>2. CASE u = s
    <3>1. cursor[s] <= c /\ position[s] <= k
      BY <1>4, <2>2
    <3> QED BY <1>1, <1>3, <2>1, <2>2, <3>1
  <2> QED BY <1>1, <2>1, <2>2
<1>5. Marked'
  BY <1>4 DEF PlaceInv, Marked
<1> QED BY <1>2, <1>5

LEMMA BeginPlacesStream ==
    ASSUME PlaceInv, NEW s \in Streams, Begin(s), dir' = dir, mark' = mark
    PROVE  Settled' /\ Marked'
<1>1. PlaceIn(dir, 0, 0) /\ 0 \in 0..Term /\ 0 \in Nat
  BY StartIsPlace, Bounds DEF PlaceInv, IInv
<1> QED BY <1>1, StreamPlaces DEF Begin

\* A directory that changes at an offset keeps the places in front of it.
LEMMA ChangeKeepsPlaces ==
    ASSUME PlaceInv, NEW o \in Offsets, ChangedAt(o), UNCHANGED <<cursor, position>>,
           \A q \in Offsets : q < o => (q \in Live(dir') <=> q \in Live(dir))
    PROVE  Settled' /\ Marked'
<1>1. /\ Live(dir) \subseteq Offsets /\ Live(dir') \subseteq Offsets /\ o \in Nat /\ o < Term
      /\ \A q \in Offsets : q \in Nat
      /\ \A u \in Streams : cursor[u] \in 0..Term /\ cursor[u] \in Nat
      /\ settled \subseteq Streams
  BY LiveFacts, Bounds DEF PlaceInv, IInv, TypeOK
<1>2. ASSUME NEW c, NEW k, PlaceIn(dir, c, k), c < o PROVE PlaceIn(dir', c, k)
  <2>1. c \in Live(dir) /\ c \in Nat /\ c \in Live(dir')
    BY <1>1, <1>2, Bounds DEF PlaceIn
  <2>2. Before(dir', c) = Before(dir, c)
    <3>1. \A q \in Offsets : q < c => q < o
      BY <1>1, <1>2, <2>1
    <3>2. \A q : q \in Live(dir') /\ q < c <=> q \in Live(dir) /\ q < c
      BY <1>1, <3>1
    <3> QED BY <3>2 DEF Before
  <2> QED BY <1>2, <2>1, <2>2 DEF PlaceIn, Count
<1>3. Settled'
  BY <1>2 DEF ChangedAt, PlaceInv, Settled
<1>4. /\ mark' = [s \in Streams |-> IF mark[s].cursor < o THEN mark[s] ELSE Lost]
      /\ settled' = {s \in settled : cursor[s] < o}
  BY DEF ChangedAt
<1>5. Lost \in [position : Nat, cursor : 0..Term, valid : BOOLEAN] /\ Lost.valid = FALSE
  BY Bounds DEF Lost
<1>6. mark' \in [Streams -> [position : Nat, cursor : 0..Term, valid : BOOLEAN]]
  BY <1>4, <1>5 DEF PlaceInv, Marked
<1>7. ASSUME NEW s \in Streams, mark'[s].valid
      PROVE  /\ PlaceIn(dir', mark'[s].cursor, mark'[s].position)
             /\ s \notin settled' => mark'[s].cursor < cursor'[s] /\ mark'[s].position < position'[s]
  <2>1. mark'[s] = mark[s] /\ mark[s].cursor < o /\ mark[s].valid
    BY <1>4, <1>5, <1>7
  <2>2. /\ PlaceIn(dir, mark[s].cursor, mark[s].position)
        /\ s \notin settled => mark[s].cursor < cursor[s] /\ mark[s].position < position[s]
    BY <2>1 DEF PlaceInv, Marked
  <2>3. ASSUME s \in settled, s \notin settled'
        PROVE  mark[s].cursor < cursor[s] /\ mark[s].position < position[s]
    <3>1. ~(cursor[s] < o) /\ PlaceIn(dir, cursor[s], position[s])
      BY <1>4, <2>3 DEF PlaceInv, Settled
    <3>2. mark[s].cursor \in Live(dir) /\ mark[s].cursor \in 0..Term /\ mark[s].cursor \in Nat
      BY <1>1, <2>1, <2>2, Bounds DEF PlaceIn
    <3>3. mark[s].cursor < cursor[s]
      BY <1>1, <2>1, <3>1, <3>2
    <3>4. Count(dir, mark[s].cursor) < Count(dir, cursor[s])
      BY <1>1, <3>2, <3>3, CountGrows
    <3> QED BY <2>2, <3>1, <3>3, <3>4 DEF PlaceIn
  <2> QED BY <1>2, <2>1, <2>2, <2>3
<1>8. Marked'
  BY <1>6, <1>7 DEF Marked
<1> QED BY <1>3, <1>8

LEMMA readdirPlaces ==
    ASSUME Fails = FALSE, PlaceInv, NEW s \in Streams, readdir(s)
    PROVE  Settled' /\ Marked'
<1>1. PICK r \in DirNext(cursor[s]) :
          /\ cursor' = [cursor EXCEPT ![s] = r.cursor]
          /\ position' = [position EXCEPT ![s] = @ + (IF r.name = NoName THEN 0 ELSE 1)]
  BY DEF readdir
<1>2. /\ cursor[s] \in 0..Term /\ cursor[s] \in Nat /\ position[s] \in Nat
      /\ settled \subseteq Streams /\ WellFormed(dir)
  BY Bounds DEF PlaceInv, IInv, TypeOK
<1>3. dir' = dir /\ mark' = mark /\ settled' = settled
  BY DEF readdir
<1>4. s \in settled => PlaceIn(dir, cursor[s], position[s]) /\ settled' = settled \cup {s}
  BY <1>3 DEF PlaceInv, Settled
<1>5. CASE r.name = NoName /\ r.cursor = cursor[s]
  <2> DEFINE k == position[s] + (IF r.name = NoName THEN 0 ELSE 1)
  <2>1. k = position[s]
    BY <1>2, <1>5
  <2>2. position' = [position EXCEPT ![s] = k]
    BY <1>1
  <2> HIDE DEF k
  <2>3. cursor' = [cursor EXCEPT ![s] = cursor[s]] /\ k \in Nat
        /\ cursor[s] <= cursor[s] /\ position[s] <= k
    BY <1>1, <1>2, <1>5, <2>1
  <2>4. CASE s \in settled
    BY <1>2, <1>3, <1>4, <2>1, <2>2, <2>3, <2>4, StreamPlaces
  <2>5. CASE s \notin settled
    BY <1>2, <1>3, <2>2, <2>3, <2>5, StreamPlaces
  <2> QED BY <2>4, <2>5
<1>6. CASE /\ cursor[s] \in Offsets /\ r.name # NoName
           /\ r.cursor \in 0..Term /\ cursor[s] < r.cursor
           /\ r.cursor \in After(dir, cursor[s])
  <2>2. position' = [position EXCEPT ![s] = position[s] + 1] /\ position[s] + 1 \in Nat
    BY <1>1, <1>2, <1>6
  <2>4. CASE s \in settled
    <3>1. cursor[s] \in Live(dir) /\ position[s] = Count(dir, cursor[s])
      BY <1>4, <1>6, <2>4, Bounds DEF PlaceIn
    <3>2. PlaceIn(dir, r.cursor, position[s] + 1)
      BY <1>2, <1>6, <3>1, ReadPlaces
    <3> QED BY <1>1, <1>3, <1>4, <1>6, <2>2, <2>4, <3>2, StreamPlaces
  <2>5. CASE s \notin settled
    <3>1. cursor[s] <= r.cursor /\ position[s] <= position[s] + 1
      BY <1>2, <1>6, Bounds
    <3> QED BY <1>1, <1>3, <1>6, <2>2, <2>5, <3>1, StreamPlaces
  <2> QED BY <2>4, <2>5
<1> QED BY <1>2, <1>5, <1>6, DirNextIs

LEMMA seekdirPlaces ==
    ASSUME Fails = FALSE, PlaceInv, NEW s \in Streams, NEW loc \in Nat, seekdir(s, loc)
    PROVE  /\ Settled' /\ Marked'
           /\ mark[s].valid /\ loc = mark[s].position => cursor'[s] = mark[s].cursor
<1> DEFINE back == position[s] > loc
<1> DEFINE from == IF back THEN 0 ELSE cursor[s]
<1> DEFINE at == IF back THEN 0 ELSE position[s]
<1>1. PICK p \in Passed(from, loc - at) :
          /\ cursor' = [cursor EXCEPT ![s] = p.cursor]
          /\ position' = [position EXCEPT ![s] = at + p.count]
  BY DEF seekdir
<1>2. /\ cursor[s] \in 0..Term /\ cursor[s] \in Nat /\ position[s] \in Nat
      /\ settled \subseteq Streams /\ WellFormed(dir) /\ cursor \in [Streams -> 0..Term]
  BY Bounds DEF PlaceInv, IInv, TypeOK
<1>3. dir' = dir /\ mark' = mark /\ settled' = IF back THEN settled \cup {s} ELSE settled
  BY DEF seekdir
<1>4. from \in 0..Term /\ at \in Nat /\ loc - at \in Nat /\ from \in Nat
  BY <1>2, Bounds
<1>5. back \/ s \in settled => PlaceIn(dir, from, at) /\ settled' = settled \cup {s}
  BY <1>2, <1>3, StartIsPlace DEF PlaceInv, Settled
<1>6. ~back /\ s \notin settled =>
          /\ from = cursor[s] /\ at = position[s] /\ settled' = settled
          /\ mark[s].valid => mark[s].position < position[s]
  BY <1>3 DEF PlaceInv, Marked
<1>7. ~back => position[s] <= loc
  BY <1>2
<1> HIDE DEF from, at, back
<1>8. p.cursor \in 0..Term /\ p.count \in Nat /\ from + p.count <= p.cursor
  BY <1>2, <1>4, PassedIs
<1>9. cursor'[s] = p.cursor /\ at + p.count \in Nat
  BY <1>1, <1>2, <1>4, <1>8
<1>10. CASE back \/ s \in settled
  <2>1. from \in Live(dir) \cup {Term} /\ at = Count(dir, from)
    BY <1>5, <1>10 DEF PlaceIn
  <2>2. PlaceIn(dir, p.cursor, at + p.count)
    BY <1>2, <1>4, <2>1, PassedPlaces
  <2>3. Settled' /\ Marked'
    BY <1>1, <1>3, <1>5, <1>8, <1>9, <1>10, <2>2, StreamPlaces
  <2>4. ASSUME mark[s].valid, loc = mark[s].position PROVE p.cursor = mark[s].cursor
    <3>1. PlaceIn(dir, mark[s].cursor, mark[s].position)
      BY <2>4 DEF PlaceInv, Marked
    <3>2. mark[s].position = Count(dir, from) + (loc - at)
      BY <1>4, <2>1, <2>4
    <3>3. PlaceIn(dir, mark[s].cursor, Count(dir, from) + (loc - at))
      BY <3>1, <3>2
    <3> QED BY <1>2, <1>4, <2>1, <3>3, PassedFinds
  <2> QED BY <1>9, <2>3, <2>4
<1>11. CASE ~back /\ s \notin settled
  <2>1. cursor[s] <= p.cursor /\ position[s] <= at + p.count
    BY <1>2, <1>4, <1>6, <1>8, <1>11, Bounds
  <2>2. Settled' /\ Marked'
    BY <1>1, <1>6, <1>3, <1>8, <1>9, <1>11, <2>1, StreamPlaces
  <2>3. ~(mark[s].valid /\ loc = mark[s].position)
    <3>1. ASSUME mark[s].valid, loc = mark[s].position PROVE FALSE
      BY <1>2, <1>6, <1>7, <1>11, <3>1
    <3> QED BY <3>1
  <2> QED BY <2>2, <2>3
<1> QED BY <1>10, <1>11

LEMMA InitPlaces == Init => PlaceInv
<1> SUFFICES ASSUME Init PROVE PlaceInv
  OBVIOUS
<1>1. IInv /\ WellFormed(dir)
  BY InitInv DEF IInv
<1>2. PlaceIn(dir, 0, 0)
  BY <1>1, StartIsPlace
<1>3. /\ \A s \in Streams : mark[s] = AtStart
      /\ mark \in [Streams -> [position : Nat, cursor : 0..Term, valid : BOOLEAN]]
  BY Bounds DEF Init, AtStart
<1>4. Settled
  BY <1>2 DEF Init, Settled
<1>5. Marked
  BY <1>2, <1>3 DEF Init, Marked, AtStart
<1> QED BY <1>1, <1>4, <1>5 DEF PlaceInv

LEMMA telldirPlaces ==
    ASSUME PlaceInv, NEW s \in Streams, telldir(s)
    PROVE  Settled' /\ Marked'
<1> DEFINE told == IF s \in settled
                   THEN [position |-> position[s], cursor |-> cursor[s], valid |-> TRUE]
                   ELSE Lost
<1>1. mark' = [mark EXCEPT ![s] = told] /\ UNCHANGED <<dir, cursor, position, settled>>
  BY DEF telldir
<1>2. cursor[s] \in 0..Term /\ position[s] \in Nat
  BY Bounds DEF PlaceInv, IInv, TypeOK
<1>3. /\ told \in [position : Nat, cursor : 0..Term, valid : BOOLEAN]
      /\ told.valid => s \in settled /\ PlaceIn(dir, told.cursor, told.position)
  <2>1. CASE s \in settled
    <3>1. PlaceIn(dir, cursor[s], position[s])
      BY <2>1 DEF PlaceInv, Settled
    <3> QED BY <1>2, <2>1, <3>1
  <2>2. CASE s \notin settled
    BY <2>2, Bounds DEF Lost
  <2> QED BY <2>1, <2>2
<1> HIDE DEF told
<1>4. Settled'
  BY <1>1 DEF PlaceInv, Settled
<1>5. mark'[s] = told /\ \A u \in Streams \ {s} : mark'[u] = mark[u]
  BY <1>1 DEF PlaceInv, Marked
<1>6. mark' \in [Streams -> [position : Nat, cursor : 0..Term, valid : BOOLEAN]]
  BY <1>1, <1>3 DEF PlaceInv, Marked
<1>7. ASSUME NEW u \in Streams, mark'[u].valid
      PROVE  /\ PlaceIn(dir', mark'[u].cursor, mark'[u].position)
             /\ u \notin settled' => mark'[u].cursor < cursor'[u] /\ mark'[u].position < position'[u]
  BY <1>1, <1>3, <1>5, <1>7 DEF PlaceInv, Marked
<1>8. Marked'
  BY <1>6, <1>7 DEF Marked
<1> QED BY <1>4, <1>8

LEMMA closedirPlaces ==
    ASSUME PlaceInv, NEW s \in Streams, closedir(s)
    PROVE  Settled' /\ Marked'
<1>1. PlaceIn(dir, 0, 0) /\ 0 \in 0..Term
  BY StartIsPlace, Bounds DEF PlaceInv, IInv
<1>2. /\ dir' = dir /\ settled' = settled \cup {s}
      /\ cursor' = [cursor EXCEPT ![s] = 0] /\ position' = [position EXCEPT ![s] = 0]
      /\ mark' = [mark EXCEPT ![s] = AtStart]
  BY DEF closedir, Begin
<1>3. /\ cursor'[s] = 0 /\ position'[s] = 0 /\ mark'[s] = AtStart
      /\ \A u \in Streams \ {s} :
            cursor'[u] = cursor[u] /\ position'[u] = position[u] /\ mark'[u] = mark[u]
      /\ settled \subseteq Streams
  BY <1>2 DEF PlaceInv, IInv, TypeOK, Marked
<1>4. Settled'
  BY <1>1, <1>2, <1>3 DEF PlaceInv, Settled
<1>5. AtStart \in [position : Nat, cursor : 0..Term, valid : BOOLEAN]
      /\ AtStart.cursor = 0 /\ AtStart.position = 0
  BY <1>1 DEF AtStart
<1>6. mark' \in [Streams -> [position : Nat, cursor : 0..Term, valid : BOOLEAN]]
  BY <1>2, <1>5 DEF PlaceInv, Marked
<1>7. ASSUME NEW u \in Streams, mark'[u].valid
      PROVE  /\ PlaceIn(dir', mark'[u].cursor, mark'[u].position)
             /\ u \notin settled' => mark'[u].cursor < cursor'[u] /\ mark'[u].position < position'[u]
  <2>1. CASE u = s
    BY <1>1, <1>2, <1>3, <1>5, <2>1
  <2>2. CASE u # s
    BY <1>2, <1>3, <1>7, <2>2 DEF PlaceInv, Marked
  <2> QED BY <2>1, <2>2
<1>8. Marked'
  BY <1>6, <1>7 DEF Marked
<1> QED BY <1>4, <1>8

LEMMA KeepPlaces ==
    ASSUME Fails = FALSE
    PROVE  PlaceInv /\ [Next]_vars => PlaceInv'
<1> SUFFICES ASSUME PlaceInv, [Next]_vars PROVE Settled' /\ Marked'
  BY KeepIInv DEF PlaceInv
<1>1. ASSUME NEW s \in Streams, opendir(s) PROVE Settled' /\ Marked'
  BY <1>1, BeginPlacesStream DEF opendir
<1>2. ASSUME NEW s \in Streams, rewinddir(s) PROVE Settled' /\ Marked'
  BY <1>2, BeginPlacesStream DEF rewinddir
<1>3. CASE UNCHANGED <<dir, cursor, position, settled, mark>>
  BY <1>3 DEF PlaceInv, Settled, Marked
<1>4. ASSUME NEW s \in Streams, readdir_r(s) PROVE Settled' /\ Marked'
  BY <1>3, <1>4, readdirPlaces DEF readdir_r
<1>5. ASSUME NEW s \in Streams, NEW loc \in 0..Term, seekdir(s, loc) PROVE Settled' /\ Marked'
  <2>1. loc \in Nat
    BY Bounds
  <2> QED BY <1>5, <2>1, seekdirPlaces
<1>6. ASSUME NEW n \in Names, Create(n) PROVE Settled' /\ Marked'
  <2>1. PICK f \in Offsets, q \in Offsets : Wrote(dir, dir', n, f, q) /\ At(dir', n) = q
    BY <1>6, CreateIs DEF PlaceInv
  <2>2. Live(dir') = Live(dir) \cup {q}
    BY <1>6, <2>1, Inserted DEF PlaceInv, IInv, Create
  <2>3. \A o \in Offsets : o < q => (o \in Live(dir') <=> o \in Live(dir))
    BY <2>2, Bounds
  <2> QED BY <1>6, <2>1, <2>3, ChangeKeepsPlaces DEF Create
<1>7. ASSUME NEW n \in Names, Delete(n) PROVE Settled' /\ Marked'
  <2> DEFINE at == At(dir, n)
  <2>1. at \in Offsets
    BY <1>7, AtIs, LiveFacts DEF Delete, PlaceInv, IInv
  <2>2. Live(dir') = Live(dir) \ {at}
    BY <1>7, Removed DEF Delete, PlaceInv, IInv
  <2>3. \A o \in Offsets : o < at => (o \in Live(dir') <=> o \in Live(dir))
    BY <2>1, <2>2, Bounds
  <2> QED BY <1>7, <2>1, <2>3, ChangeKeepsPlaces DEF Delete
<1>8. CASE UNCHANGED vars
  BY <1>3, <1>8 DEF vars
<1> QED
  BY <1>1, <1>2, <1>4, <1>5, <1>6, <1>7, <1>8, closedirPlaces, readdirPlaces, telldirPlaces
     DEF Next

\* seekdir with the value of telldir leads back to where telldir was called, from
\* any place the stream was moved to, as long as nothing changed before the place
\* and no read fails: position counts what lies before the cursor, also after a
\* seekdir that stopped at the end.
THEOREM ToldPlacesAreFound ==
    ASSUME Fails = FALSE
    PROVE  Spec => ToldPlaceIsFound
<1>1. PlaceInv => \A s \in open : seekdir(s, mark[s].position) /\ mark[s].valid
                                      => cursor'[s] = mark[s].cursor
  <2> SUFFICES ASSUME PlaceInv, NEW s \in open, seekdir(s, mark[s].position), mark[s].valid
               PROVE  cursor'[s] = mark[s].cursor
    OBVIOUS
  <2>1. s \in Streams
    BY DEF PlaceInv, IInv, TypeOK
  <2>2. mark[s].position \in Nat
    BY <2>1 DEF PlaceInv, Marked
  <2> QED BY <2>1, <2>2, seekdirPlaces
<1>2. Spec => []PlaceInv
  BY InitPlaces, KeepPlaces, PTL DEF Spec
<1> QED BY <1>1, <1>2, PTL DEF ToldPlaceIsFound

=============================================================================
