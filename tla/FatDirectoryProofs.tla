------------------------- MODULE FatDirectoryProofs -------------------------
(***************************************************************************)
(* Proofs about a directory (FatDirectoryProps): what is found in it is    *)
(* what was put there, for names of any length, any checksum and clusters  *)
(* of any size, and it implements a table of names.                        *)
(***************************************************************************)
EXTENDS FatDirectoryProps, SequenceTheorems, WellFoundedInduction, TLAPS

-----------------------------------------------------------------------------
(* Numbers and slots *)

(* A set of natural numbers has a least element *)
LEMMA Least ==
    ASSUME NEW T \in SUBSET Nat, T # {}
    PROVE  \E x \in T : \A y \in T : x <= y
<1>1. PICK R : /\ \E x \in T : \A y \in T : ~(<<y, x>> \in R)
               /\ \A x, y \in Nat : x < y => <<x, y>> \in R
  <2>1. IsWellFoundedOn(OpToRel(<, Nat), Nat)
    BY NatLessThanWellFounded
  <2>2. \A x, y \in Nat : x < y => <<x, y>> \in OpToRel(<, Nat)
    BY Zenon DEF OpToRel
  <2>3. \E x \in T : \A y \in T : ~(<<y, x>> \in OpToRel(<, Nat))
    BY <2>1, WFMin, Zenon
  <2>4. QED BY <2>2, <2>3, Zenon
<1>2. PICK x \in T : \A y \in T : ~(<<y, x>> \in R)
  BY <1>1
<1>3. ASSUME NEW y \in T PROVE x <= y
  <2>1. x \in Nat /\ y \in Nat
    OBVIOUS
  <2>2. ~(y < x)
    BY <1>1, <1>2, <2>1
  <2>3. QED BY <2>1, <2>2
<1>4. QED BY <1>3

(* A set of natural numbers below a bound has a greatest one *)
LEMMA Greatest ==
    ASSUME NEW b \in Nat, NEW T \in SUBSET (0 .. b), T # {}
    PROVE  \E x \in T : \A y \in T : y <= x
<1> DEFINE U == {b - x : x \in T}
<1>1. U \in SUBSET Nat /\ U # {}
  OBVIOUS
<1>2. PICK u \in U : \A v \in U : u <= v
  BY <1>1, Least
<1>3. PICK x \in T : u = b - x
  OBVIOUS
<1>4. ASSUME NEW y \in T PROVE y <= x
  <2>1. b - y \in U
    OBVIOUS
  <2>2. b - x <= b - y
    BY <1>2, <1>3, <2>1
  <2>3. x \in Nat /\ y \in Nat
    OBVIOUS
  <2>4. QED BY <2>2, <2>3
<1>5. QED BY <1>4

(* What the slots are *)
LEMMA SlotKinds ==
    ASSUME NEW s \in Slot
    PROVE  /\ s.kind \in {"last", "free", "gone", "volume", "lfn", "alias"}
           /\ s.kind = "last" <=> s = Last
           /\ s.kind = "alias" => s.alias \in Aliases /\ s.file \in Files
           /\ s.kind = "lfn" => s.name \in LongNames
<1>1. CASE s \in {Last, Free, Gone, Volume}
  BY <1>1 DEF Last, Free, Gone, Volume
<1>2. ASSUME NEW n \in LongNames, s \in LfnSlots(n)
      PROVE  s.kind = "lfn" /\ s.name \in LongNames
  <2>1. PICK k \in 1 .. Parts[n], a \in Aliases : s = LfnSlot(n, k, k = Parts[n], CheckSum[a])
    BY <1>2 DEF LfnSlots
  <2>2. QED BY <2>1 DEF LfnSlot
<1>3. ASSUME NEW a \in Aliases, NEW f \in Files, s = AliasSlot(a, f)
      PROVE  s.kind = "alias" /\ s.alias \in Aliases /\ s.file \in Files
  BY <1>3 DEF AliasSlot
<1>4. \/ s \in {Last, Free, Gone, Volume}
      \/ \E n \in LongNames : s \in LfnSlots(n)
      \/ \E a \in Aliases, f \in Files : s = AliasSlot(a, f)
  <2> DEFINE L == UNION {LfnSlots(n) : n \in LongNames}
             A == {AliasSlot(a, f) : a \in Aliases, f \in Files}
  <2>1. Slot = {Last, Free, Gone, Volume} \cup L \cup A
    BY DEF Slot
  <2>2. s \in L => \E n \in LongNames : s \in LfnSlots(n)
    OBVIOUS
  <2>3. s \in A => \E a \in Aliases, f \in Files : s = AliasSlot(a, f)
    OBVIOUS
  <2> HIDE DEF L, A
  <2>4. QED BY <2>1, <2>2, <2>3
<1>5. Last.kind = "last"
  BY DEF Last
<1>6. QED BY <1>1, <1>2, <1>3, <1>4, <1>5

(* and which there are *)
LEMMA SlotsMade ==
    /\ {Last, Free, Gone, Volume} \subseteq Slot
    /\ \A a \in Aliases, f \in Files : AliasSlot(a, f) \in Slot
    /\ \A n \in LongNames, a \in Aliases : \A k \in 1 .. Parts[n] : LfnSlot(n, k, k = Parts[n], CheckSum[a]) \in Slot
<1>1. \A n \in LongNames, a \in Aliases : \A k \in 1 .. Parts[n] : LfnSlot(n, k, k = Parts[n], CheckSum[a]) \in LfnSlots(n)
  BY DEF LfnSlots
<1>2. \A n \in LongNames : LfnSlots(n) \subseteq Slot
  BY DEF Slot
<1> DEFINE L == UNION {LfnSlots(n) : n \in LongNames}
           A == {AliasSlot(a, f) : a \in Aliases, f \in Files}
<1>3. \A a \in Aliases, f \in Files : AliasSlot(a, f) \in A
  OBVIOUS
<1>4. Slot = {Last, Free, Gone, Volume} \cup L \cup A
  BY DEF Slot
<1> HIDE DEF L, A
<1>5. QED BY <1>1, <1>2, <1>3, <1>4

-----------------------------------------------------------------------------
(* The slots as entries *)

AliasSlots(d) == {q \in DOMAIN d : d[q].kind = "alias"}

(* The slots before q are those of the long name n *)
IsLong(d, q, n) ==
    /\ q - Parts[n] \in DOMAIN d
    /\ \A k \in 1 .. Parts[n] : d[q - k] = LfnSlot(n, k, k = Parts[n], CheckSum[d[q].alias])

IsShort(d, q) == q = 1 \/ d[q - 1].kind # "lfn"

(* Every alias has all slots of its long name, or none, and every slot of  *)
(* a long name belongs to an alias                                         *)
Whole(d) ==
    /\ \A q \in AliasSlots(d) : IsShort(d, q) \/ \E n \in LongNames : IsLong(d, q, n)
    /\ \A i \in DOMAIN d : d[i].kind = "lfn" =>
          \E q \in AliasSlots(d), n \in LongNames : IsLong(d, q, n) /\ i \in q - Parts[n] .. q - 1

(* The directory ends with one Last or more, and there is none before *)
EndsAt(d, e) == e \in DOMAIN d /\ \A i \in DOMAIN d : d[i] = Last <=> i >= e

(* What the entry of the alias in slot q is *)
FileName(d, q) == IF IsShort(d, q) THEN d[q].alias ELSE d[q - 1].name

StartOf(d, q) == IF IsShort(d, q) THEN q ELSE q - Parts[d[q - 1].name]

EntryAt(d, q) ==
    [filename |-> FileName(d, q), alias |-> d[q].alias, file |-> d[q].file,
     dataStart |-> StartOf(d, q), dataEnd |-> q]

FilesDiffer(d) == \A p, q \in AliasSlots(d) : d[p].file = d[q].file => p = q

-----------------------------------------------------------------------------
(* The inductive invariant *)

DirInv == Whole(dir) /\ (\E e \in DOMAIN dir : EndsAt(dir, e)) /\ FilesDiffer(dir)

-----------------------------------------------------------------------------
(* A scan finds the entries as they are *)

(* The slots of a directory *)
LEMMA SlotTypes ==
    ASSUME NEW d \in Seq(Slot)
    PROVE  /\ Len(d) \in Nat /\ DOMAIN d = 1 .. Len(d) /\ \A i \in 1 .. Len(d) : d[i] \in Slot
           /\ \A q \in AliasSlots(d) : q \in 1 .. Len(d) /\ q \in Nat /\ d[q].kind = "alias"
                                       /\ d[q].alias \in Aliases /\ d[q].file \in Files
<1>1. Len(d) \in Nat /\ DOMAIN d = 1 .. Len(d) /\ \A i \in 1 .. Len(d) : d[i] \in Slot
  OBVIOUS
<1>2. ASSUME NEW q \in AliasSlots(d)
      PROVE  q \in 1 .. Len(d) /\ q \in Nat /\ d[q].kind = "alias" /\ d[q].alias \in Aliases /\ d[q].file \in Files
  <2>1. q \in 1 .. Len(d) /\ q \in Nat /\ d[q].kind = "alias" /\ d[q] \in Slot
    BY <1>1 DEF AliasSlots
  <2>2. QED BY <2>1, SlotKinds
<1>3. QED BY <1>1, <1>2

(* A long name has a slot at least *)
LEMMA PartsType ==
    ASSUME NEW n \in LongNames
    PROVE  Parts[n] \in Nat /\ Parts[n] >= 1
BY DirectoryAssumption

(* The slots of a long name and its alias *)
LEMMA LongFacts ==
    ASSUME NEW d \in Seq(Slot), NEW q \in AliasSlots(d), NEW n \in LongNames, IsLong(d, q, n)
    PROVE  /\ q - Parts[n] \in 1 .. Len(d) /\ q - Parts[n] < q /\ ~IsShort(d, q)
           /\ FileName(d, q) = n /\ StartOf(d, q) = q - Parts[n]
           /\ \A i \in q - Parts[n] .. q - 1 :
                /\ d[i] = LfnSlot(n, q - i, q - i = Parts[n], CheckSum[d[q].alias])
                /\ d[i].kind = "lfn" /\ d[i].name = n /\ d[i].ordinal = q - i
                /\ d[i].end <=> i = q - Parts[n]
                /\ d[i].checkSum = CheckSum[d[q].alias]
<1>1. Parts[n] \in Nat /\ Parts[n] >= 1 /\ q \in Nat /\ DOMAIN d = 1 .. Len(d) /\ Len(d) \in Nat
  BY PartsType, SlotTypes
<1>2. q - Parts[n] \in 1 .. Len(d) /\ q - Parts[n] < q
  BY <1>1 DEF IsLong
<1>3. ASSUME NEW i \in q - Parts[n] .. q - 1
      PROVE  /\ d[i] = LfnSlot(n, q - i, q - i = Parts[n], CheckSum[d[q].alias])
             /\ d[i].kind = "lfn" /\ d[i].name = n /\ d[i].ordinal = q - i
             /\ d[i].end <=> i = q - Parts[n]
             /\ d[i].checkSum = CheckSum[d[q].alias]
  <2>1. q - i \in 1 .. Parts[n] /\ q - (q - i) = i /\ (q - i = Parts[n] <=> i = q - Parts[n])
    BY <1>1
  <2>2. d[i] = LfnSlot(n, q - i, q - i = Parts[n], CheckSum[d[q].alias])
    BY <2>1 DEF IsLong
  <2>3. d[i].end <=> q - i = Parts[n]
    <3>1. \A k, e, c : LfnSlot(n, k, e, c).end = e
      BY DEF LfnSlot
    <3>2. PICK e \in BOOLEAN : e = (q - i = Parts[n])
      OBVIOUS
    <3>3. d[i] = LfnSlot(n, q - i, e, CheckSum[d[q].alias])
      BY <2>2, <3>2
    <3>4. d[i].end = e
      BY <3>1, <3>3
    <3>5. QED BY <3>2, <3>4
  <2>4. d[i].kind = "lfn" /\ d[i].name = n /\ d[i].ordinal = q - i /\ d[i].checkSum = CheckSum[d[q].alias]
    BY <2>2 DEF LfnSlot
  <2>5. QED BY <2>1, <2>2, <2>3, <2>4
<1>4. q - 1 \in q - Parts[n] .. q - 1 /\ q # 1
  BY <1>1, <1>2
<1>5. ~IsShort(d, q) /\ d[q - 1].name = n
  BY <1>3, <1>4 DEF IsShort
<1>6. QED BY <1>2, <1>3, <1>5 DEF FileName, StartOf

(* A slot of a long name behind the last file before q belongs to q *)
LEMMA OwnerOfSlot ==
    ASSUME NEW d \in Seq(Slot), Whole(d), NEW q \in AliasSlots(d), NEW s \in 1 .. q - 1,
           \A r \in s .. q - 1 : r \notin AliasSlots(d), d[s].kind = "lfn"
    PROVE  \E n \in LongNames : IsLong(d, q, n) /\ s \in q - Parts[n] .. q - 1
<1>1. q \in 1 .. Len(d) /\ q \in Nat /\ d[q].kind = "alias" /\ Len(d) \in Nat /\ s \in DOMAIN d
  BY SlotTypes
<1>2. PICK t \in AliasSlots(d), n \in LongNames : IsLong(d, t, n) /\ s \in t - Parts[n] .. t - 1
  BY <1>1 DEF Whole
<1>3. t \in Nat /\ Parts[n] \in Nat
  BY SlotTypes, PartsType
<1>4. s < t /\ t - Parts[n] <= s
  BY <1>1, <1>2, <1>3
<1>5. ~(t < q)
  BY <1>1, <1>3, <1>4
<1>6. ~(q < t)
  <2>1. q < t => q \in t - Parts[n] .. t - 1
    BY <1>1, <1>3, <1>4
  <2>2. q < t => d[q].kind = "lfn"
    BY <1>2, <2>1, LongFacts
  <2>3. QED BY <1>1, <2>2
<1>7. t = q
  BY <1>1, <1>3, <1>5, <1>6
<1>8. QED BY <1>2, <1>7

(* What getNextEntry puts together at q, when it comes from the entry      *)
(* before it, is the entry at q                                            *)
LEMMA ScannedEntry ==
    ASSUME dir \in Seq(Slot), Whole(dir), NEW q \in AliasSlots(dir), NEW p \in 0 .. q - 1,
           p = 0 \/ p \in AliasSlots(dir), \A r \in p + 1 .. q - 1 : r \notin AliasSlots(dir)
    PROVE  EntryIn(p, q) = EntryAt(dir, q)
<1>1. q \in 1 .. Len(dir) /\ q \in Nat /\ dir[q].kind = "alias" /\ Len(dir) \in Nat
  BY SlotTypes
<1>2. ASSUME NEW s \in p + 1 .. q - 1, dir[s].kind = "lfn"
      PROVE  \E n \in LongNames : IsLong(dir, q, n) /\ s \in q - Parts[n] .. q - 1
  <2>1. s \in 1 .. q - 1 /\ \A r \in s .. q - 1 : r \in p + 1 .. q - 1
    BY <1>1
  <2>2. QED BY <1>2, <2>1, OwnerOfSlot
<1>3. CASE IsShort(dir, q)
  <2>1. LfnStart(p, q) = {}
    BY <1>2, <1>3, LongFacts DEF LfnStart
  <2>2. QED BY <1>3, <2>1 DEF EntryIn, EntryAt, FileName, StartOf
<1>4. CASE ~IsShort(dir, q)
  <2>1. PICK n \in LongNames : IsLong(dir, q, n)
    BY <1>4 DEF Whole
  <2> DEFINE b == q - Parts[n]
  <2>2. /\ b \in 1 .. Len(dir) /\ b < q
        /\ FileName(dir, q) = n /\ StartOf(dir, q) = b
        /\ \A i \in b .. q - 1 :
             /\ dir[i].kind = "lfn" /\ dir[i].name = n /\ dir[i].ordinal = q - i
             /\ dir[i].end <=> i = b
             /\ dir[i].checkSum = CheckSum[dir[q].alias]
    BY <2>1, LongFacts
  <2>3. Parts[n] \in Nat /\ Parts[n] >= 1 /\ b \in Nat
    BY <2>2, PartsType
  <2>4. b \in p + 1 .. q - 1 /\ b \in b .. q - 1
    <3>1. p >= b => p \in b .. q - 1 /\ p # 0
      BY <1>1, <2>2, <2>3
    <3>2. p >= b => dir[p].kind = "lfn" /\ dir[p].kind = "alias"
      BY <2>2, <3>1, SlotTypes
    <3>3. QED BY <1>1, <2>2, <2>3, <3>2
  <2>5. b \in LfnStart(p, q)
    <3>1. ASSUME NEW r \in b + 1 .. q - 1
          PROVE  dir[r].kind = "lfn" /\ ~dir[r].end /\ dir[r].checkSum = dir[b].checkSum
      <4>1. r \in b .. q - 1 /\ r # b
        BY <1>1, <2>3
      <4>2. QED BY <2>2, <2>4, <4>1
    <3>2. dir[b].kind = "lfn" /\ dir[b].end /\ dir[b].checkSum = CheckSum[dir[q].alias]
      BY <2>2, <2>4
    <3>3. QED BY <2>4, <3>1, <3>2 DEF LfnStart
  <2>6. ASSUME NEW s \in LfnStart(p, q) PROVE s = b
    <3>1. s \in p + 1 .. q - 1 /\ dir[s].kind = "lfn" /\ dir[s].end
      BY DEF LfnStart
    <3>2. PICK m \in LongNames : IsLong(dir, q, m) /\ s \in q - Parts[m] .. q - 1
      BY <1>2, <3>1
    <3>3. FileName(dir, q) = m
      BY <3>2, LongFacts
    <3>4. s \in b .. q - 1
      BY <2>2, <3>2, <3>3
    <3>5. QED BY <2>2, <3>1, <3>4
  <2>7. LfnStart(p, q) = {b}
    BY <2>5, <2>6
  <2>8. LongName(b, q) = n
    <3> DEFINE whole == {m \in LongNames :
                          \A k \in 1 .. dir[b].ordinal :
                             \E r \in b .. q - 1 :
                                dir[r].kind = "lfn" /\ dir[r].ordinal = k /\ dir[r].name = m}
    <3>1. dir[b].ordinal = Parts[n]
      <4>1. dir[b].ordinal = q - b
        BY <2>2, <2>4
      <4>2. QED BY <1>1, <2>3, <4>1
    <3>2. n \in whole
      <4>1. ASSUME NEW k \in 1 .. Parts[n]
            PROVE  q - k \in b .. q - 1 /\ dir[q - k].kind = "lfn" /\ dir[q - k].ordinal = k /\ dir[q - k].name = n
        <5>1. q - k \in b .. q - 1 /\ q - (q - k) = k
          BY <1>1, <2>3
        <5>2. QED BY <2>2, <5>1
      <4>2. QED BY <3>1, <4>1
    <3>3. ASSUME NEW m \in whole PROVE m = n
      <4>1. 1 \in 1 .. dir[b].ordinal
        BY <2>3, <3>1
      <4>2. PICK r \in b .. q - 1 : dir[r].name = m
        BY <4>1
      <4>3. QED BY <2>2, <4>2
    <3>4. whole = {n}
      BY <3>2, <3>3
    <3> HIDE DEF whole
    <3>5. whole # {} /\ (CHOOSE m \in whole : TRUE) = n
      BY <3>4
    <3>6. QED BY <3>5 DEF LongName, whole
  <2> HIDE DEF b
  <2>9. (CHOOSE x \in LfnStart(p, q) : TRUE) = b /\ LfnStart(p, q) # {}
    BY <2>7
  <2>10. QED BY <2>2, <2>8, <2>9 DEF EntryIn, EntryAt
<1>5. QED BY <1>3, <1>4

(* The end of the directory *)
LEMMA EndFound ==
    ASSUME dir \in Seq(Slot), NEW e, EndsAt(dir, e)
    PROVE  EndSlot = e
<1>1. Len(dir) \in Nat /\ e \in 1 .. Len(dir) /\ \A i \in 1 .. Len(dir) : dir[i] = Last <=> i >= e
  BY SlotTypes DEF EndsAt
<1>2. e \in 1 .. Len(dir) + 1 /\ (e <= Len(dir) => dir[e] = Last) /\ \A j \in 1 .. e - 1 : dir[j] # Last
  BY <1>1
<1>3. ASSUME NEW i \in 1 .. Len(dir) + 1, i <= Len(dir) => dir[i] = Last, \A j \in 1 .. i - 1 : dir[j] # Last
      PROVE  i = e
  <2>1. ~(e < i)
    <3>1. dir[e] = Last /\ e \in Nat
      BY <1>1
    <3>2. e < i => e \in 1 .. i - 1
      BY <1>1
    <3>3. QED BY <1>3, <3>1, <3>2
  <2>2. i <= Len(dir) => i >= e
    BY <1>1, <1>3
  <2>3. QED BY <1>1, <2>1, <2>2
<1>4. QED BY <1>2, <1>3 DEF EndSlot

(* The last file before a file, or the start of the directory *)
LEMMA PreviousFound ==
    ASSUME NEW d \in Seq(Slot), NEW q \in AliasSlots(d)
    PROVE  \E p \in {0} \cup AliasSlots(d) : p < q /\ \A r \in AliasSlots(d) : r < q => r <= p
<1>1. q \in Nat /\ Len(d) \in Nat /\ \A r \in AliasSlots(d) : r \in 1 .. Len(d)
  BY SlotTypes
<1> DEFINE B == {r \in AliasSlots(d) : r < q}
<1>2. CASE B = {}
  <2>1. 0 < q /\ \A r \in AliasSlots(d) : ~(r < q)
    BY <1>1, <1>2, SlotTypes
  <2>2. QED BY <2>1
<1>3. CASE B # {}
  <2>1. \A r \in B : r \in 0 .. Len(d)
    BY <1>1
  <2> HIDE DEF B
  <2>5. B \in SUBSET (0 .. Len(d))
    BY <2>1
  <2>2. PICK p \in B : \A r \in B : r <= p
    BY <1>1, <1>3, <2>5, Greatest
  <2> USE DEF B
  <2>3. p \in AliasSlots(d) /\ p < q /\ \A r \in AliasSlots(d) : r < q => r <= p
    BY <2>2
  <2>4. QED BY <2>3
<1>4. QED BY <1>2, <1>3

(* Entries is the set of the entries of the slots *)
LEMMA EntriesFound ==
    ASSUME dir \in Seq(Slot), Whole(dir), NEW e, EndsAt(dir, e)
    PROVE  Entries = {EntryAt(dir, q) : q \in AliasSlots(dir)}
<1> DEFINE slots == {q \in 1 .. EndSlot - 1 : dir[q].kind = "alias"}
           prev(q) == CHOOSE p \in {0} \cup slots : p < q /\ \A r \in slots : r < q => r <= p
<1>1. Len(dir) \in Nat /\ e \in 1 .. Len(dir) /\ \A i \in 1 .. Len(dir) : dir[i] = Last <=> i >= e
  BY SlotTypes DEF EndsAt
<1>2. slots = AliasSlots(dir)
  <2>1. EndSlot = e
    BY EndFound
  <2>2. ASSUME NEW q \in AliasSlots(dir) PROVE q \in 1 .. e - 1
    <3>1. q \in 1 .. Len(dir) /\ dir[q].kind = "alias"
      BY SlotTypes
    <3>2. dir[q] # Last
      BY <3>1 DEF Last
    <3>3. QED BY <1>1, <3>1, <3>2
  <2>3. \A q \in 1 .. e - 1 : q \in 1 .. Len(dir)
    BY <1>1
  <2>4. QED BY <2>1, <2>2, <2>3, SlotTypes DEF AliasSlots
<1>3. Entries = {EntryIn(prev(q), q) : q \in slots}
  BY DEF Entries
<1> HIDE DEF slots
<1>4. ASSUME NEW q \in slots PROVE EntryIn(prev(q), q) = EntryAt(dir, q)
  <2>1. \E p \in {0} \cup slots : p < q /\ \A r \in slots : r < q => r <= p
    BY <1>2, PreviousFound
  <2>2. prev(q) \in {0} \cup slots /\ prev(q) < q /\ \A r \in slots : r < q => r <= prev(q)
    BY <2>1
  <2> HIDE DEF prev
  <2>3. q \in AliasSlots(dir) /\ q \in Nat /\ prev(q) \in Nat /\ \A r \in slots : r \in Nat
    BY <1>2, <2>2, SlotTypes
  <2>4. prev(q) \in 0 .. q - 1 /\ \A r \in prev(q) + 1 .. q - 1 : r \notin slots
    BY <2>2, <2>3
  <2>5. QED BY <1>2, <2>2, <2>3, <2>4, ScannedEntry
<1> HIDE DEF prev
<1>5. QED BY <1>2, <1>3, <1>4

-----------------------------------------------------------------------------
(* The slots of an entry are put into slots that are not in use, and taken *)

(* The slots of the entry in q *)
Region(d, q) == StartOf(d, q) .. q

(* are those of its long name before that of its alias *)
LEMMA RegionKinds ==
    ASSUME NEW d \in Seq(Slot), Whole(d), NEW q \in AliasSlots(d)
    PROVE  /\ StartOf(d, q) \in 1 .. q /\ q \in Region(d, q)
           /\ \A i \in Region(d, q) : i \in 1 .. Len(d) /\ (i # q => d[i].kind = "lfn")
<1>1. q \in 1 .. Len(d) /\ q \in Nat /\ Len(d) \in Nat
  BY SlotTypes
<1>2. CASE IsShort(d, q)
  <2>1. StartOf(d, q) = q
    BY <1>2 DEF StartOf
  <2>2. QED BY <1>1, <2>1 DEF Region
<1>3. CASE ~IsShort(d, q)
  <2>1. PICK n \in LongNames : IsLong(d, q, n)
    BY <1>3 DEF Whole
  <2>2. PICK b \in 1 .. Len(d) : b < q /\ StartOf(d, q) = b /\ \A i \in b .. q - 1 : d[i].kind = "lfn"
    BY <2>1, LongFacts
  <2>3. QED BY <1>1, <2>2 DEF Region
<1>4. QED BY <1>2, <1>3

(* Two entries share no slot *)
LEMMA RegionsApart ==
    ASSUME NEW d \in Seq(Slot), Whole(d), NEW p \in AliasSlots(d), NEW q \in AliasSlots(d), p # q
    PROVE  Region(d, p) \cap Region(d, q) = {}
<1>1. ASSUME NEW x \in AliasSlots(d), NEW y \in AliasSlots(d), x < y, NEW i \in Region(d, x), i \in Region(d, y)
      PROVE  FALSE
  <2>1. x \in Nat /\ y \in Nat /\ StartOf(d, x) \in Nat /\ StartOf(d, y) \in Nat /\ d[x].kind = "alias"
    BY SlotTypes, RegionKinds
  <2>2. x \in Region(d, y)
    BY <1>1, <2>1 DEF Region
  <2>3. x # y
    BY <1>1, <2>1
  <2>4. d[x].kind = "lfn"
    BY <2>2, <2>3, RegionKinds
  <2>5. QED BY <2>1, <2>4
<1>2. p \in Nat /\ q \in Nat
  BY SlotTypes
<1>3. p < q \/ q < p
  BY <1>2
<1>4. QED BY <1>1, <1>3

(* Long or not, the entry in q has the file's name *)
LEMMA NameType ==
    ASSUME NEW d \in Seq(Slot), Whole(d), NEW q \in AliasSlots(d)
    PROVE  FileName(d, q) \in Aliases \cup LongNames
<1>1. CASE IsShort(d, q)
  BY <1>1, SlotTypes DEF FileName
<1>2. CASE ~IsShort(d, q)
  <2>1. PICK n \in LongNames : IsLong(d, q, n)
    BY <1>2 DEF Whole
  <2>2. QED BY <2>1, LongFacts
<1>3. QED BY <1>1, <1>2

(* d2 is d after the entry of name n with alias a and file f is written    *)
(* into slots g to w                                                       *)
Written(d, d2, n, a, f, g, w) ==
    /\ g \in DOMAIN d /\ w \in DOMAIN d /\ w = g + EntrySize(n) - 1
    /\ \A i \in g .. w : d[i].kind \in {"free", "gone", "last"}
    /\ d2 = [i \in DOMAIN d |-> d2[i]]
    /\ d2[w] = AliasSlot(a, f)
    /\ \A i \in g .. w - 1 : d2[i] = LfnSlot(n, w - i, i = g, CheckSum[a])
    /\ \A i \in DOMAIN d : i \notin g .. w => d2[i] = d[i]

(* An entry that can be written: the alias of a short name is the name *)
Writable(n, a, f) ==
    /\ n \in Aliases \cup LongNames /\ a \in Aliases /\ f \in Files
    /\ n \in Aliases => a = n

(* How many slots an entry takes *)
LEMMA SizeOfEntry ==
    ASSUME NEW n \in Aliases \cup LongNames
    PROVE  /\ EntrySize(n) \in Nat /\ EntrySize(n) >= 1
           /\ n \in Aliases => EntrySize(n) = 1 /\ n \notin LongNames
           /\ n \notin Aliases => n \in LongNames /\ EntrySize(n) - 1 = Parts[n]
<1>1. Aliases \cap LongNames = {}
  BY DirectoryAssumption
<1>2. CASE n \in Aliases
  BY <1>1, <1>2 DEF EntrySize
<1>3. CASE n \notin Aliases
  <2>1. n \in LongNames /\ Parts[n] \in Nat /\ Parts[n] >= 1 /\ EntrySize(n) = Parts[n] + 1
    BY <1>3, PartsType DEF EntrySize
  <2>2. QED BY <1>3, <2>1
<1>4. QED BY <1>2, <1>3

(* The slots written are slots, and the others are as they were *)
LEMMA WrittenSlots ==
    ASSUME NEW d \in Seq(Slot), NEW d2, NEW n, NEW a, NEW f, NEW g, NEW w,
           Writable(n, a, f), Written(d, d2, n, a, f, g, w)
    PROVE  /\ g \in 1 .. w /\ w \in 1 .. Len(d)
           /\ d2 \in Seq(Slot) /\ Len(d2) = Len(d) /\ DOMAIN d2 = 1 .. Len(d)
           /\ \A i \in g .. w : d[i].kind \in {"free", "gone", "last"}
           /\ d2[w].kind = "alias" /\ d2[w].alias = a /\ d2[w].file = f
           /\ \A i \in g .. w - 1 : d2[i].kind = "lfn"
           /\ \A i \in 1 .. Len(d) : i \notin g .. w => d2[i] = d[i]
<1>1. Len(d) \in Nat /\ DOMAIN d = 1 .. Len(d) /\ \A i \in 1 .. Len(d) : d[i] \in Slot
  BY SlotTypes
<1>2. EntrySize(n) \in Nat /\ EntrySize(n) >= 1
  BY SizeOfEntry DEF Writable
<1>3. g \in 1 .. Len(d) /\ w \in 1 .. Len(d) /\ w = g + EntrySize(n) - 1
  BY <1>1 DEF Written
<1>4. g \in 1 .. w
  BY <1>1, <1>2, <1>3
<1>5. d2[w] \in Slot /\ d2[w].kind = "alias" /\ d2[w].alias = a /\ d2[w].file = f
  <2>1. d2[w] = AliasSlot(a, f)
    BY DEF Written
  <2>2. AliasSlot(a, f) \in Slot
    BY SlotsMade DEF Writable
  <2>3. QED BY <2>1, <2>2 DEF AliasSlot
<1>6. ASSUME NEW i \in g .. w - 1 PROVE d2[i] \in Slot /\ d2[i].kind = "lfn"
  <2>1. n \in LongNames /\ Parts[n] = w - g
    <3>1. n \in Aliases => w = g
      BY <1>1, <1>3, SizeOfEntry DEF Writable
    <3>2. n \notin Aliases
      BY <1>3, <3>1
    <3>3. n \in LongNames /\ EntrySize(n) - 1 = Parts[n]
      BY <3>2, SizeOfEntry DEF Writable
    <3>4. QED BY <1>2, <1>3, <3>3
  <2>2. w - i \in 1 .. Parts[n] /\ (i = g <=> w - i = Parts[n])
    BY <1>1, <1>3, <2>1
  <2>3. PICK b \in BOOLEAN : b = (i = g)
    OBVIOUS
  <2>4. b = (w - i = Parts[n])
    BY <2>2, <2>3
  <2>5. d2[i] = LfnSlot(n, w - i, b, CheckSum[a])
    BY <2>3 DEF Written
  <2>6. d2[i] = LfnSlot(n, w - i, w - i = Parts[n], CheckSum[a])
    BY <2>4, <2>5
  <2>7. d2[i] \in Slot
    BY <2>1, <2>2, <2>6, SlotsMade DEF Writable
  <2>8. QED BY <2>5, <2>7 DEF LfnSlot
<1>7. \A i \in 1 .. Len(d) : i \notin g .. w => d2[i] = d[i]
  BY <1>1 DEF Written
<1>8. ASSUME NEW i \in 1 .. Len(d) PROVE d2[i] \in Slot
  <2>1. i \in g .. w => i = w \/ i \in g .. w - 1
    BY <1>3
  <2>2. QED BY <1>1, <1>5, <1>6, <1>7, <2>1
<1>9. d2 \in Seq(Slot) /\ Len(d2) = Len(d) /\ DOMAIN d2 = 1 .. Len(d)
  <2>1. d2 = [i \in 1 .. Len(d) |-> d2[i]]
    BY <1>1 DEF Written
  <2>2. d2 \in [1 .. Len(d) -> Slot]
    BY <1>8, <2>1
  <2>3. QED BY <1>1, <2>2
<1>10. QED BY <1>3, <1>4, <1>5, <1>6, <1>7, <1>9 DEF Written

(* Before slots that are not in use there is no slot of a long name *)
LEMMA NoOpenName ==
    ASSUME NEW d \in Seq(Slot), Whole(d), NEW g \in 2 .. Len(d), d[g].kind \in {"free", "gone", "last"}
    PROVE  d[g - 1].kind # "lfn"
<1>1. Len(d) \in Nat /\ DOMAIN d = 1 .. Len(d) /\ g - 1 \in 1 .. Len(d)
  BY SlotTypes
<1>2. SUFFICES ASSUME d[g - 1].kind = "lfn" PROVE FALSE
  OBVIOUS
<1>3. PICK q \in AliasSlots(d), n \in LongNames : IsLong(d, q, n) /\ g - 1 \in q - Parts[n] .. q - 1
  BY <1>1, <1>2 DEF Whole
<1>4. q \in Nat /\ Parts[n] \in Nat /\ d[q].kind = "alias"
  BY SlotTypes, PartsType
<1>5. g = q \/ g \in q - Parts[n] .. q - 1
  BY <1>1, <1>3, <1>4
<1>6. QED BY <1>3, <1>4, <1>5, LongFacts

(* The entry written is the one meant *)
LEMMA WrittenEntry ==
    ASSUME NEW d \in Seq(Slot), Whole(d), NEW d2, NEW n, NEW a, NEW f, NEW g, NEW w,
           Writable(n, a, f), Written(d, d2, n, a, f, g, w)
    PROVE  /\ w \in AliasSlots(d2)
           /\ n \in Aliases => IsShort(d2, w) /\ g = w
           /\ n \notin Aliases => n \in LongNames /\ IsLong(d2, w, n) /\ g = w - Parts[n]
           /\ EntryAt(d2, w) = [filename |-> n, alias |-> a, file |-> f, dataStart |-> g, dataEnd |-> w]
<1>1. /\ g \in 1 .. w /\ w \in 1 .. Len(d) /\ Len(d) \in Nat
      /\ d2 \in Seq(Slot) /\ Len(d2) = Len(d) /\ DOMAIN d2 = 1 .. Len(d)
      /\ d2[w].kind = "alias" /\ d2[w].alias = a /\ d2[w].file = f
      /\ d[g].kind \in {"free", "gone", "last"}
      /\ \A i \in 1 .. Len(d) : i \notin g .. w => d2[i] = d[i]
  BY WrittenSlots, SlotTypes
<1>2. w \in AliasSlots(d2)
  BY <1>1 DEF AliasSlots
<1>3. EntrySize(n) \in Nat /\ w = g + EntrySize(n) - 1
  BY SizeOfEntry DEF Written, Writable
<1>4. CASE n \in Aliases
  <2>1. g = w /\ a = n
    BY <1>1, <1>3, <1>4, SizeOfEntry DEF Writable
  <2>2. IsShort(d2, w)
    <3>1. w # 1 => g \in 2 .. Len(d) /\ w - 1 \in 1 .. Len(d) /\ w - 1 \notin g .. w
      BY <1>1, <2>1
    <3>2. w # 1 => d2[w - 1] = d[w - 1] /\ d[w - 1].kind # "lfn"
      BY <1>1, <2>1, <3>1, NoOpenName
    <3>3. QED BY <3>2 DEF IsShort
  <2>3. QED BY <1>1, <1>2, <1>4, <2>1, <2>2 DEF EntryAt, FileName, StartOf
<1>5. CASE n \notin Aliases
  <2>1. n \in LongNames /\ Parts[n] \in Nat /\ g = w - Parts[n]
    <3>1. n \in LongNames /\ EntrySize(n) - 1 = Parts[n]
      BY <1>5, SizeOfEntry DEF Writable
    <3>2. QED BY <1>1, <1>3, <3>1, PartsType
  <2>2. ASSUME NEW k \in 1 .. Parts[n]
        PROVE  d2[w - k] = LfnSlot(n, k, k = Parts[n], CheckSum[d2[w].alias])
    <3>1. w - k \in g .. w - 1 /\ w - (w - k) = k /\ (k = Parts[n] <=> w - k = g)
      BY <1>1, <2>1
    <3>2. PICK b \in BOOLEAN : b = (k = Parts[n])
      OBVIOUS
    <3>3. b = (w - k = g)
      BY <3>1, <3>2
    <3>4. d2[w - k] = LfnSlot(n, k, w - k = g, CheckSum[a])
      BY <3>1 DEF Written
    <3>5. d2[w - k] = LfnSlot(n, k, b, CheckSum[a])
      BY <3>3, <3>4
    <3>6. QED BY <1>1, <3>2, <3>5
  <2>3. IsLong(d2, w, n)
    BY <1>1, <2>1, <2>2 DEF IsLong
  <2>4. FileName(d2, w) = n /\ StartOf(d2, w) = g
    BY <1>1, <1>2, <2>1, <2>3, LongFacts
  <2>5. QED BY <1>1, <1>2, <1>5, <2>1, <2>3, <2>4 DEF EntryAt
<1>6. QED BY <1>4, <1>5

(* and the others are what they were *)
LEMMA WrittenOthers ==
    ASSUME NEW d \in Seq(Slot), Whole(d), NEW d2, NEW n, NEW a, NEW f, NEW g, NEW w,
           Writable(n, a, f), Written(d, d2, n, a, f, g, w), NEW q \in AliasSlots(d)
    PROVE  /\ q \in AliasSlots(d2) /\ q # w /\ d2[q] = d[q]
           /\ IsShort(d, q) => IsShort(d2, q)
           /\ \A m \in LongNames : IsLong(d, q, m) => IsLong(d2, q, m)
           /\ EntryAt(d2, q) = EntryAt(d, q)
<1>1. /\ g \in 1 .. w /\ w \in 1 .. Len(d) /\ Len(d) \in Nat
      /\ d2 \in Seq(Slot) /\ Len(d2) = Len(d) /\ DOMAIN d2 = 1 .. Len(d)
      /\ d2[w].kind = "alias"
      /\ \A i \in g .. w : d[i].kind \in {"free", "gone", "last"}
      /\ \A i \in 1 .. Len(d) : i \notin g .. w => d2[i] = d[i]
  BY WrittenSlots, SlotTypes
<1>2. q \in 1 .. Len(d) /\ d[q].kind = "alias" /\ q \notin g .. w /\ q # w
  BY <1>1, SlotTypes
<1>3. d2[q] = d[q] /\ q \in AliasSlots(d2)
  BY <1>1, <1>2 DEF AliasSlots
<1>4. ASSUME IsShort(d, q) PROVE IsShort(d2, q)
  <2>1. q # 1 => q - 1 \in 1 .. Len(d) /\ (q - 1 \in g .. w => q - 1 = w)
    BY <1>1, <1>2
  <2>2. q # 1 => d[q - 1].kind # "lfn"
    BY <1>4 DEF IsShort
  <2>3. q # 1 => d2[q - 1].kind # "lfn"
    BY <1>1, <2>1, <2>2
  <2>4. QED BY <2>3 DEF IsShort
<1>5. ASSUME NEW m \in LongNames, IsLong(d, q, m) PROVE IsLong(d2, q, m)
  <2>1. ASSUME NEW k \in 1 .. Parts[m] PROVE d2[q - k] = d[q - k]
    <3>1. q - k \in q - Parts[m] .. q - 1 /\ q - k \in 1 .. Len(d)
      BY <1>2, <1>5, PartsType, LongFacts
    <3>2. d[q - k].kind = "lfn"
      BY <1>5, <3>1, LongFacts
    <3>3. QED BY <1>1, <3>1, <3>2
  <2>2. q - Parts[m] \in DOMAIN d2
    BY <1>1, <1>5, LongFacts
  <2>3. \A k \in 1 .. Parts[m] : d2[q - k] = LfnSlot(m, k, k = Parts[m], CheckSum[d2[q].alias])
    BY <1>3, <1>5, <2>1, Zenon DEF IsLong
  <2>4. QED BY <2>2, <2>3 DEF IsLong
<1>6. EntryAt(d2, q) = EntryAt(d, q)
  <2>1. CASE IsShort(d, q)
    BY <1>3, <1>4, <2>1 DEF EntryAt, FileName, StartOf
  <2>2. CASE ~IsShort(d, q)
    <3>1. PICK m \in LongNames : IsLong(d, q, m)
      BY <2>2 DEF Whole
    <3>2. FileName(d, q) = m /\ StartOf(d, q) = q - Parts[m]
      BY <3>1, LongFacts
    <3>3. FileName(d2, q) = m /\ StartOf(d2, q) = q - Parts[m]
      BY <1>1, <1>3, <1>5, <3>1, LongFacts
    <3>4. QED BY <1>3, <3>2, <3>3 DEF EntryAt
  <2>3. QED BY <2>1, <2>2
<1>7. QED BY <1>2, <1>3, <1>4, <1>5, <1>6

(* so the directory is whole and has one entry more *)
LEMMA WrittenWhole ==
    ASSUME NEW d \in Seq(Slot), Whole(d), NEW d2, NEW n, NEW a, NEW f, NEW g, NEW w,
           Writable(n, a, f), Written(d, d2, n, a, f, g, w)
    PROVE  Whole(d2) /\ AliasSlots(d2) = AliasSlots(d) \cup {w}
<1>1. /\ g \in 1 .. w /\ w \in 1 .. Len(d) /\ Len(d) \in Nat /\ DOMAIN d = 1 .. Len(d)
      /\ d2 \in Seq(Slot) /\ Len(d2) = Len(d) /\ DOMAIN d2 = 1 .. Len(d)
      /\ \A i \in g .. w - 1 : d2[i].kind = "lfn"
      /\ d2[w].kind = "alias"
      /\ \A i \in 1 .. Len(d) : i \notin g .. w => d2[i] = d[i]
  BY WrittenSlots, SlotTypes
<1>2. /\ w \in AliasSlots(d2)
      /\ n \in Aliases => IsShort(d2, w) /\ g = w
      /\ n \notin Aliases => n \in LongNames /\ IsLong(d2, w, n) /\ g = w - Parts[n]
  BY WrittenEntry
<1>3. AliasSlots(d2) = AliasSlots(d) \cup {w}
  <2>1. ASSUME NEW i \in AliasSlots(d2), i # w PROVE i \in AliasSlots(d)
    <3>1. i \in 1 .. Len(d) /\ d2[i].kind = "alias"
      BY <1>1 DEF AliasSlots
    <3>2. i \notin g .. w - 1
      BY <1>1, <3>1
    <3>3. i \notin g .. w
      BY <1>1, <2>1, <3>1, <3>2
    <3>4. QED BY <1>1, <3>1, <3>3 DEF AliasSlots
  <2>2. AliasSlots(d) \subseteq AliasSlots(d2)
    BY WrittenOthers
  <2>3. QED BY <1>2, <2>1, <2>2
<1>4. ASSUME NEW q \in AliasSlots(d2) PROVE IsShort(d2, q) \/ \E m \in LongNames : IsLong(d2, q, m)
  <2>1. CASE q = w
    BY <1>2, <2>1
  <2>2. CASE q \in AliasSlots(d)
    <3>1. IsShort(d, q) \/ \E m \in LongNames : IsLong(d, q, m)
      BY <2>2 DEF Whole
    <3>2. QED BY <2>2, <3>1, WrittenOthers
  <2>3. QED BY <1>3, <2>1, <2>2
<1>5. ASSUME NEW i \in DOMAIN d2, d2[i].kind = "lfn"
      PROVE  \E q \in AliasSlots(d2), m \in LongNames : IsLong(d2, q, m) /\ i \in q - Parts[m] .. q - 1
  <2>1. i \in 1 .. Len(d) /\ i # w
    BY <1>1, <1>5
  <2>2. CASE i \in g .. w
    <3>1. i \in g .. w - 1 /\ g # w
      BY <1>1, <2>1, <2>2
    <3>2. QED BY <1>2, <3>1
  <2>3. CASE i \notin g .. w
    <3>1. d[i].kind = "lfn" /\ i \in DOMAIN d
      BY <1>1, <1>5, <2>1, <2>3
    <3>2. PICK q \in AliasSlots(d), m \in LongNames : IsLong(d, q, m) /\ i \in q - Parts[m] .. q - 1
      BY <3>1 DEF Whole
    <3>3. QED BY <3>2, WrittenOthers
  <2>4. QED BY <2>2, <2>3
<1>6. QED BY <1>3, <1>4, <1>5 DEF Whole

(* The slots of a removed entry are free, and the others as they were *)
LEMMA RemovedSlots ==
    ASSUME NEW d \in Seq(Slot), Whole(d), NEW q \in AliasSlots(d), NEW d2, d2 = RemoveSlots(d, Region(d, q))
    PROVE  /\ d2 \in Seq(Slot) /\ Len(d2) = Len(d) /\ DOMAIN d2 = 1 .. Len(d)
           /\ \A i \in 1 .. Len(d) : i \notin Region(d, q) => d2[i] = d[i]
           /\ \A i \in Region(d, q) : d2[i].kind \in {"free", "gone"}
           /\ \A e : EndsAt(d, e) => EndsAt(d2, e)
<1>1. Len(d) \in Nat /\ DOMAIN d = 1 .. Len(d) /\ \A i \in 1 .. Len(d) : d[i] \in Slot
  BY SlotTypes
<1>2. /\ d2 = [i \in 1 .. Len(d) |-> d2[i]]
      /\ \A i \in 1 .. Len(d) : d2[i] = IF i \notin Region(d, q) THEN d[i]
                                        ELSE IF d[i].kind \in {"lfn", "gone"} THEN Gone ELSE Free
  BY <1>1 DEF RemoveSlots
<1>3. /\ Gone.kind = "gone" /\ Free.kind = "free" /\ Gone \in Slot /\ Free \in Slot
      /\ Gone # Last /\ Free # Last
  BY SlotsMade DEF Gone, Free, Last
<1>4. ASSUME NEW i \in 1 .. Len(d) PROVE d2[i] \in Slot
  BY <1>1, <1>2, <1>3
<1>5. d2 \in Seq(Slot) /\ Len(d2) = Len(d) /\ DOMAIN d2 = 1 .. Len(d)
  <2>1. d2 \in [1 .. Len(d) -> Slot]
    BY <1>2, <1>4
  <2>2. QED BY <1>1, <2>1
<1>6. \A i \in 1 .. Len(d) : i \notin Region(d, q) => d2[i] = d[i]
  BY <1>2
<1>7. ASSUME NEW i \in Region(d, q) PROVE d2[i].kind \in {"free", "gone"} /\ d2[i] # Last /\ d[i] # Last
  <2>1. i \in 1 .. Len(d) /\ (i # q => d[i].kind = "lfn") /\ d[q].kind = "alias"
    BY RegionKinds, SlotTypes
  <2>2. d2[i] \in {Gone, Free}
    BY <1>2, <2>1
  <2>3. d[i] # Last
    BY <2>1 DEF Last
  <2>4. QED BY <1>3, <2>2, <2>3
<1>8. ASSUME NEW e, EndsAt(d, e) PROVE EndsAt(d2, e)
  <2>1. \A i \in 1 .. Len(d) : d2[i] = Last <=> d[i] = Last
    BY <1>6, <1>7
  <2>2. QED BY <1>1, <1>5, <1>8, <2>1 DEF EndsAt
<1>9. QED BY <1>5, <1>6, <1>7, <1>8

(* The entries that are left are what they were *)
LEMMA RemovedOthers ==
    ASSUME NEW d \in Seq(Slot), Whole(d), NEW q \in AliasSlots(d), NEW d2, d2 = RemoveSlots(d, Region(d, q)),
           NEW p \in AliasSlots(d), p # q
    PROVE  /\ p \in AliasSlots(d2) /\ d2[p] = d[p]
           /\ IsShort(d, p) => IsShort(d2, p)
           /\ \A m \in LongNames : IsLong(d, p, m) => IsLong(d2, p, m)
           /\ EntryAt(d2, p) = EntryAt(d, p)
<1>1. /\ d2 \in Seq(Slot) /\ Len(d2) = Len(d) /\ DOMAIN d2 = 1 .. Len(d) /\ Len(d) \in Nat
      /\ \A i \in 1 .. Len(d) : i \notin Region(d, q) => d2[i] = d[i]
      /\ \A i \in Region(d, q) : d2[i].kind \in {"free", "gone"}
  BY RemovedSlots, SlotTypes
<1>2. ASSUME NEW i \in Region(d, p) PROVE i \in 1 .. Len(d) /\ d2[i] = d[i]
  <2>1. i \notin Region(d, q)
    BY RegionsApart
  <2>2. i \in 1 .. Len(d)
    BY RegionKinds
  <2>3. QED BY <1>1, <2>1, <2>2
<1>3. p \in 1 .. Len(d) /\ d[p].kind = "alias" /\ d2[p] = d[p] /\ p \in AliasSlots(d2)
  <2>1. p \in Region(d, p) /\ p \in 1 .. Len(d) /\ d[p].kind = "alias"
    BY RegionKinds, SlotTypes
  <2>2. QED BY <1>1, <1>2, <2>1 DEF AliasSlots
<1>4. ASSUME IsShort(d, p) PROVE IsShort(d2, p)
  <2>1. p # 1 => p - 1 \in 1 .. Len(d) /\ d[p - 1].kind # "lfn"
    BY <1>1, <1>3, <1>4 DEF IsShort
  <2>2. p # 1 => d2[p - 1].kind # "lfn"
    BY <1>1, <2>1
  <2>3. QED BY <2>2 DEF IsShort
<1>5. ASSUME NEW m \in LongNames, IsLong(d, p, m) PROVE IsLong(d2, p, m)
  <2>1. StartOf(d, p) = p - Parts[m] /\ p - Parts[m] \in 1 .. Len(d) /\ Parts[m] \in Nat
    BY <1>5, LongFacts, PartsType
  <2>2. ASSUME NEW k \in 1 .. Parts[m] PROVE d2[p - k] = d[p - k]
    <3>1. p - k \in Region(d, p)
      BY <1>3, <2>1 DEF Region
    <3>2. QED BY <1>2, <3>1
  <2>3. \A k \in 1 .. Parts[m] : d2[p - k] = LfnSlot(m, k, k = Parts[m], CheckSum[d2[p].alias])
    BY <1>3, <1>5, <2>2, Zenon DEF IsLong
  <2>4. QED BY <1>1, <2>1, <2>3 DEF IsLong
<1>6. EntryAt(d2, p) = EntryAt(d, p)
  <2>1. CASE IsShort(d, p)
    BY <1>3, <1>4, <2>1 DEF EntryAt, FileName, StartOf
  <2>2. CASE ~IsShort(d, p)
    <3>1. PICK m \in LongNames : IsLong(d, p, m)
      BY <2>2 DEF Whole
    <3>2. FileName(d, p) = m /\ StartOf(d, p) = p - Parts[m]
      BY <3>1, LongFacts
    <3>3. FileName(d2, p) = m /\ StartOf(d2, p) = p - Parts[m]
      BY <1>1, <1>3, <1>5, <3>1, LongFacts
    <3>4. QED BY <1>3, <3>2, <3>3 DEF EntryAt
  <2>3. QED BY <2>1, <2>2
<1>7. QED BY <1>3, <1>4, <1>5, <1>6

(* and the directory is whole without the one removed *)
LEMMA RemovedWhole ==
    ASSUME NEW d \in Seq(Slot), Whole(d), NEW q \in AliasSlots(d), NEW d2, d2 = RemoveSlots(d, Region(d, q))
    PROVE  Whole(d2) /\ AliasSlots(d2) = AliasSlots(d) \ {q}
<1>1. /\ d2 \in Seq(Slot) /\ Len(d2) = Len(d) /\ DOMAIN d2 = 1 .. Len(d) /\ DOMAIN d = 1 .. Len(d)
      /\ \A i \in 1 .. Len(d) : i \notin Region(d, q) => d2[i] = d[i]
      /\ \A i \in Region(d, q) : d2[i].kind \in {"free", "gone"}
  BY RemovedSlots, SlotTypes
<1>2. AliasSlots(d2) = AliasSlots(d) \ {q}
  <2>1. ASSUME NEW i \in AliasSlots(d2) PROVE i \in AliasSlots(d) \ {q}
    <3>1. i \in 1 .. Len(d) /\ d2[i].kind = "alias"
      BY <1>1 DEF AliasSlots
    <3>2. i \notin Region(d, q) /\ q \in Region(d, q)
      BY <1>1, <3>1, RegionKinds
    <3>3. QED BY <1>1, <3>1, <3>2 DEF AliasSlots
  <2>2. \A p \in AliasSlots(d) \ {q} : p \in AliasSlots(d2)
    BY RemovedOthers
  <2>3. QED BY <2>1, <2>2
<1>3. ASSUME NEW p \in AliasSlots(d2) PROVE IsShort(d2, p) \/ \E m \in LongNames : IsLong(d2, p, m)
  <2>1. p \in AliasSlots(d) /\ p # q
    BY <1>2
  <2>2. IsShort(d, p) \/ \E m \in LongNames : IsLong(d, p, m)
    BY <2>1 DEF Whole
  <2>3. QED BY <2>1, <2>2, RemovedOthers
<1>4. ASSUME NEW i \in DOMAIN d2, d2[i].kind = "lfn"
      PROVE  \E p \in AliasSlots(d2), m \in LongNames : IsLong(d2, p, m) /\ i \in p - Parts[m] .. p - 1
  <2>1. i \in 1 .. Len(d) /\ i \notin Region(d, q)
    BY <1>1, <1>4
  <2>2. d[i].kind = "lfn" /\ i \in DOMAIN d
    BY <1>1, <1>4, <2>1
  <2>3. PICK p \in AliasSlots(d), m \in LongNames : IsLong(d, p, m) /\ i \in p - Parts[m] .. p - 1
    BY <2>2 DEF Whole
  <2>4. StartOf(d, p) = p - Parts[m] /\ p \in Nat /\ Parts[m] \in Nat
    BY <2>3, LongFacts, SlotTypes, PartsType
  <2>5. i \in Region(d, p)
    BY <2>3, <2>4 DEF Region
  <2>6. p # q
    BY <2>1, <2>5
  <2>7. QED BY <2>3, <2>6, RemovedOthers
<1>5. QED BY <1>2, <1>3, <1>4 DEF Whole

-----------------------------------------------------------------------------
(* New clusters *)

(* x is d with cleared slots behind it *)
Longer(d, x) ==
    /\ x \in Seq(Slot) /\ Len(d) <= Len(x)
    /\ \A i \in 1 .. Len(d) : x[i] = d[i]
    /\ \A i \in Len(d) + 1 .. Len(x) : x[i] = Last

(* Cleared slots are no entries *)
LEMMA LongerWhole ==
    ASSUME NEW d \in Seq(Slot), Whole(d), NEW x, Longer(d, x)
    PROVE  /\ Whole(x) /\ AliasSlots(x) = AliasSlots(d)
           /\ \A q \in AliasSlots(d) : x[q] = d[q] /\ EntryAt(x, q) = EntryAt(d, q)
           /\ \A e : EndsAt(d, e) => EndsAt(x, e)
<1>1. /\ x \in Seq(Slot) /\ Len(d) \in Nat /\ Len(x) \in Nat /\ Len(d) <= Len(x)
      /\ DOMAIN x = 1 .. Len(x) /\ DOMAIN d = 1 .. Len(d)
      /\ \A i \in 1 .. Len(d) : x[i] = d[i]
      /\ \A i \in Len(d) + 1 .. Len(x) : x[i] = Last
  BY SlotTypes DEF Longer
<1>2. \A i \in 1 .. Len(x) : i \in 1 .. Len(d) \/ i \in Len(d) + 1 .. Len(x)
  BY <1>1
<1>3. \A i \in Len(d) + 1 .. Len(x) : x[i].kind = "last"
  BY <1>1 DEF Last
<1>4. AliasSlots(x) = AliasSlots(d)
  BY <1>1, <1>2, <1>3 DEF AliasSlots
<1>5. ASSUME NEW q \in AliasSlots(d)
      PROVE  /\ q \in 1 .. Len(d) /\ x[q] = d[q]
             /\ IsShort(d, q) => IsShort(x, q)
             /\ \A m \in LongNames : IsLong(d, q, m) => IsLong(x, q, m)
  <2>1. q \in 1 .. Len(d) /\ x[q] = d[q] /\ (q # 1 => q - 1 \in 1 .. Len(d))
    BY <1>1, SlotTypes
  <2>2. IsShort(d, q) => IsShort(x, q)
    BY <1>1, <2>1 DEF IsShort
  <2>3. ASSUME NEW m \in LongNames, IsLong(d, q, m) PROVE IsLong(x, q, m)
    <3>1. q - Parts[m] \in 1 .. Len(d) /\ Parts[m] \in Nat
      BY <2>3, LongFacts, PartsType
    <3>2. ASSUME NEW k \in 1 .. Parts[m] PROVE x[q - k] = d[q - k]
      <4>1. q - k \in 1 .. Len(d)
        BY <2>1, <3>1
      <4>2. QED BY <1>1, <4>1
    <3>3. \A k \in 1 .. Parts[m] : x[q - k] = LfnSlot(m, k, k = Parts[m], CheckSum[x[q].alias])
      BY <2>1, <2>3, <3>2, Zenon DEF IsLong
    <3>4. q - Parts[m] \in DOMAIN x
      BY <1>1, <3>1
    <3>5. QED BY <3>3, <3>4 DEF IsLong
  <2>4. QED BY <2>1, <2>2, <2>3
<1>6. Whole(x)
  <2>1. ASSUME NEW q \in AliasSlots(x) PROVE IsShort(x, q) \/ \E m \in LongNames : IsLong(x, q, m)
    <3>1. IsShort(d, q) \/ \E m \in LongNames : IsLong(d, q, m)
      BY <1>4 DEF Whole
    <3>2. QED BY <1>4, <1>5, <3>1
  <2>2. ASSUME NEW i \in DOMAIN x, x[i].kind = "lfn"
        PROVE  \E q \in AliasSlots(x), m \in LongNames : IsLong(x, q, m) /\ i \in q - Parts[m] .. q - 1
    <3>1. i \in 1 .. Len(d)
      BY <1>1, <1>2, <1>3, <2>2
    <3>2. d[i].kind = "lfn"
      BY <1>1, <2>2, <3>1
    <3>3. PICK q \in AliasSlots(d), m \in LongNames : IsLong(d, q, m) /\ i \in q - Parts[m] .. q - 1
      BY <1>1, <3>1, <3>2 DEF Whole
    <3>4. QED BY <1>4, <1>5, <3>3
  <2>3. QED BY <2>1, <2>2 DEF Whole
<1>7. ASSUME NEW q \in AliasSlots(d) PROVE EntryAt(x, q) = EntryAt(d, q)
  <2>1. CASE IsShort(d, q)
    BY <1>5, <2>1 DEF EntryAt, FileName, StartOf
  <2>2. CASE ~IsShort(d, q)
    <3>1. PICK m \in LongNames : IsLong(d, q, m)
      BY <2>2 DEF Whole
    <3>2. FileName(d, q) = m /\ StartOf(d, q) = q - Parts[m]
      BY <3>1, LongFacts
    <3>3. FileName(x, q) = m /\ StartOf(x, q) = q - Parts[m]
      BY <1>1, <1>4, <1>5, <3>1, LongFacts
    <3>4. QED BY <1>5, <3>2, <3>3 DEF EntryAt
  <2>3. QED BY <2>1, <2>2
<1>8. ASSUME NEW e, EndsAt(d, e) PROVE EndsAt(x, e)
  <2>1. e \in 1 .. Len(d) /\ \A i \in 1 .. Len(d) : d[i] = Last <=> i >= e
    BY <1>1, <1>8 DEF EndsAt
  <2>2. ASSUME NEW i \in 1 .. Len(x) PROVE x[i] = Last <=> i >= e
    <3>1. CASE i \in 1 .. Len(d)
      BY <1>1, <2>1, <3>1
    <3>2. CASE i \in Len(d) + 1 .. Len(x)
      BY <1>1, <2>1, <3>2
    <3>3. QED BY <1>2, <3>1, <3>2
  <2>3. QED BY <1>1, <2>1, <2>2 DEF EndsAt
<1>9. QED BY <1>4, <1>5, <1>6, <1>7, <1>8

(* Clusters of slots *)
LEMMA ClusterSlots ==
    ASSUME NEW k \in Nat
    PROVE  /\ k * SlotsPerCluster \in Nat /\ SlotsPerCluster \in Nat /\ SlotsPerCluster >= 2
           /\ \A j \in Nat : (j + k) * SlotsPerCluster = j * SlotsPerCluster + k * SlotsPerCluster
           /\ \A j \in Nat : j <= k => j * SlotsPerCluster <= k * SlotsPerCluster
           /\ \A j \in Nat : j < k => j * SlotsPerCluster + SlotsPerCluster <= k * SlotsPerCluster
<1>1. PICK s \in Nat : s >= 2 /\ s = SlotsPerCluster
  BY DirectoryAssumption
<1>2. k * s \in Nat
  OBVIOUS
<1>3. ASSUME NEW j \in Nat
      PROVE  /\ (j + k) * s = j * s + k * s
             /\ j <= k => j * s <= k * s
             /\ j < k => j * s + s <= k * s
  <2>1. (j + k) * s = j * s + k * s
    OBVIOUS
  <2>2. ASSUME NEW i \in Nat PROVE j * s <= (j + i) * s
    OBVIOUS
  <2>3. j <= k => k - j \in Nat /\ k = j + (k - j)
    OBVIOUS
  <2>4. j <= k => j * s <= k * s
    BY <2>2, <2>3
  <2>5. ASSUME j < k PROVE j * s + s <= k * s
    <3>1. k - j - 1 \in Nat /\ k = (j + 1) + (k - j - 1)
      BY <2>5
    <3>2. (j + 1) * s = j * s + s
      OBVIOUS
    <3>3. \A i \in Nat : (j + 1) * s <= ((j + 1) + i) * s
      OBVIOUS
    <3>4. QED BY <3>1, <3>2, <3>3
  <2>6. QED BY <2>1, <2>4, <2>5
<1>4. QED BY <1>1, <1>2, <1>3

(* The directory with k clusters more *)
LEMMA ExtendedSlots ==
    ASSUME dir \in Seq(Slot), NEW k \in Nat
    PROVE  /\ Longer(dir, Extended(k))
           /\ Len(Extended(k)) = Len(dir) + k * SlotsPerCluster
           /\ k = 0 => Extended(k) = dir
<1> DEFINE c == k * SlotsPerCluster
           t == [i \in 1 .. c |-> Last]
<1>1. c \in Nat /\ Len(dir) \in Nat
  BY ClusterSlots, SlotTypes
<1>2. k = 0 => c = 0
  BY ClusterSlots
<1> HIDE DEF c
<1>3. t \in Seq(Slot) /\ Len(t) = c
  BY <1>1, SlotsMade
<1>4. Extended(k) = dir \o t
  BY DEF Extended, c
<1>5. c = 0 => t = << >>
  BY <1>3
<1> HIDE DEF t
<1>6. /\ dir \o t \in Seq(Slot) /\ Len(dir \o t) = Len(dir) + c
      /\ \A i \in 1 .. Len(dir) + c : (dir \o t)[i] = IF i <= Len(dir) THEN dir[i] ELSE t[i - Len(dir)]
  BY <1>3, ConcatProperties
<1>7. \A i \in 1 .. Len(dir) : (dir \o t)[i] = dir[i]
  BY <1>1, <1>6
<1>8. ASSUME NEW i \in Len(dir) + 1 .. Len(dir) + c PROVE (dir \o t)[i] = Last
  <2>1. i \in 1 .. Len(dir) + c /\ ~(i <= Len(dir)) /\ i - Len(dir) \in 1 .. c
    BY <1>1
  <2>2. t[i - Len(dir)] = Last
    BY <2>1 DEF t
  <2>3. QED BY <1>6, <2>1, <2>2
<1>9. k = 0 => Extended(k) = dir
  BY <1>2, <1>4, <1>5, ConcatEmptySeq
<1>10. Longer(dir, dir \o t)
  BY <1>1, <1>6, <1>7, <1>8 DEF Longer
<1>11. QED BY <1>4, <1>6, <1>9, <1>10 DEF c

-----------------------------------------------------------------------------
(* Where room is found *)

(* The free slots that reach to the end *)
LEMMA TailFound ==
    ASSUME dir \in Seq(Slot), NEW e, EndsAt(dir, e)
    PROVE  /\ e \in 1 .. Len(dir) /\ Len(dir) \in Nat
           /\ TailStart \in 1 .. e
           /\ \A i \in TailStart .. e - 1 : IsFree(i)
           /\ TailStart > 1 => ~IsFree(TailStart - 1)
<1>1. EndSlot = e /\ e \in 1 .. Len(dir) /\ Len(dir) \in Nat
  BY EndFound, SlotTypes DEF EndsAt
<1> DEFINE T == {g \in 1 .. e : \A i \in g .. e - 1 : IsFree(i)}
<1>2. e \in T
  BY <1>1
<1>3. \A g \in T : g \in Nat
  BY <1>1
<1> HIDE DEF T
<1>4. T \in SUBSET Nat
  BY <1>3
<1>5. PICK g \in T : \A h \in T : g <= h
  BY <1>2, <1>4, Least
<1> USE DEF T
<1>6. g \in 1 .. e /\ (\A i \in g .. e - 1 : IsFree(i))
  BY <1>5
<1>7. g > 1 => ~IsFree(g - 1)
  <2>1. SUFFICES ASSUME g > 1, IsFree(g - 1) PROVE FALSE
    OBVIOUS
  <2>2. g - 1 \in 1 .. e /\ ~(g <= g - 1) /\ \A i \in g - 1 .. e - 1 : i = g - 1 \/ i \in g .. e - 1
    BY <1>1, <1>6, <2>1
  <2>3. g - 1 \in T
    BY <1>6, <2>1, <2>2
  <2>4. QED BY <1>5, <2>2, <2>3
<1>8. /\ TailStart \in 1 .. e
      /\ \A i \in TailStart .. e - 1 : IsFree(i)
      /\ TailStart > 1 => ~IsFree(TailStart - 1)
  <2>1. \E h \in 1 .. EndSlot : (\A i \in h .. EndSlot - 1 : IsFree(i)) /\ (h > 1 => ~IsFree(h - 1))
    BY <1>1, <1>6, <1>7
  <2>2. /\ TailStart \in 1 .. EndSlot
        /\ \A i \in TailStart .. EndSlot - 1 : IsFree(i)
        /\ TailStart > 1 => ~IsFree(TailStart - 1)
    BY <2>1, Zenon DEF TailStart
  <2>3. QED BY <1>1, <2>2
<1>9. QED BY <1>1, <1>8

(* The gap that findEntryGap takes is one *)
LEMMA GapFound ==
    ASSUME dir \in Seq(Slot), NEW e, EndsAt(dir, e), NEW size \in Nat, size >= 1, Gaps(size) # {}
    PROVE  /\ GapStart(size) \in 1 .. e - size
           /\ \A i \in GapStart(size) .. GapStart(size) + size - 1 : IsFree(i)
<1>1. EndSlot = e /\ e \in 1 .. Len(dir) /\ Len(dir) \in Nat
  BY EndFound, SlotTypes DEF EndsAt
<1>2. \A g \in Gaps(size) : g \in Nat /\ g \in 1 .. e - size /\ \A i \in g .. g + size - 1 : IsFree(i)
  BY <1>1 DEF Gaps
<1>3. Gaps(size) \in SUBSET Nat
  BY <1>2
<1>4. \E g \in Gaps(size) : \A h \in Gaps(size) : g <= h
  BY <1>3, Least
<1>5. GapStart(size) = CHOOSE g \in Gaps(size) : \A h \in Gaps(size) : g <= h
  BY DEF GapStart
<1>6. GapStart(size) \in Gaps(size)
  BY <1>4, <1>5
<1>7. QED BY <1>2, <1>6

(* As many clusters are added as are needed, and no more *)
LEMMA ClustersFound ==
    ASSUME dir \in Seq(Slot), NEW e, EndsAt(dir, e), NEW size \in Nat, size >= 1
    PROVE  /\ ClustersFor(size) \in Nat
           /\ Gaps(size) # {} => ClustersFor(size) = 0
           /\ Gaps(size) = {} => TailStart + size <= Len(dir) + ClustersFor(size) * SlotsPerCluster
           /\ \A s \in Nat : s < ClustersFor(size) =>
                Gaps(size) = {} /\ TailStart + size > Len(dir) + s * SlotsPerCluster
<1>1. TailStart \in Nat /\ Len(dir) \in Nat
  BY TailFound
<1>2. CASE Gaps(size) # {} \/ TailStart + size <= Len(dir)
  <2>1. ClustersFor(size) = 0
    BY <1>2 DEF ClustersFor
  <2>2. 0 * SlotsPerCluster = 0
    BY ClusterSlots
  <2>3. QED BY <1>1, <1>2, <2>1, <2>2
<1>3. CASE Gaps(size) = {} /\ ~(TailStart + size <= Len(dir))
  <2>1. PICK S \in Nat \ {0} : S = SlotsPerCluster
    BY DirectoryAssumption
  <2>2. PICK y \in Nat : y = TailStart + size - Len(dir) /\ y >= 1
    <3>1. TailStart + size - Len(dir) \in Nat /\ TailStart + size - Len(dir) >= 1
      BY <1>1, <1>3
    <3>2. QED BY <3>1
  <2>3. ClustersFor(size) = (y + S - 1) \div S
    BY <1>3, <2>1, <2>2 DEF ClustersFor
  <2>4. PICK k \in Nat, r \in 0 .. S - 1 : k = (y + S - 1) \div S /\ y + S - 1 = k * S + r
    <3>1. PICK z \in Nat : z = y + S - 1
      BY <2>1, <2>2
    <3>2. z \div S \in Nat /\ z % S \in 0 .. S - 1 /\ z = (z \div S) * S + (z % S)
      BY <2>1
    <3>3. QED BY <3>1, <3>2
  <2>5. y <= k * S
    BY <2>2, <2>4, SMTT(40)
  <2>6. ASSUME NEW s \in Nat, s < k PROVE s * S < y
    <3>1. s * S + S <= k * S
      BY <2>1, <2>6, ClusterSlots
    <3>2. s * S \in Nat /\ k * S \in Nat
      OBVIOUS
    <3>3. PICK u \in Nat, v \in Nat : u = s * S /\ v = k * S
      BY <3>2
    <3>4. u < y
      BY <2>2, <2>4, <3>1, <3>3, SMTT(40)
    <3>5. QED BY <3>3, <3>4
  <2>7. ClustersFor(size) = k
    BY <2>3, <2>4
  <2>8. TailStart + size <= Len(dir) + k * S
    <3>1. PICK v \in Nat : v = k * S
      OBVIOUS
    <3>2. QED BY <1>1, <2>2, <2>5, <3>1
  <2>9. ASSUME NEW s \in Nat, s < k PROVE TailStart + size > Len(dir) + s * S
    <3>1. PICK v \in Nat : v = s * S
      OBVIOUS
    <3>2. v < y
      BY <2>6, <2>9, <3>1
    <3>3. QED BY <1>1, <2>2, <3>1, <3>2
  <2>10. QED BY <1>3, <2>1, <2>7, <2>8, <2>9
<1>4. QED BY <1>2, <1>3

(* The new entry is written into slots that are not in use, and leaves a   *)
(* slot for the end of the directory                                       *)
LEMMA AddedWritten ==
    ASSUME dir \in Seq(Slot), Whole(dir), NEW e, EndsAt(dir, e), NEW n, NEW a, NEW f, Writable(n, a, f)
    PROVE  \E g, w, e2 \in Nat :
              LET x == Extended(ClustersFor(EntrySize(n)))
              IN  Written(x, Added(n, a, f), n, a, f, g, w) /\ EndsAt(Added(n, a, f), e2)
<1> DEFINE size == EntrySize(n)
           k    == ClustersFor(size)
           x    == Extended(k)
           g    == GapStart(size)
           w    == g + size - 1
           d2   == Added(n, a, f)
           gaps == Gaps(size)
<1>1. size \in Nat /\ size >= 1
  BY SizeOfEntry DEF Writable
<1>2. d2 = [i \in DOMAIN x |->
              IF i >= g /\ i < g + size - 1 THEN LfnSlot(n, g + size - 1 - i, i = g, CheckSum[a])
              ELSE IF i = g + size - 1 THEN AliasSlot(a, f)
              ELSE IF i = g + size /\ gaps = {} THEN Last
              ELSE x[i]]
  BY DEF Added
<1> HIDE DEF size
<1>3. /\ k \in Nat
      /\ gaps # {} => k = 0
      /\ gaps = {} => TailStart + size <= Len(dir) + k * SlotsPerCluster
  BY <1>1, ClustersFound
<1>4. /\ TailStart \in 1 .. e /\ e \in 1 .. Len(dir) /\ Len(dir) \in Nat
      /\ \A i \in TailStart .. e - 1 : IsFree(i)
  BY TailFound
<1> HIDE DEF k
<1>5. /\ Longer(dir, x) /\ Len(x) = Len(dir) + k * SlotsPerCluster
      /\ EndsAt(x, e) /\ x \in Seq(Slot)
  BY <1>3, ExtendedSlots, LongerWhole DEF Longer
<1> HIDE DEF x, d2
<1>6. /\ Len(x) \in Nat /\ DOMAIN x = 1 .. Len(x) /\ Len(dir) <= Len(x)
      /\ \A i \in 1 .. Len(x) : x[i] = Last <=> i >= e
      /\ \A i \in 1 .. Len(dir) : x[i] = dir[i]
  BY <1>5, SlotTypes DEF EndsAt, Longer
<1>7. /\ g \in 1 .. e /\ g + size <= Len(x)
      /\ \A i \in g .. g + size - 1 : i < e => IsFree(i)
      /\ gaps # {} => g + size <= e
      /\ gaps = {} => e < g + size
  <2>1. CASE gaps # {}
    <3>1. g \in 1 .. e - size /\ \A i \in g .. g + size - 1 : IsFree(i)
      BY <1>1, <2>1, GapFound
    <3>2. QED BY <1>1, <1>4, <1>6, <2>1, <3>1
  <2>2. CASE gaps = {}
    <3>1. g = TailStart
      BY <2>2 DEF GapStart
    <3>2. g + size <= Len(x)
      BY <1>3, <1>5, <2>2, <3>1
    <3>3. ~(g + size <= e)
      <4>1. SUFFICES ASSUME g + size <= e PROVE FALSE
        OBVIOUS
      <4>2. EndSlot = e
        BY EndFound
      <4>3. g \in 1 .. e - size /\ \A i \in g .. g + size - 1 : i \in TailStart .. e - 1
        BY <1>1, <1>4, <3>1, <4>1
      <4>4. g \in gaps
        BY <1>4, <4>2, <4>3 DEF Gaps
      <4>5. QED BY <2>2, <4>4
    <3>4. \A i \in g .. g + size - 1 : i < e => i \in TailStart .. e - 1
      BY <1>1, <1>4, <3>1
    <3>5. QED BY <1>1, <1>4, <2>2, <3>1, <3>2, <3>3, <3>4
  <2>3. QED BY <2>1, <2>2
<1> HIDE DEF g, gaps
<1>8. w \in Nat /\ g \in Nat /\ g \in 1 .. Len(x) /\ w \in 1 .. Len(x) /\ w + 1 = g + size
  BY <1>1, <1>4, <1>6, <1>7
<1>9. ASSUME NEW i \in g .. w PROVE x[i].kind \in {"free", "gone", "last"}
  <2>1. i \in 1 .. Len(x)
    BY <1>8
  <2>2. CASE i < e
    <3>1. IsFree(i) /\ x[i] = dir[i]
      BY <1>4, <1>6, <1>7, <2>1, <2>2
    <3>2. QED BY <3>1 DEF IsFree
  <2>3. CASE ~(i < e)
    <3>1. x[i] = Last
      BY <1>4, <1>6, <2>1, <2>3
    <3>2. QED BY <3>1 DEF Last
  <2>4. QED BY <2>2, <2>3
<1>10. /\ DOMAIN d2 = 1 .. Len(x) /\ d2 = [i \in DOMAIN x |-> d2[i]]
       /\ d2[w] = AliasSlot(a, f)
  BY <1>2, <1>6, <1>8
<1>11. ASSUME NEW i \in g .. w - 1 PROVE d2[i] = LfnSlot(n, w - i, i = g, CheckSum[a])
  <2>1. i \in DOMAIN x /\ i >= g /\ i < g + size - 1
    BY <1>6, <1>8
  <2>2. d2[i] = IF i >= g /\ i < g + size - 1 THEN LfnSlot(n, g + size - 1 - i, i = g, CheckSum[a])
                ELSE IF i = g + size - 1 THEN AliasSlot(a, f)
                ELSE IF i = g + size /\ gaps = {} THEN Last
                ELSE x[i]
    BY <1>2, <2>1, Zenon
  <2> DEFINE L == LfnSlot(n, g + size - 1 - i, i = g, CheckSum[a])
  <2>3. d2[i] = IF i >= g /\ i < g + size - 1 THEN L
                ELSE IF i = g + size - 1 THEN AliasSlot(a, f)
                ELSE IF i = g + size /\ gaps = {} THEN Last
                ELSE x[i]
    BY <2>2, Zenon
  <2> HIDE DEF L
  <2>4. d2[i] = L
    BY <2>1, <2>3
  <2>5. g + size - 1 - i = w - i
    BY <1>1, <1>8
  <2>6. QED BY <2>4, <2>5, Zenon DEF L
<1>12. ASSUME NEW i \in 1 .. Len(x), i \notin g .. w PROVE d2[i] = x[i]
  <2>1. ~(i >= g /\ i < g + size - 1) /\ i # g + size - 1 /\ i \in DOMAIN x
    BY <1>1, <1>6, <1>8, <1>12
  <2>2. i = g + size /\ gaps = {} => x[i] = Last
    BY <1>4, <1>6, <1>7, <1>8
  <2>3. QED BY <1>2, <2>1, <2>2
<1>13. Written(x, d2, n, a, f, g, w)
  BY <1>6, <1>8, <1>9, <1>10, <1>11, <1>12 DEF Written, size
<1>14. \E e2 \in Nat : EndsAt(d2, e2)
  <2>1. ASSUME NEW i \in g .. w PROVE d2[i] # Last
    <3>1. i = w \/ i \in g .. w - 1
      BY <1>8
    <3>2. AliasSlot(a, f) # Last /\ \A b, c, h : LfnSlot(n, b, c, h) # Last
      BY DEF AliasSlot, LfnSlot, Last
    <3>3. CASE i = w
      BY <1>10, <3>2, <3>3
    <3>4. CASE i \in g .. w - 1
      <4>1. PICK b \in BOOLEAN : b = (i = g)
        OBVIOUS
      <4>2. d2[i] = LfnSlot(n, w - i, b, CheckSum[a])
        BY <1>11, <3>4, <4>1
      <4>3. QED BY <3>2, <4>2
    <3>5. QED BY <3>1, <3>3, <3>4
  <2>2. CASE gaps # {}
    <3>1. ASSUME NEW i \in 1 .. Len(x) PROVE d2[i] = Last <=> i >= e
      <4>1. CASE i \in g .. w
        BY <1>4, <1>7, <1>8, <2>1, <2>2, <4>1
      <4>2. CASE i \notin g .. w
        BY <1>6, <1>12, <4>2
      <4>3. QED BY <4>1, <4>2
    <3>2. QED BY <1>4, <1>6, <1>10, <3>1 DEF EndsAt
  <2>3. CASE gaps = {}
    <3>1. ASSUME NEW i \in 1 .. Len(x) PROVE d2[i] = Last <=> i >= w + 1
      <4>1. CASE i \in g .. w
        BY <1>8, <2>1, <4>1
      <4>2. CASE i \notin g .. w
        <5>1. d2[i] = x[i] /\ (x[i] = Last <=> i >= e)
          BY <1>6, <1>12, <4>2
        <5>2. i >= e <=> i >= w + 1
          BY <1>4, <1>7, <1>8, <2>3, <4>2
        <5>3. QED BY <5>1, <5>2
      <4>3. QED BY <4>1, <4>2
    <3>2. w + 1 \in 1 .. Len(x)
      BY <1>7, <1>8
    <3>3. QED BY <1>10, <3>1, <3>2 DEF EndsAt
  <2>4. QED BY <2>2, <2>3
<1>15. QED BY <1>8, <1>13, <1>14 DEF x, d2, k, size

-----------------------------------------------------------------------------
(* What a call does to the entries *)

(* d2 is d without the entries in the slots out and with a new one in w *)
Changes(d, d2, out, w, n, a, f) ==
    /\ d2 \in Seq(Slot) /\ Len(d) <= Len(d2) /\ Whole(d2) /\ (\E e : EndsAt(d2, e))
    /\ w \notin AliasSlots(d) /\ AliasSlots(d2) = (AliasSlots(d) \ out) \cup {w}
    /\ \A q \in AliasSlots(d) \ out : d2[q] = d[q] /\ EntryAt(d2, q) = EntryAt(d, q)
    /\ d2[w].file = f
    /\ EntryAt(d2, w).filename = n /\ EntryAt(d2, w).alias = a /\ EntryAt(d2, w).file = f

(* addEntry adds the entry it is asked for and leaves the others alone *)
LEMMA EntryAdded ==
    ASSUME dir \in Seq(Slot), DirInv, NEW n, NEW a, NEW f, Writable(n, a, f)
    PROVE  /\ \E w : Changes(dir, Added(n, a, f), {}, w, n, a, f)
           /\ ClustersFor(EntrySize(n)) \in Nat
           /\ Len(Added(n, a, f)) = Len(dir) + ClustersFor(EntrySize(n)) * SlotsPerCluster
<1>1. PICK e : EndsAt(dir, e) /\ Whole(dir)
  BY DEF DirInv
<1>2. PICK k \in Nat : k = ClustersFor(EntrySize(n))
  <2>1. EntrySize(n) \in Nat /\ EntrySize(n) >= 1
    BY SizeOfEntry DEF Writable
  <2>2. QED BY <1>1, <2>1, ClustersFound
<1>3. PICK x : x = Extended(k)
  OBVIOUS
<1>4. PICK d2 : d2 = Added(n, a, f)
  OBVIOUS
<1>5. /\ Longer(dir, x) /\ Len(x) = Len(dir) + k * SlotsPerCluster
  BY <1>3, ExtendedSlots
<1>6. PICK g, w, e2 \in Nat : Written(x, d2, n, a, f, g, w) /\ EndsAt(d2, e2)
  BY <1>1, <1>2, <1>3, <1>4, AddedWritten
<1>7. /\ x \in Seq(Slot) /\ Len(dir) <= Len(x) /\ Whole(x) /\ AliasSlots(x) = AliasSlots(dir)
      /\ \A q \in AliasSlots(dir) : x[q] = dir[q] /\ EntryAt(x, q) = EntryAt(dir, q)
  BY <1>1, <1>5, LongerWhole DEF Longer
<1>8. /\ d2 \in Seq(Slot) /\ Len(d2) = Len(x) /\ d2[w].file = f
  BY <1>6, <1>7, WrittenSlots
<1>9. Whole(d2) /\ AliasSlots(d2) = AliasSlots(dir) \cup {w}
  BY <1>6, <1>7, WrittenWhole
<1>10. \A q \in AliasSlots(dir) : q # w /\ d2[q] = dir[q] /\ EntryAt(d2, q) = EntryAt(dir, q)
  BY <1>6, <1>7, WrittenOthers
<1>11. EntryAt(d2, w) = [filename |-> n, alias |-> a, file |-> f, dataStart |-> g, dataEnd |-> w]
  BY <1>6, <1>7, WrittenEntry
<1>12. EntryAt(d2, w).filename = n /\ EntryAt(d2, w).alias = a /\ EntryAt(d2, w).file = f
  BY <1>11
<1>13. Changes(dir, d2, {}, w, n, a, f)
  BY <1>6, <1>7, <1>8, <1>9, <1>10, <1>12 DEF Changes
<1>14. QED BY <1>2, <1>4, <1>5, <1>8, <1>13

(* and rename takes the old entry away behind that *)
LEMMA EntryReplaced ==
    ASSUME dir \in Seq(Slot), DirInv, NEW n, NEW a, NEW f, Writable(n, a, f), NEW q \in AliasSlots(dir)
    PROVE  LET d2 == RemoveSlots(Added(n, a, f), Region(dir, q))
           IN  /\ \E w : Changes(dir, d2, {q}, w, n, a, f)
               /\ Len(d2) = Len(dir) + ClustersFor(EntrySize(n)) * SlotsPerCluster
<1>1. PICK d : d = Added(n, a, f)
  OBVIOUS
<1>2. PICK w : Changes(dir, d, {}, w, n, a, f)
  BY <1>1, EntryAdded
<1>3. /\ d \in Seq(Slot) /\ Len(dir) <= Len(d) /\ Whole(d)
      /\ w \notin AliasSlots(dir) /\ AliasSlots(d) = AliasSlots(dir) \cup {w}
      /\ \A p \in AliasSlots(dir) : d[p] = dir[p] /\ EntryAt(d, p) = EntryAt(dir, p)
      /\ d[w].file = f
      /\ EntryAt(d, w).filename = n /\ EntryAt(d, w).alias = a /\ EntryAt(d, w).file = f
  BY <1>2 DEF Changes
<1>4. PICK e : EndsAt(d, e)
  BY <1>2 DEF Changes
<1>5. Region(d, q) = Region(dir, q) /\ q \in AliasSlots(d) /\ q # w
  <2>1. EntryAt(d, q) = EntryAt(dir, q)
    BY <1>3
  <2>2. EntryAt(d, q).dataStart = StartOf(d, q) /\ EntryAt(dir, q).dataStart = StartOf(dir, q)
    BY DEF EntryAt
  <2>3. QED BY <1>3, <2>1, <2>2 DEF Region
<1>6. PICK d2 : d2 = RemoveSlots(d, Region(d, q))
  OBVIOUS
<1>7. d2 \in Seq(Slot) /\ Len(d2) = Len(d) /\ EndsAt(d2, e)
  BY <1>3, <1>4, <1>5, <1>6, RemovedSlots
<1>8. Whole(d2) /\ AliasSlots(d2) = AliasSlots(d) \ {q}
  BY <1>3, <1>5, <1>6, RemovedWhole
<1>9. \A p \in AliasSlots(d) : p # q => d2[p] = d[p] /\ EntryAt(d2, p) = EntryAt(d, p)
  BY <1>3, <1>5, <1>6, RemovedOthers
<1>10. Changes(dir, d2, {q}, w, n, a, f)
  BY <1>3, <1>5, <1>7, <1>8, <1>9 DEF Changes
<1>11. QED BY <1>1, <1>5, <1>6, <1>7, <1>10, EntryAdded

(* The entries as records *)
LEMMA EntriesAre ==
    dir \in Seq(Slot) /\ DirInv => Entries = {EntryAt(dir, q) : q \in AliasSlots(dir)}
BY EntriesFound DEF DirInv

(* after a step *)
LEMMA EntriesArePrime ==
    (dir \in Seq(Slot) /\ DirInv)' => (Entries = {EntryAt(dir, q) : q \in AliasSlots(dir)})'
BY EntriesAre, PTL

(* Fields of an entry *)
LEMMA EntryFields ==
    ASSUME NEW d, NEW q
    PROVE  /\ EntryAt(d, q).filename = FileName(d, q) /\ EntryAt(d, q).alias = d[q].alias
           /\ EntryAt(d, q).file = d[q].file
           /\ EntryAt(d, q).dataStart = StartOf(d, q) /\ EntryAt(d, q).dataEnd = q
BY DEF EntryAt

(* A name that is looked up is that of a slot *)
LEMMA LookupFound ==
    ASSUME dir \in Seq(Slot), DirInv, NEW n, NEW e \in Lookup(n)
    PROVE  \E q \in AliasSlots(dir) :
              /\ e = EntryAt(dir, q) /\ e \in Entries /\ Matches(e, n)
              /\ e.file = dir[q].file /\ e.file \in Files
              /\ SlotsOf(e) = Region(dir, q) /\ e.dataEnd = q /\ q < Len(dir)
<1>1. e \in Entries /\ Matches(e, n)
  BY DEF Lookup
<1>2. PICK q \in AliasSlots(dir) : e = EntryAt(dir, q)
  BY <1>1, EntriesAre
<1>3. PICK s : EndsAt(dir, s)
  BY DEF DirInv
<1>4. q \in 1 .. Len(dir) /\ Len(dir) \in Nat /\ dir[q].kind = "alias" /\ DOMAIN dir = 1 .. Len(dir) /\ dir[q].file \in Files
  BY SlotTypes
<1>5. dir[q] # Last
  BY <1>4 DEF Last
<1>6. q < Len(dir)
  BY <1>3, <1>4, <1>5 DEF EndsAt
<1>7. e.file = dir[q].file /\ e.dataStart = StartOf(dir, q) /\ e.dataEnd = q
  BY <1>2, EntryFields
<1>8. QED BY <1>1, <1>2, <1>4, <1>6, <1>7 DEF SlotsOf, Region

-----------------------------------------------------------------------------
(* Names *)

NamesApart(E) == \A n \in Names : \A d, e \in E : Matches(d, n) /\ Matches(e, n) => d = e

(* A name as addEntry stores it has no spaces at its end *)
LEMMA StrippedName ==
    ASSUME NEW n \in Names
    PROVE  Stripped(n) \in Aliases \cup LongNames
BY DirectoryAssumption DEF Stripped, Names

(* An alias is the same in any case *)
LEMMA AliasFolded ==
    ASSUME NEW a \in Aliases
    PROVE  Folded(a) = a
BY DirectoryAssumption DEF Folded

(* The alias that a new entry gets is not taken *)
LEMMA AliasNotTaken ==
    ASSUME NEW n \in Aliases \cup LongNames, ~EntryExists(n), NEW a \in AliasFor(n)
    PROVE  a \in Aliases /\ (n \in Aliases => a = n) /\ ~EntryExists(a)
<1>1. CASE n \in Aliases
  BY <1>1 DEF AliasFor
<1>2. CASE n \notin Aliases
  <2>1. n \in LongNames /\ BaseOf[n] \in Bases /\ MAX_NUMERIC_TAIL \in Nat
    BY <1>2, DirectoryAssumption
  <2>2. \A i \in 0 .. MAX_NUMERIC_TAIL : <<BaseOf[n], i>> \in Aliases
    BY <2>1 DEF Aliases
  <2>3. CASE n \in CaseNames /\ ~EntryExists(<<BaseOf[n], 0>>)
    <3>1. a = <<BaseOf[n], 0>>
      BY <1>2, <2>3 DEF AliasFor
    <3>2. 0 \in 0 .. MAX_NUMERIC_TAIL
      BY <2>1
    <3>3. QED BY <1>2, <2>2, <2>3, <3>1, <3>2
  <2>4. CASE ~(n \in CaseNames /\ ~EntryExists(<<BaseOf[n], 0>>))
    <3>1. PICK i \in Tails(n) : a = <<BaseOf[n], i>>
      BY <1>2, <2>4 DEF AliasFor
    <3>2. i \in 0 .. MAX_NUMERIC_TAIL /\ ~EntryExists(<<BaseOf[n], i>>)
      BY <2>1, <3>1 DEF Tails
    <3>3. QED BY <1>2, <2>2, <3>1, <3>2
  <2>5. QED BY <2>3, <2>4
<1>3. QED BY <1>1, <1>2

(* An entry whose name and alias mean no other keeps the names apart *)
LEMMA NamesStayApart ==
    ASSUME NEW E, NamesApart(E), NEW r, Folded(r.alias) = r.alias,
           \A e \in E : ~Matches(e, r.filename) /\ ~Matches(e, r.alias)
    PROVE  NamesApart(E \cup {r})
<1>1. ASSUME NEW n, NEW e \in E, Matches(r, n) PROVE ~Matches(e, n)
  <2>1. Folded(r.filename) = Folded(n) \/ Folded(r.alias) = Folded(n)
    BY <1>1 DEF Matches
  <2>2. ~Matches(e, r.filename) /\ ~Matches(e, r.alias)
    OBVIOUS
  <2>3. QED BY <2>1, <2>2 DEF Matches
<1>2. QED BY <1>1 DEF NamesApart

(* The entries after a change, and what their names are *)
LEMMA ChangedNames ==
    ASSUME NEW d, NEW d2, NEW out, NEW w, NEW n, NEW a \in Aliases, NEW f, Changes(d, d2, out, w, n, a, f),
           NEW E, E = {EntryAt(d, q) : q \in AliasSlots(d)}, NamesApart(E),
           \A e \in E : ~Matches(e, n) /\ ~Matches(e, a)
    PROVE  NamesApart({EntryAt(d2, q) : q \in AliasSlots(d2)})
<1> DEFINE r == EntryAt(d2, w)
           F == {EntryAt(d2, q) : q \in AliasSlots(d2)}
<1>1. r.filename = n /\ r.alias = a /\ Folded(r.alias) = r.alias
  BY AliasFolded DEF Changes
<1>2. NamesApart(E \cup {r})
  <2> HIDE DEF r
  <2>1. QED BY <1>1, NamesStayApart
<1>3. ASSUME NEW q \in AliasSlots(d2) PROVE EntryAt(d2, q) \in E \cup {r}
  <2>1. q = w \/ q \in AliasSlots(d) \ out
    BY DEF Changes
  <2>2. q \in AliasSlots(d) \ out => EntryAt(d2, q) = EntryAt(d, q)
    BY DEF Changes
  <2>3. QED BY <2>1, <2>2
<1>4. F \subseteq E \cup {r}
  BY <1>3
<1> HIDE DEF F, r
<1>5. NamesApart(F)
  BY <1>2, <1>4 DEF NamesApart
<1>6. QED BY <1>5 DEF F

-----------------------------------------------------------------------------
(* What a step keeps *)

(* Names, room and results, as far as the directory has to do with them *)
DirectoryInv ==
    /\ dir \in Seq(Slot) /\ Len(dir) % SlotsPerCluster = 0 /\ spare \in 0 .. MaxSpare
    /\ DirInv /\ NamesAreUnambiguous

CallTypes ==
    /\ call.name \in Names \cup {NoName} /\ call.old \in Names \cup {NoName}
    /\ call.errno \in {"none", "ENOSPC", "EIO"}

(* A step that changes the entries leaves a right directory *)
LEMMA ChangeKeeps ==
    ASSUME DirectoryInv, NEW out \in SUBSET AliasSlots(dir), NEW w,
           NEW n \in Aliases \cup LongNames, NEW f \in Files, ~EntryExists(n),
           NEW a \in AliasFor(n), Changes(dir, dir', out, w, n, a, f),
           \A q \in AliasSlots(dir) \ out : dir[q].file # f,
           Len(dir') % SlotsPerCluster = 0, spare' \in 0 .. MaxSpare
    PROVE  DirectoryInv'
<1>1. /\ dir' \in Seq(Slot) /\ Whole(dir') /\ (\E e : EndsAt(dir', e))
      /\ w \notin AliasSlots(dir) /\ AliasSlots(dir') = (AliasSlots(dir) \ out) \cup {w}
      /\ \A q \in AliasSlots(dir) \ out : dir'[q] = dir[q]
      /\ dir'[w].file = f
  BY DEF Changes
<1>2. FilesDiffer(dir')
  BY <1>1 DEF FilesDiffer, DirectoryInv, DirInv
<1>3. DirInv'
  BY <1>1, <1>2 DEF DirInv, EndsAt
<1>4. a \in Aliases /\ ~EntryExists(a)
  BY AliasNotTaken
<1>5. Entries = {EntryAt(dir, q) : q \in AliasSlots(dir)} /\ NamesApart(Entries)
  BY EntriesAre DEF DirectoryInv, NamesAreUnambiguous, NamesApart
<1>6. \A e \in Entries : ~Matches(e, n) /\ ~Matches(e, a)
  BY <1>4 DEF EntryExists
<1>7. NamesApart({EntryAt(dir', q) : q \in AliasSlots(dir')})
  BY <1>4, <1>5, <1>6, ChangedNames
<1>8. (Entries = {EntryAt(dir, q) : q \in AliasSlots(dir)})'
  BY <1>1, <1>3, EntriesArePrime
<1>9. NamesAreUnambiguous'
  <2>1. NamesApart(Entries')
    BY <1>7, <1>8
  <2>2. QED BY <2>1 DEF NamesApart, NamesAreUnambiguous, Matches
<1>10. QED BY <1>1, <1>3, <1>9 DEF DirectoryInv

(* Whole clusters stay whole clusters *)
LEMMA StillClusters ==
    ASSUME NEW m \in Nat, m % SlotsPerCluster = 0, NEW k \in Nat
    PROVE  (m + k * SlotsPerCluster) % SlotsPerCluster = 0
<1>1. PICK S \in Nat \ {0} : S = SlotsPerCluster
  BY DirectoryAssumption
<1>2. PICK j \in Nat : m = j * S
  <2>1. m \div S \in Nat /\ m = (m \div S) * S + (m % S)
    OBVIOUS
  <2>2. m = (m \div S) * S
    BY <1>1, <2>1
  <2>3. QED BY <2>1, <2>2
<1>3. m + k * S = (j + k) * S
  BY <1>2
<1>4. ASSUME NEW i \in Nat PROVE (i * S) % S = 0
  <2>1. PICK z \in Nat : z = i * S
    OBVIOUS
  <2>2. z \div S \in Nat /\ z % S \in 0 .. S - 1 /\ z = (z \div S) * S + (z % S)
    OBVIOUS
  <2>3. PICK u \in Nat, r \in 0 .. S - 1 : u = z \div S /\ r = z % S /\ z = u * S + r
    BY <2>2
  <2>4. ~(u < i)
    <3>1. u < i => u * S + S <= i * S
      BY <1>1, ClusterSlots
    <3>2. u * S \in Nat
      OBVIOUS
    <3>3. QED BY <2>1, <2>3, <3>1, <3>2
  <2>5. ~(i < u)
    <3>1. i < u => i * S + S <= u * S
      BY <1>1, ClusterSlots
    <3>2. u * S \in Nat /\ i * S \in Nat
      OBVIOUS
    <3>3. QED BY <2>1, <2>3, <3>1, <3>2
  <2>6. u = i
    BY <2>4, <2>5
  <2>7. r = 0
    BY <2>1, <2>3, <2>6
  <2>8. QED BY <2>1, <2>3, <2>7
<1>5. PICK c \in Nat : c = j + k
  OBVIOUS
<1>6. (c * S) % S = 0
  BY <1>4
<1>7. PICK z : z = m + k * S /\ z = c * S
  BY <1>3, <1>5
<1>8. z % S = 0
  BY <1>6, <1>7
<1>9. QED BY <1>1, <1>7, <1>8, Zenon

(* An entry added: what addEntry does when it has a file to add *)
LEMMA AddEntryKeeps ==
    ASSUME DirectoryInv, NEW n \in Aliases \cup LongNames, NEW f \in Files \ Used, AddEntry(n, f, {})
    PROVE  /\ DirectoryInv'
           /\ \E w : \E a \in AliasFor(n) : Changes(dir, dir', {}, w, n, a, f)
<1>1. dir \in Seq(Slot) /\ Len(dir) % SlotsPerCluster = 0 /\ DirInv /\ spare \in 0 .. MaxSpare /\ MaxSpare \in Nat /\ Len(dir) \in Nat
  BY DirectoryAssumption, SlotTypes DEF DirectoryInv
<1>2. PICK a \in AliasFor(n) : dir' = RemoveSlots(Added(n, a, f), {})
  BY DEF AddEntry
<1>3. ~EntryExists(n) /\ Writable(n, a, f)
  BY AliasNotTaken DEF AddEntry, Writable
<1>4. PICK d2 : d2 = Added(n, a, f)
  OBVIOUS
<1>5. PICK k \in Nat : k = ClustersFor(EntrySize(n))
  BY <1>1, <1>3, EntryAdded
<1>6. PICK w : Changes(dir, d2, {}, w, n, a, f)
  BY <1>1, <1>3, <1>4, EntryAdded
<1>7. dir' = d2
  <2>1. d2 \in Seq(Slot)
    BY <1>6 DEF Changes
  <2>2. d2 = [i \in DOMAIN d2 |-> d2[i]]
    BY <2>1, SlotTypes
  <2>3. QED BY <1>2, <1>4, <2>2 DEF RemoveSlots
<1>8. Len(dir') % SlotsPerCluster = 0
  BY <1>1, <1>3, <1>4, <1>5, <1>7, EntryAdded, StillClusters
<1>9. spare' \in 0 .. MaxSpare
  <2>1. k <= spare /\ spare' = spare - k
    BY <1>5 DEF AddEntry
  <2>2. QED BY <1>1, <1>5, <2>1
<1>10. \A q \in AliasSlots(dir) : dir[q].file # f
  <2>1. Entries = {EntryAt(dir, q) : q \in AliasSlots(dir)}
    BY <1>1, EntriesAre
  <2>2. ASSUME NEW q \in AliasSlots(dir) PROVE dir[q].file \in Used
    <3>1. EntryAt(dir, q) \in Entries /\ EntryAt(dir, q).file = dir[q].file
      BY <2>1, EntryFields
    <3>2. QED BY <3>1 DEF Used
  <2>3. QED BY <2>2
<1>11. DirectoryInv'
  BY <1>3, <1>6, <1>7, <1>8, <1>9, <1>10, ChangeKeeps
<1>12. QED BY <1>6, <1>7, <1>11

(* and when the entry in slot q is replaced *)
LEMMA ReplaceKeeps ==
    ASSUME DirectoryInv, NEW n \in Aliases \cup LongNames, NEW q \in AliasSlots(dir),
           AddEntry(n, dir[q].file, Region(dir, q))
    PROVE  /\ DirectoryInv'
           /\ \E w : \E a \in AliasFor(n) : Changes(dir, dir', {q}, w, n, a, dir[q].file)
<1>1. dir \in Seq(Slot) /\ Len(dir) % SlotsPerCluster = 0 /\ DirInv /\ spare \in 0 .. MaxSpare /\ MaxSpare \in Nat /\ Len(dir) \in Nat
  BY DirectoryAssumption, SlotTypes DEF DirectoryInv
<1>2. PICK f \in Files : f = dir[q].file
  BY <1>1, SlotTypes
<1>3. PICK a \in AliasFor(n) : dir' = RemoveSlots(Added(n, a, f), Region(dir, q))
  BY <1>2 DEF AddEntry
<1>4. ~EntryExists(n) /\ Writable(n, a, f)
  BY AliasNotTaken DEF AddEntry, Writable
<1>5. PICK k \in Nat : k = ClustersFor(EntrySize(n))
  BY <1>1, <1>4, EntryAdded
<1>6. PICK w : Changes(dir, dir', {q}, w, n, a, f)
  BY <1>1, <1>3, <1>4, EntryReplaced
<1>7. Len(dir') % SlotsPerCluster = 0
  BY <1>1, <1>3, <1>4, <1>5, EntryReplaced, StillClusters
<1>8. spare' \in 0 .. MaxSpare
  <2>1. k <= spare /\ spare' = spare - k
    BY <1>5 DEF AddEntry
  <2>2. QED BY <1>1, <1>5, <2>1
<1>9. \A p \in AliasSlots(dir) \ {q} : dir[p].file # f
  BY <1>1, <1>2 DEF DirInv, FilesDiffer
<1>10. DirectoryInv'
  BY <1>4, <1>6, <1>7, <1>8, <1>9, ChangeKeeps
<1>11. QED BY <1>2, <1>6, <1>10

(* Clusters added in vain change no entry *)
LEMMA ExtendKeeps ==
    ASSUME DirectoryInv, dir' = Extended(spare), spare' = 0
    PROVE  /\ DirectoryInv' /\ Longer(dir, dir') /\ Len(dir') = Len(dir) + spare * SlotsPerCluster
           /\ AliasSlots(dir') = AliasSlots(dir)
           /\ \A q \in AliasSlots(dir) : dir'[q] = dir[q]
           /\ Entries' = Entries
<1>1. dir \in Seq(Slot) /\ Len(dir) % SlotsPerCluster = 0 /\ DirInv /\ spare \in Nat /\ MaxSpare \in Nat /\ Len(dir) \in Nat
  BY DirectoryAssumption, SlotTypes DEF DirectoryInv
<1>2. Longer(dir, dir') /\ Len(dir') = Len(dir) + spare * SlotsPerCluster /\ dir' \in Seq(Slot)
  BY <1>1, ExtendedSlots DEF Longer
<1>3. Whole(dir) /\ (\E e : EndsAt(dir, e)) /\ FilesDiffer(dir)
  BY <1>1 DEF DirInv
<1>4. /\ Whole(dir') /\ AliasSlots(dir') = AliasSlots(dir)
      /\ \A q \in AliasSlots(dir) : dir'[q] = dir[q] /\ EntryAt(dir', q) = EntryAt(dir, q)
      /\ \E e : EndsAt(dir', e)
  BY <1>1, <1>2, <1>3, LongerWhole
<1>5. FilesDiffer(dir')
  BY <1>3, <1>4 DEF FilesDiffer
<1>6. DirInv'
  BY <1>4, <1>5 DEF DirInv, EndsAt
<1>7. Entries' = Entries
  <2>1. Entries = {EntryAt(dir, q) : q \in AliasSlots(dir)}
    BY <1>1, EntriesAre
  <2>2. (Entries = {EntryAt(dir, q) : q \in AliasSlots(dir)})'
    BY <1>2, <1>6, EntriesArePrime
  <2>3. Entries' = {EntryAt(dir', q) : q \in AliasSlots(dir')}
    BY <2>2
  <2>4. QED BY <1>4, <2>1, <2>3
<1>8. NamesAreUnambiguous'
  BY <1>7 DEF NamesAreUnambiguous, Matches, DirectoryInv
<1>9. Len(dir') % SlotsPerCluster = 0
  BY <1>1, <1>2, StillClusters
<1>10. spare' \in 0 .. MaxSpare
  BY <1>1
<1>11. QED BY <1>2, <1>4, <1>6, <1>7, <1>8, <1>9, <1>10 DEF DirectoryInv

(* A removal takes one entry away *)
LEMMA RemoveKeeps ==
    ASSUME DirectoryInv, NEW q \in AliasSlots(dir), dir' = RemoveSlots(dir, Region(dir, q)), UNCHANGED spare
    PROVE  /\ DirectoryInv' /\ Len(dir') = Len(dir)
           /\ AliasSlots(dir') = AliasSlots(dir) \ {q}
           /\ \A p \in AliasSlots(dir) \ {q} : dir'[p] = dir[p]
           /\ Entries' = Entries \ {EntryAt(dir, q)}
<1>1. dir \in Seq(Slot) /\ Len(dir) % SlotsPerCluster = 0 /\ DirInv /\ spare \in 0 .. MaxSpare
  BY DEF DirectoryInv
<1>2. Whole(dir) /\ (\E e : EndsAt(dir, e)) /\ FilesDiffer(dir)
  BY <1>1 DEF DirInv
<1>3. dir' \in Seq(Slot) /\ Len(dir') = Len(dir) /\ \E e : EndsAt(dir', e)
  BY <1>1, <1>2, RemovedSlots
<1>4. Whole(dir') /\ AliasSlots(dir') = AliasSlots(dir) \ {q}
  BY <1>1, <1>2, RemovedWhole
<1>5. \A p \in AliasSlots(dir) : p # q => dir'[p] = dir[p] /\ EntryAt(dir', p) = EntryAt(dir, p)
  BY <1>1, <1>2, RemovedOthers
<1>6. FilesDiffer(dir')
  BY <1>2, <1>4, <1>5 DEF FilesDiffer
<1>7. DirInv'
  BY <1>3, <1>4, <1>6 DEF DirInv, EndsAt
<1>8. Entries' = Entries \ {EntryAt(dir, q)}
  <2>1. Entries = {EntryAt(dir, p) : p \in AliasSlots(dir)}
    BY <1>1, EntriesAre
  <2>2. (Entries = {EntryAt(dir, p) : p \in AliasSlots(dir)})'
    BY <1>3, <1>7, EntriesArePrime
  <2>3. Entries' = {EntryAt(dir', p) : p \in AliasSlots(dir')}
    BY <2>2
  <2>4. \A p \in AliasSlots(dir) : p # q => EntryAt(dir, p) # EntryAt(dir, q)
    BY EntryFields
  <2>5. QED BY <1>4, <1>5, <2>1, <2>3, <2>4
<1>9. NamesAreUnambiguous'
  BY <1>8 DEF NamesAreUnambiguous, Matches, DirectoryInv
<1>10. QED BY <1>1, <1>3, <1>4, <1>5, <1>7, <1>8, <1>9 DEF DirectoryInv

-----------------------------------------------------------------------------
(* Refusals *)

(* What is taken depends on the entries alone *)
LEMMA SameEntries ==
    ASSUME Entries' = Entries, NEW CONSTANT n
    PROVE  (EntryExists(n)' <=> EntryExists(n)) /\ AliasFor(n)' = AliasFor(n)
<1>1. ASSUME NEW CONSTANT m PROVE EntryExists(m)' <=> EntryExists(m)
  BY DEF EntryExists, Matches
<1>2. Tails(n)' = Tails(n)
  BY <1>1 DEF Tails
<1>3. EntryExists(<<BaseOf[n], 0>>)' <=> EntryExists(<<BaseOf[n], 0>>)
  BY <1>1
<1>4. AliasFor(n)' = AliasFor(n)
  BY <1>2, <1>3 DEF AliasFor
<1>5. QED BY <1>1, <1>4

(* and the entries on the slots *)
LEMMA SameSlots ==
    ASSUME UNCHANGED dir
    PROVE  /\ Entries' = Entries
           /\ \A i : (IsFree(i)' <=> IsFree(i)) /\ (Unused(i)' <=> Unused(i))
<1>1. EndSlot' = EndSlot
  BY DEF EndSlot
<1>2. \A p, q : EntryIn(p, q)' = EntryIn(p, q)
  BY DEF EntryIn, LfnStart, LongName
<1>3. Entries' = Entries
  BY <1>1, <1>2 DEF Entries
<1>4. QED BY <1>3 DEF IsFree, Unused

(* addEntry has no room: it has added every free cluster, and there is no  *)
(* gap and no room at the end                                              *)
LEMMA NoRoom ==
    ASSUME DirectoryInv, NEW size \in Nat, size >= 1, ClustersFor(size) > spare, dir' = Extended(spare), spare' = 0
    PROVE  /\ \A g \in 1 .. Len(dir') - size : \E i \in g .. g + size : ~Unused(i)'
           /\ \A g \in 1 .. Len(dir') - size + 1 : \E i \in g .. g + size - 1 : ~IsFree(i)'
<1>1. dir \in Seq(Slot) /\ spare \in Nat /\ Len(dir) \in Nat
  BY DirectoryAssumption, SlotTypes DEF DirectoryInv
<1>2. PICK e : EndsAt(dir, e)
  BY DEF DirectoryInv, DirInv
<1>3. /\ dir' \in Seq(Slot) /\ Len(dir) <= Len(dir') /\ Len(dir') = Len(dir) + spare * SlotsPerCluster /\ Len(dir') \in Nat
      /\ \A i \in 1 .. Len(dir) : dir'[i] = dir[i]
      /\ \A i \in Len(dir) + 1 .. Len(dir') : dir'[i] = Last
  BY <1>1, ExtendedSlots, SlotTypes DEF Longer
<1>4. Gaps(size) = {} /\ TailStart + size > Len(dir')
  <2>1. ClustersFor(size) \in Nat
    BY <1>1, <1>2, ClustersFound
  <2>2. spare < ClustersFor(size)
    BY <1>1, <2>1
  <2>3. QED BY <1>1, <1>2, <1>3, <2>2, ClustersFound
<1>5. /\ e \in 1 .. Len(dir) /\ TailStart \in 1 .. e
      /\ TailStart > 1 => ~IsFree(TailStart - 1)
  BY <1>1, <1>2, TailFound
<1>6. EndSlot = e /\ \A i \in 1 .. Len(dir) : dir[i] = Last <=> i >= e
  BY <1>1, <1>2, EndFound, SlotTypes DEF EndsAt
<1>7. ASSUME NEW g \in 1 .. e - size PROVE \E i \in g .. g + size - 1 : ~IsFree(i) /\ i \in 1 .. e - 1
  <2>1. \E i \in g .. g + size - 1 : ~IsFree(i)
    BY <1>4, <1>6 DEF Gaps
  <2>2. \A i \in g .. g + size - 1 : i \in 1 .. e - 1
    BY <1>5
  <2>3. QED BY <2>1, <2>2
<1>8. ASSUME NEW i \in 1 .. e - 1, ~IsFree(i) PROVE ~Unused(i)' /\ ~IsFree(i)'
  <2>1. i \in 1 .. Len(dir) /\ ~(i >= e)
    BY <1>1, <1>5
  <2>2. dir'[i] = dir[i] /\ dir[i] # Last /\ dir[i] \in Slot
    BY <1>1, <1>3, <1>6, <2>1, SlotTypes
  <2>3. dir[i].kind # "last" /\ dir[i].kind \notin {"free", "gone"}
    BY <1>8, <2>2, SlotKinds DEF IsFree
  <2>4. QED BY <2>2, <2>3 DEF IsFree, Unused
<1>9. ASSUME NEW i \in e .. Len(dir') PROVE ~IsFree(i)'
  <2>1. dir'[i] = Last
    <3>1. CASE i \in 1 .. Len(dir)
      BY <1>3, <1>5, <1>6, <3>1
    <3>2. CASE i \notin 1 .. Len(dir)
      BY <1>1, <1>3, <1>5, <3>2
    <3>3. QED BY <3>1, <3>2
  <2>2. QED BY <2>1 DEF IsFree, Last
<1>10. ASSUME NEW g \in 1 .. Len(dir') - size PROVE \E i \in g .. g + size : ~Unused(i)'
  <2>1. g < TailStart
    BY <1>3, <1>4, <1>5
  <2>2. CASE g + size >= TailStart - 1
    <3>1. TailStart - 1 \in g .. g + size /\ TailStart > 1 /\ TailStart - 1 \in 1 .. e - 1
      BY <1>5, <2>1, <2>2
    <3>2. QED BY <1>5, <1>8, <3>1
  <2>3. CASE ~(g + size >= TailStart - 1)
    <3>1. g \in 1 .. e - size /\ \A i \in g .. g + size - 1 : i \in g .. g + size
      BY <1>5, <2>3
    <3>2. QED BY <1>7, <1>8, <3>1
  <2>4. QED BY <2>2, <2>3
<1>11. ASSUME NEW g \in 1 .. Len(dir') - size + 1 PROVE \E i \in g .. g + size - 1 : ~IsFree(i)'
  <2>1. CASE g + size <= e
    <3>1. g \in 1 .. e - size
      BY <1>5, <2>1
    <3>2. QED BY <1>7, <1>8, <3>1
  <2>2. CASE ~(g + size <= e)
    <3>1. g + size - 1 \in e .. Len(dir') /\ g + size - 1 \in g .. g + size - 1
      BY <1>3, <1>5, <2>2
    <3>2. QED BY <1>9, <3>1
  <2>3. QED BY <2>1, <2>2
<1>12. QED BY <1>10, <1>11

(* What a failing addEntry leaves *)
LEMMA RefusalKeeps ==
    ASSUME DirectoryInv, NEW CONSTANT n \in Names, AddEntryFails(Stripped(n)),
           call'.name = n
    PROVE  /\ DirectoryInv' /\ RefusedOnlyWithoutRoom' /\ Entries' = Entries
           /\ Len(dir) <= Len(dir') /\ AliasSlots(dir') = AliasSlots(dir)
           /\ \A q \in AliasSlots(dir) : dir'[q] = dir[q]
<1> DEFINE m == Stripped(n)
<1>1. m \in Aliases \cup LongNames /\ Len(dir) \in Nat
  BY StrippedName, SlotTypes DEF DirectoryInv
<1> HIDE DEF m
<1>2. Stripped(call'.name) = m
  BY DEF m
<1>3. CASE (EntryExists(m) \/ AliasFor(m) = {}) /\ UNCHANGED <<dir, spare>>
  <2>1. Entries' = Entries
    BY <1>3, SameSlots
  <2>2. (EntryExists(m) \/ AliasFor(m) = {})'
    BY <1>3, <2>1, SameEntries
  <2>3. RefusedOnlyWithoutRoom'
    BY <1>2, <2>2 DEF RefusedOnlyWithoutRoom, Stripped
  <2>4. NamesAreUnambiguous'
    BY <2>1 DEF NamesAreUnambiguous, Matches, DirectoryInv
  <2>5. DirectoryInv'
    BY <1>3, <2>4 DEF DirectoryInv, DirInv
  <2>6. QED BY <1>1, <1>3, <2>1, <2>3, <2>5
<1>4. CASE ClustersFor(EntrySize(m)) > spare /\ dir' = Extended(spare) /\ spare' = 0
  <2>1. EntrySize(m) \in Nat /\ EntrySize(m) >= 1
    BY <1>1, SizeOfEntry
  <2>2. PICK size \in Nat : size = EntrySize(m) /\ size >= 1
    BY <2>1
  <2>3. /\ \A g \in 1 .. Len(dir') - size : \E i \in g .. g + size : ~Unused(i)'
        /\ \A g \in 1 .. Len(dir') - size + 1 : \E i \in g .. g + size - 1 : ~IsFree(i)'
    BY <1>4, <2>2, NoRoom
  <2>4. RefusedOnlyWithoutRoom'
    BY <1>2, <1>4, <2>2, <2>3 DEF RefusedOnlyWithoutRoom, Stripped, EntrySize
  <2>5. QED BY <1>1, <1>4, <2>4, ExtendKeeps DEF Longer
<1>5. QED BY <1>3, <1>4 DEF AddEntryFails, m

-----------------------------------------------------------------------------
(* Listing *)

(* The state of a listing *)
Iter(u, v, f, e, g) == [inUse |-> u, validEntry |-> v, file |-> f, dataEnd |-> e, given |-> g]

Yes == TRUE
No  == FALSE

(* The history of a listing without file f, and with file f given *)
Without(g, f) == [h \in DOMAIN g \ {f} |-> g[h]]

Given(g, f) == [h \in DOMAIN g |-> IF h = f /\ g[h] < 2 THEN g[h] + 1 ELSE g[h]]

(* Fields of a listing *)
LEMMA IterFields ==
    ASSUME NEW u, NEW v, NEW f, NEW e, NEW g
    PROVE  /\ Iter(u, v, f, e, g).inUse = u /\ Iter(u, v, f, e, g).validEntry = v
           /\ Iter(u, v, f, e, g).file = f /\ Iter(u, v, f, e, g).dataEnd = e
           /\ Iter(u, v, f, e, g).given = g
BY DEF Iter

(* The scan from p stops at the next file *)
LEMMA NextFound ==
    ASSUME DirectoryInv, NEW p \in 0 .. Len(dir)
    PROVE  \/ NextSlot(p) = {} /\ \A q \in AliasSlots(dir) : q <= p
           \/ \E n \in AliasSlots(dir) :
                 NextSlot(p) = {n} /\ n > p /\ \A q \in AliasSlots(dir) : q > p => q >= n
<1>1. PICK e : EndsAt(dir, e)
  BY DEF DirectoryInv, DirInv
<1>2. /\ dir \in Seq(Slot) /\ Len(dir) \in Nat /\ DOMAIN dir = 1 .. Len(dir)
      /\ \A q \in AliasSlots(dir) : q \in 1 .. Len(dir) /\ dir[q].kind = "alias"
      /\ \A i \in 1 .. Len(dir) : dir[i] \in Slot
  BY SlotTypes DEF DirectoryInv
<1>3. e \in 1 .. Len(dir) /\ \A i \in 1 .. Len(dir) : dir[i] = Last <=> i >= e
  BY <1>1, <1>2 DEF EndsAt
<1>4. \A q \in AliasSlots(dir) : dir[q] # Last
  BY <1>2 DEF Last
<1>5. \A q \in AliasSlots(dir) : q < e
  BY <1>2, <1>3, <1>4
<1>6. \A q \in NextSlot(p) : q \in AliasSlots(dir) /\ q > p
  BY <1>2 DEF NextSlot, AliasSlots
<1> DEFINE B == {q \in AliasSlots(dir) : q > p}
<1>7. CASE B = {}
  <2>1. \A q \in AliasSlots(dir) : q <= p
    BY <1>2, <1>7
  <2>2. NextSlot(p) = {}
    BY <1>6, <1>7
  <2>3. QED BY <2>1, <2>2
<1>8. CASE B # {}
  <2>1. \A q \in B : q \in Nat
    BY <1>2
  <2> HIDE DEF B
  <2>2. B \in SUBSET Nat
    BY <2>1
  <2>3. PICK n \in B : \A q \in B : n <= q
    BY <1>8, <2>2, Least
  <2> USE DEF B
  <2>4. n \in AliasSlots(dir) /\ n > p /\ n \in 1 .. Len(dir) /\ n < e /\ \A q \in AliasSlots(dir) : q > p => q >= n
    BY <1>2, <1>5, <2>3
  <2>5. ASSUME NEW r \in p + 1 .. n - 1 PROVE dir[r].kind \notin {"alias", "last"}
    <3>1. r \in 1 .. Len(dir) /\ r > p /\ r < n /\ ~(r >= e)
      BY <1>2, <1>3, <2>4
    <3>2. r \notin AliasSlots(dir)
      BY <1>2, <2>4, <3>1
    <3>3. dir[r].kind # "alias"
      BY <1>2, <3>1, <3>2 DEF AliasSlots
    <3>4. dir[r] # Last /\ dir[r] \in Slot
      BY <1>2, <1>3, <3>1
    <3>5. QED BY <3>3, <3>4, SlotKinds
  <2>6. n \in NextSlot(p)
    BY <1>2, <2>4, <2>5 DEF NextSlot
  <2>7. ASSUME NEW q \in NextSlot(p) PROVE q = n
    <3>1. q \in AliasSlots(dir) /\ q > p /\ q \in Nat /\ n \in Nat /\ q >= n
      <4>1. q \in AliasSlots(dir) /\ q > p
        BY <1>6
      <4>2. QED BY <1>2, <2>4, <4>1
    <3>2. n < q => dir[n].kind \notin {"alias", "last"}
      <4>1. n < q => n \in p + 1 .. q - 1
        BY <2>4, <3>1
      <4>2. QED BY <4>1 DEF NextSlot
    <3>3. QED BY <1>2, <2>4, <3>1, <3>2
  <2>8. NextSlot(p) = {n}
    BY <2>6, <2>7
  <2>9. QED BY <2>4, <2>8
<1>9. QED BY <1>7, <1>8

(* Where the listing points to after a scan from p *)
LEMMA PointedFound ==
    ASSUME DirectoryInv, NEW p \in 0 .. Len(dir), NEW u, NEW v, NEW f, NEW e, NEW g,
           NEW it, it = PointedAt(Iter(u, v, f, e, g), p)
    PROVE  \/ it = Iter(u, No, NoFile, 0, g) /\ \A q \in AliasSlots(dir) : q <= p
           \/ \E n \in AliasSlots(dir) :
                 /\ it = Iter(u, Yes, dir[n].file, n, g)
                 /\ n > p /\ \A q \in AliasSlots(dir) : q > p => q >= n
<1>1. CASE NextSlot(p) = {} /\ \A q \in AliasSlots(dir) : q <= p
  <2>1. NextEntry(p) = {}
    BY <1>1 DEF NextEntry
  <2>2. it = [Iter(u, v, f, e, g) EXCEPT !.validEntry = FALSE, !.file = NoFile, !.dataEnd = 0]
    BY <2>1 DEF PointedAt
  <2>3. it = Iter(u, No, NoFile, 0, g)
    BY <2>2 DEF Iter, No
  <2>4. QED BY <1>1, <2>3
<1>2. ASSUME NEW n \in AliasSlots(dir), NextSlot(p) = {n}
      PROVE  it = Iter(u, Yes, dir[n].file, n, g)
  <2>1. NextEntry(p) = {EntryIn(p, n)}
    BY <1>2 DEF NextEntry
  <2>2. PICK r : r = EntryIn(p, n) /\ r.file = dir[n].file /\ r.dataEnd = n
    <3>1. EntryIn(p, n).file = dir[n].file /\ EntryIn(p, n).dataEnd = n
      BY DEF EntryIn
    <3>2. QED BY <3>1
  <2>3. NextEntry(p) # {} /\ (CHOOSE x \in NextEntry(p) : TRUE) = r
    BY <2>1, <2>2
  <2>4. it = [Iter(u, v, f, e, g) EXCEPT !.validEntry = TRUE, !.file = r.file, !.dataEnd = r.dataEnd]
    BY <2>3 DEF PointedAt
  <2>5. QED BY <2>2, <2>4 DEF Iter, Yes
<1>3. QED BY <1>1, <1>2, NextFound

(* The slot in which the listing met the file f is before its position if  *)
(* f has been given, and f is the file at its position if that is the slot *)
Lists(d, u, v, h, e, g) ==
    /\ u \in BOOLEAN /\ v \in BOOLEAN /\ h \in Files \cup {NoFile} /\ e \in 0 .. Len(d)
    /\ DOMAIN g \subseteq Files /\ g \in [DOMAIN g -> 0 .. 2]
    /\ ~u => ~v /\ DOMAIN g = {}
    /\ \A f \in DOMAIN g : \E q \in AliasSlots(d) :
         /\ d[q].file = f
         /\ g[f] = IF v /\ q >= e THEN 0 ELSE 1
         /\ v => (q = e <=> f = h)

ListInv ==
    /\ iter = Iter(iter.inUse, iter.validEntry, iter.file, iter.dataEnd, iter.given)
    /\ Lists(dir, iter.inUse, iter.validEntry, iter.file, iter.dataEnd, iter.given)

(* A listing stays right while the entries it has met stay *)
LEMMA ListsKept ==
    ASSUME NEW d, NEW d2, Len(d) \in Nat, Len(d2) \in Nat, Len(d) <= Len(d2),
           NEW u, NEW v, NEW h, NEW e, NEW g, Lists(d, u, v, h, e, g),
           \A q \in AliasSlots(d) : q \in AliasSlots(d2) /\ d2[q] = d[q]
    PROVE  Lists(d2, u, v, h, e, g)
<1>1. e \in 0 .. Len(d2)
  BY DEF Lists
<1>2. ASSUME NEW f \in DOMAIN g
      PROVE  \E q \in AliasSlots(d2) : /\ d2[q].file = f
                                       /\ g[f] = IF v /\ q >= e THEN 0 ELSE 1
                                       /\ v => (q = e <=> f = h)
  BY Zenon DEF Lists
<1>3. QED BY <1>1, <1>2, Zenon DEF Lists

(* and when one goes that it is not to meet any more *)
LEMMA ListsWithout ==
    ASSUME NEW d, NEW d2, Len(d) \in Nat, Len(d2) \in Nat, Len(d) <= Len(d2),
           NEW u, NEW v, NEW h, NEW e, NEW g, Lists(d, u, v, h, e, g), NEW p \in AliasSlots(d),
           \A q \in AliasSlots(d) \ {p} : q \in AliasSlots(d2) /\ d2[q] = d[q]
    PROVE  Lists(d2, u, v, h, e, Without(g, d[p].file))
<1> DEFINE k == Without(g, d[p].file)
<1>1. e \in 0 .. Len(d2)
  BY DEF Lists
<1>2. /\ DOMAIN k = DOMAIN g \ {d[p].file} /\ k \in [DOMAIN k -> 0 .. 2]
      /\ \A f \in DOMAIN k : k[f] = g[f]
  BY DEF Without, Lists
<1> HIDE DEF k
<1>3. ASSUME NEW f \in DOMAIN k
      PROVE  \E q \in AliasSlots(d2) : /\ d2[q].file = f
                                       /\ k[f] = IF v /\ q >= e THEN 0 ELSE 1
                                       /\ v => (q = e <=> f = h)
  <2>1. f \in DOMAIN g /\ f # d[p].file /\ k[f] = g[f]
    BY <1>2
  <2>2. PICK q \in AliasSlots(d) : /\ d[q].file = f
                                   /\ g[f] = IF v /\ q >= e THEN 0 ELSE 1
                                   /\ v => (q = e <=> f = h)
    BY <2>1, Zenon DEF Lists
  <2>3. q # p
    BY <2>1, <2>2
  <2>4. QED BY <2>1, <2>2, <2>3, Zenon
<1>4. DOMAIN k \subseteq Files /\ (DOMAIN g = {} => DOMAIN k = {})
  BY <1>2 DEF Lists
<1>5. Lists(d2, u, v, h, e, k)
  BY <1>1, <1>2, <1>3, <1>4, Zenon DEF Lists
<1>6. QED BY <1>5 DEF k

(* A listing begins at the first file *)
LEMMA ListsRewound ==
    ASSUME DirectoryInv
    PROVE  \E v, h, e, g : Rewound = Iter(Yes, v, h, e, g) /\ Lists(dir, Yes, v, h, e, g)
<1> DEFINE g == [f \in Used |-> 0]
<1>1. /\ dir \in Seq(Slot) /\ Len(dir) \in Nat /\ FilesDiffer(dir)
      /\ \A q \in AliasSlots(dir) : q \in 1 .. Len(dir) /\ dir[q].file \in Files
  BY SlotTypes DEF DirectoryInv, DirInv
<1>2. \A f \in Used : f \in Files /\ \E q \in AliasSlots(dir) : dir[q].file = f
  <2>1. Entries = {EntryAt(dir, q) : q \in AliasSlots(dir)}
    BY EntriesAre DEF DirectoryInv
  <2>2. QED BY <1>1, <2>1, EntryFields DEF Used
<1>3. Rewound = PointedAt(Iter(Yes, No, NoFile, 0, g), 0)
  <2> HIDE DEF g
  <2>1. PICK m : m = [NoIter EXCEPT !.inUse = TRUE]
    OBVIOUS
  <2>2. PICK r : r = Iter(Yes, No, NoFile, 0, <<>>)
    OBVIOUS
  <2>3. m = r
    <3>1. NoIter = Iter(No, No, NoFile, 0, <<>>)
      BY DEF NoIter, Iter, No
    <3>2. m = [NoIter EXCEPT !.inUse = Yes]
      BY <2>1 DEF Yes
    <3>3. m = [Iter(No, No, NoFile, 0, <<>>) EXCEPT !.inUse = Yes]
      BY <3>1, <3>2, Zenon
    <3>4. QED BY <2>2, <3>3 DEF Iter
  <2>4. [r EXCEPT !.given = g] = Iter(Yes, No, NoFile, 0, g)
    BY <2>2 DEF Iter
  <2>5. [NoIter EXCEPT !.inUse = TRUE, !.given = g] = Iter(Yes, No, NoFile, 0, g)
    BY <2>1, <2>3, <2>4, Zenon
  <2>6. Rewound = PointedAt([NoIter EXCEPT !.inUse = TRUE, !.given = g], 0)
    BY Zenon DEF Rewound, g
  <2>7. QED BY <2>5, <2>6, Zenon
<1>4. DOMAIN g = Used /\ DOMAIN g \subseteq Files /\ g \in [DOMAIN g -> 0 .. 2] /\ \A f \in DOMAIN g : g[f] = 0
  BY <1>2
<1> HIDE DEF g
<1>5. 0 \in 0 .. Len(dir)
  BY <1>1
<1>6. ASSUME \A q \in AliasSlots(dir) : q <= 0
      PROVE  Lists(dir, Yes, No, NoFile, 0, g)
  <2>1. DOMAIN g = {}
    BY <1>1, <1>2, <1>4, <1>6
  <2>2. QED BY <1>4, <1>5, <2>1 DEF Lists, Yes, No
<1>7. ASSUME NEW n \in AliasSlots(dir), \A q \in AliasSlots(dir) : q > 0 => q >= n
      PROVE  Lists(dir, Yes, Yes, dir[n].file, n, g)
  <2>1. n \in 0 .. Len(dir) /\ dir[n].file \in Files
    BY <1>1
  <2>2. ASSUME NEW f \in DOMAIN g
        PROVE  \E q \in AliasSlots(dir) : dir[q].file = f /\ g[f] = 0 /\ q >= n /\ (q = n <=> f = dir[n].file)
    <3>1. PICK q \in AliasSlots(dir) : dir[q].file = f
      BY <1>2, <1>4
    <3>2. q >= n
      BY <1>1, <1>7
    <3>3. q = n <=> f = dir[n].file
      BY <1>1, <3>1 DEF FilesDiffer
    <3>4. QED BY <1>4, <3>1, <3>2, <3>3
  <2>3. QED BY <1>4, <2>1, <2>2 DEF Lists, Yes
<1>8. \/ Rewound = Iter(Yes, No, NoFile, 0, g) /\ \A q \in AliasSlots(dir) : q <= 0
      \/ \E n \in AliasSlots(dir) :
            /\ Rewound = Iter(Yes, Yes, dir[n].file, n, g)
            /\ n > 0 /\ \A q \in AliasSlots(dir) : q > 0 => q >= n
  BY <1>3, <1>5, PointedFound
<1>9. QED BY <1>6, <1>7, <1>8

(* and goes on with the next one *)
LEMMA ListsNext ==
    ASSUME DirectoryInv, NEW u, NEW v, NEW h, NEW e, NEW g, Lists(dir, u, v, h, e, g), u = Yes, v = Yes
    PROVE  \E v2, h2, e2 :
              /\ PointedAt(Iter(u, v, h, e, Given(g, h)), e) = Iter(u, v2, h2, e2, Given(g, h))
              /\ Lists(dir, u, v2, h2, e2, Given(g, h))
<1> DEFINE k == Given(g, h)
<1>1. /\ dir \in Seq(Slot) /\ Len(dir) \in Nat /\ FilesDiffer(dir)
      /\ \A q \in AliasSlots(dir) : q \in 1 .. Len(dir) /\ dir[q].file \in Files
  BY SlotTypes DEF DirectoryInv, DirInv
<1>2. e \in 0 .. Len(dir) /\ DOMAIN g \subseteq Files /\ u \in BOOLEAN
  BY DEF Lists
<1>3. DOMAIN k = DOMAIN g /\ \A f \in DOMAIN g : k[f] = IF f = h /\ g[f] < 2 THEN g[f] + 1 ELSE g[f]
  BY DEF Given
<1>4. k = [f \in DOMAIN k |-> k[f]]
  BY DEF Given
<1>5. ASSUME NEW f \in DOMAIN g
      PROVE  \E q \in AliasSlots(dir) : dir[q].file = f /\ k[f] = IF q > e THEN 0 ELSE 1
  <2> HIDE DEF k
  <2>1. PICK q \in AliasSlots(dir) : dir[q].file = f /\ g[f] = (IF q >= e THEN 0 ELSE 1) /\ (q = e <=> f = h)
    BY DEF Lists, Yes
  <2>2. q \in Nat /\ e \in Nat
    BY <1>1, <1>2
  <2>3. CASE q = e
    <3>1. g[f] = 0 /\ f = h
      BY <2>1, <2>2, <2>3
    <3>2. k[f] = 1
      BY <1>3, <3>1
    <3>3. QED BY <2>1, <2>2, <2>3, <3>2
  <2>4. CASE q # e
    <3>1. k[f] = g[f]
      BY <1>3, <2>1, <2>4
    <3>2. QED BY <2>1, <2>2, <2>4, <3>1
  <2>5. QED BY <2>3, <2>4
<1> HIDE DEF k
<1>6. k \in [DOMAIN k -> 0 .. 2]
  <2>1. \A f \in DOMAIN k : k[f] \in 0 .. 2
    BY <1>3, <1>5
  <2>2. QED BY <1>4, <2>1
<1>7. ASSUME \A q \in AliasSlots(dir) : q <= e
      PROVE  Lists(dir, u, No, NoFile, 0, k)
  <2>1. \A f \in DOMAIN k : \E q \in AliasSlots(dir) : dir[q].file = f /\ k[f] = 1
    BY <1>1, <1>2, <1>3, <1>5, <1>7
  <2>2. 0 \in 0 .. Len(dir)
    BY <1>1
  <2>3. QED BY <1>2, <1>3, <1>6, <2>1, <2>2 DEF Lists, No, Yes
<1>8. ASSUME NEW n \in AliasSlots(dir), n > e, \A q \in AliasSlots(dir) : q > e => q >= n
      PROVE  Lists(dir, u, Yes, dir[n].file, n, k)
  <2>1. n \in 0 .. Len(dir) /\ dir[n].file \in Files
    BY <1>1
  <2>2. ASSUME NEW f \in DOMAIN k
        PROVE  \E q \in AliasSlots(dir) : dir[q].file = f /\ k[f] = (IF q >= n THEN 0 ELSE 1) /\ (q = n <=> f = dir[n].file)
    <3>1. PICK q \in AliasSlots(dir) : dir[q].file = f /\ k[f] = IF q > e THEN 0 ELSE 1
      BY <1>3, <1>5
    <3>2. q > e <=> q >= n
      BY <1>1, <1>2, <1>8
    <3>3. q = n <=> f = dir[n].file
      BY <1>1, <3>1 DEF FilesDiffer
    <3>4. QED BY <3>1, <3>2, <3>3
  <2>3. QED BY <1>2, <1>3, <1>6, <2>1, <2>2 DEF Lists, Yes
<1>9. \/ /\ PointedAt(Iter(u, v, h, e, k), e) = Iter(u, No, NoFile, 0, k)
         /\ \A q \in AliasSlots(dir) : q <= e
      \/ \E n \in AliasSlots(dir) :
            /\ PointedAt(Iter(u, v, h, e, k), e) = Iter(u, Yes, dir[n].file, n, k)
            /\ n > e /\ \A q \in AliasSlots(dir) : q > e => q >= n
  BY <1>2, PointedFound
<1>10. \E v2, h2, e2 : /\ PointedAt(Iter(u, v, h, e, k), e) = Iter(u, v2, h2, e2, k)
                       /\ Lists(dir, u, v2, h2, e2, k)
  BY <1>7, <1>8, <1>9
<1>11. QED BY <1>10, Zenon DEF k

-----------------------------------------------------------------------------
(* The inductive invariant *)

Inv == DirectoryInv /\ CallTypes /\ ListInv /\ RefusedOnlyWithoutRoom /\ RemovalsSucceed

(* The directory of a new volume is right *)
LEMMA InitInv ==
    Init => Inv
<1> SUFFICES ASSUME Init PROVE Inv
  OBVIOUS
<1>1. PICK S \in Nat : S = SlotsPerCluster /\ S >= 2
  BY DirectoryAssumption
<1>2. PICK e \in {1, 2} : /\ dir = [i \in 1 .. S |-> dir[i]]
                          /\ \A i \in 1 .. S : dir[i] = IF i < e THEN Volume ELSE Last
  <2>1. CASE dir = Cleared
    BY <1>1, <2>1 DEF Cleared
  <2>2. CASE dir = [Cleared EXCEPT ![1] = Volume]
    BY <1>1, <2>2 DEF Cleared
  <2>3. QED BY <2>1, <2>2 DEF Init
<1>3. Volume.kind = "volume" /\ Last.kind = "last" /\ Volume # Last /\ Volume \in Slot /\ Last \in Slot
  BY SlotsMade DEF Volume, Last
<1>4. dir \in Seq(Slot) /\ Len(dir) = S /\ DOMAIN dir = 1 .. S
  <2>1. dir \in [1 .. S -> Slot]
    BY <1>2, <1>3
  <2>2. QED BY <1>1, <2>1
<1>5. AliasSlots(dir) = {} /\ \A i \in DOMAIN dir : dir[i].kind # "lfn"
  BY <1>2, <1>3, <1>4 DEF AliasSlots
<1>6. EndsAt(dir, e)
  BY <1>1, <1>2, <1>3, <1>4 DEF EndsAt
<1>7. DirInv
  BY <1>5, <1>6 DEF DirInv, Whole, FilesDiffer, EndsAt
<1>8. Entries = {}
  BY <1>4, <1>5, <1>7, EntriesAre
<1>9. DirectoryInv
  <2>1. Len(dir) % SlotsPerCluster = 0
    <3>1. 0 % SlotsPerCluster = 0 /\ 0 + 1 * SlotsPerCluster = S
      BY <1>1
    <3>2. (0 + 1 * SlotsPerCluster) % SlotsPerCluster = 0
      BY <3>1, StillClusters
    <3>3. QED BY <1>4, <3>1, <3>2
  <2>2. spare \in 0 .. MaxSpare
    BY DEF Init
  <2>3. NamesAreUnambiguous
    BY <1>8 DEF NamesAreUnambiguous
  <2>4. QED BY <1>4, <1>7, <2>1, <2>2, <2>3 DEF DirectoryInv
<1>10. CallTypes /\ RefusedOnlyWithoutRoom /\ RemovalsSucceed
  BY DEF Init, CallTypes, RefusedOnlyWithoutRoom, RemovalsSucceed
<1>11. ListInv
  <2>1. iter = Iter(No, No, NoFile, 0, <<>>)
    BY DEF Init, NoIter, Iter, No
  <2>2. DOMAIN <<>> = {} /\ <<>> \in [DOMAIN <<>> -> 0 .. 2]
    OBVIOUS
  <2>3. 0 \in 0 .. Len(dir)
    BY <1>1, <1>4
  <2>4. Lists(dir, No, No, NoFile, 0, <<>>)
    BY <2>2, <2>3 DEF Lists, No
  <2>5. QED BY <2>1, <2>4, IterFields DEF ListInv
<1>12. QED BY <1>9, <1>10, <1>11 DEF Inv

(* What a call that reports success leaves of the invariant *)
LEMMA Succeeds ==
    ASSUME NEW CONSTANT op, NEW CONSTANT old \in Names \cup {NoName}, NEW CONSTANT n \in Names \cup {NoName},
           Result(op, old, n, "none")
    PROVE  CallTypes' /\ RefusedOnlyWithoutRoom' /\ RemovalsSucceed'
<1>1. call'.name = n /\ call'.old = old /\ call'.errno = "none"
  BY DEF Result
<1>2. QED BY <1>1 DEF CallTypes, RefusedOnlyWithoutRoom, RemovalsSucceed

(* and one that is refused *)
LEMMA Refused ==
    ASSUME NEW CONSTANT op, NEW CONSTANT old \in Names \cup {NoName}, NEW CONSTANT n \in Names,
           Result(op, old, n, "ENOSPC")
    PROVE  CallTypes' /\ RemovalsSucceed' /\ call'.name = n
<1>1. call'.name = n /\ call'.old = old /\ call'.errno = "ENOSPC"
  BY DEF Result
<1>2. QED BY <1>1 DEF CallTypes, RemovalsSucceed

(* A listing that no call has touched *)
LEMMA ListUntouched ==
    ASSUME DirectoryInv, DirectoryInv', ListInv, UNCHANGED iter, Len(dir) <= Len(dir'),
           \A q \in AliasSlots(dir) : q \in AliasSlots(dir') /\ dir'[q] = dir[q]
    PROVE  ListInv'
<1>1. Len(dir) \in Nat /\ Len(dir') \in Nat
  BY DEF DirectoryInv
<1>2. Lists(dir', iter.inUse, iter.validEntry, iter.file, iter.dataEnd, iter.given)
  BY <1>1, ListsKept DEF ListInv
<1>3. QED BY <1>2 DEF ListInv

(* A listing that a call has moved one file of *)
LEMMA ListMoved ==
    ASSUME DirectoryInv, DirectoryInv', ListInv, NEW p \in AliasSlots(dir), iter' = Moved(dir[p].file),
           Len(dir) <= Len(dir'),
           \A q \in AliasSlots(dir) \ {p} : q \in AliasSlots(dir') /\ dir'[q] = dir[q]
    PROVE  ListInv'
<1>1. Len(dir) \in Nat /\ Len(dir') \in Nat
  BY DEF DirectoryInv
<1>2. PICK u, v, h, e, g : /\ iter = Iter(u, v, h, e, g) /\ g = iter.given
                           /\ Lists(dir, u, v, h, e, g)
  BY DEF ListInv
<1>3. PICK k : k = Without(g, dir[p].file)
  OBVIOUS
<1>4. Lists(dir', u, v, h, e, k)
  BY <1>1, <1>2, <1>3, ListsWithout
<1>5. iter' = Iter(u, v, h, e, k)
  <2>1. iter' = [iter EXCEPT !.given = Without(g, dir[p].file)]
    BY <1>2 DEF Moved, Without
  <2>2. iter' = [Iter(u, v, h, e, g) EXCEPT !.given = k]
    BY <1>2, <1>3, <2>1, Zenon
  <2>3. QED BY <2>2 DEF Iter
<1>6. /\ iter'.inUse = u /\ iter'.validEntry = v /\ iter'.file = h /\ iter'.dataEnd = e /\ iter'.given = k
  BY <1>5, IterFields
<1>7. QED BY <1>4, <1>5, <1>6 DEF ListInv

-----------------------------------------------------------------------------
(* The actions *)

(* Calls are made with names *)
LEMMA CallName ==
    ASSUME NEW n \in CallNames
    PROVE  n \in Names /\ Stripped(n) \in Aliases \cup LongNames
BY DirectoryAssumption, StrippedName

(* What stays when a change takes nothing away or one entry *)
LEMMA ChangeLeaves ==
    ASSUME NEW d, NEW d2, NEW out, NEW w, NEW n, NEW a, NEW f, Changes(d, d2, out, w, n, a, f)
    PROVE  /\ Len(d) <= Len(d2)
           /\ \A q \in AliasSlots(d) \ out : q \in AliasSlots(d2) /\ d2[q] = d[q]
BY DEF Changes

(* open with O_CREAT *)
LEMMA CreateKeeps ==
    ASSUME Inv, NEW n \in CallNames, Create(n)
    PROVE  Inv'
<1>1. DirectoryInv /\ ListInv /\ n \in Names /\ Stripped(n) \in Aliases \cup LongNames
  BY CallName DEF Inv
<1>2. UNCHANGED iter
  BY DEF Create
<1>3. ASSUME NEW f \in Files \ Used, AddEntry(Stripped(n), f, {}), Result("create", NoName, n, "none")
      PROVE  Inv'
  <2>1. DirectoryInv'
    BY <1>1, <1>3, AddEntryKeeps
  <2>2. PICK w, a : Changes(dir, dir', {}, w, Stripped(n), a, f)
    BY <1>1, <1>3, AddEntryKeeps
  <2>3. Len(dir) <= Len(dir') /\ \A q \in AliasSlots(dir) : q \in AliasSlots(dir') /\ dir'[q] = dir[q]
    BY <2>2, ChangeLeaves
  <2>4. ListInv'
    BY <1>1, <1>2, <2>1, <2>3, ListUntouched
  <2>5. CallTypes' /\ RefusedOnlyWithoutRoom' /\ RemovalsSucceed'
    BY <1>1, <1>3, Succeeds
  <2>6. QED BY <2>1, <2>4, <2>5 DEF Inv
<1>4. ASSUME AddEntryFails(Stripped(n)), Result("create", NoName, n, "ENOSPC")
      PROVE  Inv'
  <2>1. CallTypes' /\ RemovalsSucceed' /\ call'.name = n
    BY <1>1, <1>4, Refused
  <2>2. /\ DirectoryInv' /\ RefusedOnlyWithoutRoom'
        /\ Len(dir) <= Len(dir') /\ \A q \in AliasSlots(dir) : q \in AliasSlots(dir') /\ dir'[q] = dir[q]
    BY <1>1, <1>4, <2>1, RefusalKeeps
  <2>3. ListInv'
    BY <1>1, <1>2, <2>2, ListUntouched
  <2>4. QED BY <2>1, <2>2, <2>3 DEF Inv
<1>5. QED BY <1>3, <1>4 DEF Create

(* unlink *)
LEMMA UnlinkKeeps ==
    ASSUME Inv, NEW n \in CallNames, Unlink(n)
    PROVE  Inv'
<1>1. DirectoryInv /\ ListInv /\ n \in Names /\ dir \in Seq(Slot) /\ DirInv
  BY CallName DEF Inv, DirectoryInv
<1>2. PICK e \in Lookup(n) : /\ dir' = RemoveSlots(dir, SlotsOf(e)) /\ iter' = Moved(e.file)
                             /\ Result("unlink", n, NoName, RemoveResult(dir, e)) /\ UNCHANGED spare
  BY DEF Unlink
<1>3. PICK q \in AliasSlots(dir) : e.file = dir[q].file /\ SlotsOf(e) = Region(dir, q) /\ e.dataEnd = q /\ q < Len(dir)
  BY <1>1, LookupFound
<1>4. /\ DirectoryInv' /\ Len(dir') = Len(dir) /\ AliasSlots(dir') = AliasSlots(dir) \ {q}
      /\ \A p \in AliasSlots(dir) \ {q} : dir'[p] = dir[p]
  BY <1>1, <1>2, <1>3, RemoveKeeps
<1>5. ListInv'
  <2>1. Len(dir) <= Len(dir')
    BY <1>1, <1>4
  <2>2. QED BY <1>1, <1>2, <1>3, <1>4, <2>1, ListMoved
<1>6. RemoveResult(dir, e) = "none"
  BY <1>3 DEF RemoveResult
<1>7. CallTypes' /\ RefusedOnlyWithoutRoom' /\ RemovalsSucceed'
  BY <1>1, <1>2, <1>6, Succeeds
<1>8. QED BY <1>4, <1>5, <1>7 DEF Inv

(* rename *)
LEMMA RenameKeeps ==
    ASSUME Inv, NEW old \in CallNames, NEW new \in CallNames, Rename(old, new)
    PROVE  Inv'
<1>1. /\ DirectoryInv /\ ListInv /\ old \in Names /\ new \in Names /\ dir \in Seq(Slot) /\ DirInv
      /\ Stripped(new) \in Aliases \cup LongNames
  BY CallName DEF Inv, DirectoryInv
<1>2. PICK e \in Lookup(old) :
         \/ /\ AddEntry(Stripped(new), e.file, SlotsOf(e))
            /\ Result("rename", old, new, RemoveResult(dir', e))
            /\ iter' = Moved(e.file)
         \/ /\ AddEntryFails(Stripped(new))
            /\ Result("rename", old, new, "ENOSPC")
            /\ UNCHANGED iter
  BY DEF Rename
<1>3. PICK q \in AliasSlots(dir) : e.file = dir[q].file /\ SlotsOf(e) = Region(dir, q) /\ e.dataEnd = q /\ q < Len(dir)
  BY <1>1, LookupFound
<1>4. CASE /\ AddEntry(Stripped(new), e.file, SlotsOf(e))
           /\ Result("rename", old, new, RemoveResult(dir', e))
           /\ iter' = Moved(e.file)
  <2>1. AddEntry(Stripped(new), dir[q].file, Region(dir, q))
    BY <1>3, <1>4
  <2>2. DirectoryInv'
    BY <1>1, <2>1, ReplaceKeeps
  <2>3. PICK w, a : Changes(dir, dir', {q}, w, Stripped(new), a, dir[q].file)
    BY <1>1, <2>1, ReplaceKeeps
  <2>4. Len(dir) <= Len(dir') /\ \A p \in AliasSlots(dir) \ {q} : p \in AliasSlots(dir') /\ dir'[p] = dir[p]
    BY <2>3, ChangeLeaves
  <2>5. ListInv'
    BY <1>1, <1>3, <1>4, <2>2, <2>4, ListMoved
  <2>6. RemoveResult(dir', e) = "none"
    <3>1. Len(dir) \in Nat /\ Len(dir') \in Nat /\ q \in Nat
      BY <1>1, <2>2, SlotTypes DEF DirectoryInv
    <3>2. q < Len(dir')
      BY <1>3, <2>4, <3>1
    <3>3. QED BY <1>3, <3>2 DEF RemoveResult
  <2>7. CallTypes' /\ RefusedOnlyWithoutRoom' /\ RemovalsSucceed'
    BY <1>1, <1>4, <2>6, Succeeds
  <2>8. QED BY <2>2, <2>5, <2>7 DEF Inv
<1>5. CASE /\ AddEntryFails(Stripped(new))
           /\ Result("rename", old, new, "ENOSPC")
           /\ UNCHANGED iter
  <2>1. CallTypes' /\ RemovalsSucceed' /\ call'.name = new
    BY <1>1, <1>5, Refused
  <2>2. /\ DirectoryInv' /\ RefusedOnlyWithoutRoom'
        /\ Len(dir) <= Len(dir') /\ \A p \in AliasSlots(dir) : p \in AliasSlots(dir') /\ dir'[p] = dir[p]
    BY <1>1, <1>5, <2>1, RefusalKeeps
  <2>3. ListInv'
    BY <1>1, <1>5, <2>2, ListUntouched
  <2>4. QED BY <2>1, <2>2, <2>3 DEF Inv
<1>6. QED BY <1>2, <1>4, <1>5

(* A step that leaves the directory and the last call alone *)
LEMMA OnlyLists ==
    ASSUME Inv, UNCHANGED <<dir, spare, call>>
    PROVE  DirectoryInv' /\ CallTypes' /\ RefusedOnlyWithoutRoom' /\ RemovalsSucceed'
<1>1. Entries' = Entries /\ \A i : (IsFree(i)' <=> IsFree(i)) /\ (Unused(i)' <=> Unused(i))
  BY SameSlots
<1>2. NamesAreUnambiguous'
  BY <1>1 DEF NamesAreUnambiguous, Matches, Inv, DirectoryInv
<1>3. DirectoryInv'
  BY <1>2 DEF Inv, DirectoryInv, DirInv
<1>4. CallTypes' /\ RemovalsSucceed'
  BY DEF Inv, CallTypes, RemovalsSucceed
<1>5. RefusedOnlyWithoutRoom'
  <2>1. SUFFICES ASSUME call.errno = "ENOSPC" PROVE RefusedOnlyWithoutRoom'
    BY DEF RefusedOnlyWithoutRoom
  <2>2. PICK m : m = Stripped(call.name)
    OBVIOUS
  <2>3. (EntryExists(m)' <=> EntryExists(m)) /\ AliasFor(m)' = AliasFor(m)
    BY <1>1, SameEntries
  <2>4. \/ EntryExists(m)
        \/ AliasFor(m) = {}
        \/ /\ spare = 0
           /\ \A g \in 1 .. Len(dir) - EntrySize(m) : \E i \in g .. g + EntrySize(m) : ~Unused(i)
           /\ \A g \in 1 .. Len(dir) - EntrySize(m) + 1 : \E i \in g .. g + EntrySize(m) - 1 : ~IsFree(i)
    BY <2>1, <2>2 DEF Inv, RefusedOnlyWithoutRoom
  <2>5. Stripped(call.name)' = m /\ EntrySize(m)' = EntrySize(m)
    BY <2>2 DEF Stripped, EntrySize
  <2>6. CASE EntryExists(m) \/ AliasFor(m) = {}
    <3>1. EntryExists(m)' \/ AliasFor(m)' = {}
      BY <2>3, <2>6
    <3>2. QED BY <2>5, <3>1 DEF RefusedOnlyWithoutRoom
  <2>7. CASE /\ spare = 0
             /\ \A g \in 1 .. Len(dir) - EntrySize(m) : \E i \in g .. g + EntrySize(m) : ~Unused(i)
             /\ \A g \in 1 .. Len(dir) - EntrySize(m) + 1 : \E i \in g .. g + EntrySize(m) - 1 : ~IsFree(i)
    BY <1>1, <2>5, <2>7 DEF RefusedOnlyWithoutRoom
  <2>8. QED BY <2>4, <2>6, <2>7
<1>6. QED BY <1>3, <1>4, <1>5

(* The listing after a step *)
LEMMA ListStep ==
    ASSUME UNCHANGED dir, NEW u, NEW v, NEW h, NEW e, NEW g,
           iter' = Iter(u, v, h, e, g), Lists(dir, u, v, h, e, g)
    PROVE  ListInv'
<1>1. iter'.inUse = u /\ iter'.validEntry = v /\ iter'.file = h /\ iter'.dataEnd = e /\ iter'.given = g
  BY IterFields
<1>2. QED BY <1>1 DEF ListInv

(* diropen and dirreset *)
LEMMA RewindKeeps ==
    ASSUME Inv, iter' = Rewound, UNCHANGED <<dir, spare, call>>
    PROVE  Inv'
<1>1. DirectoryInv
  BY DEF Inv
<1>2. PICK v, h, e, g : Rewound = Iter(Yes, v, h, e, g) /\ Lists(dir, Yes, v, h, e, g)
  BY <1>1, ListsRewound
<1>3. ListInv'
  BY <1>2, ListStep
<1>4. QED BY <1>3, OnlyLists DEF Inv

(* dirnext *)
LEMMA DirNextKeeps ==
    ASSUME Inv, DirNext
    PROVE  Inv'
<1>1. DirectoryInv /\ UNCHANGED <<dir, spare, call>>
  BY DEF Inv, DirNext
<1>2. PICK u, v, h, e, g : /\ iter = Iter(u, v, h, e, g) /\ Lists(dir, u, v, h, e, g)
                           /\ u = iter.inUse /\ v = iter.validEntry /\ h = iter.file /\ e = iter.dataEnd /\ g = iter.given
  BY DEF Inv, ListInv
<1>3. u = Yes /\ v = Yes
  <2>1. iter.inUse /\ iter.validEntry
    BY DEF DirNext
  <2>2. u \in BOOLEAN /\ v \in BOOLEAN
    BY <1>2 DEF Lists
  <2>3. QED BY <1>2, <2>1, <2>2 DEF Yes
<1>4. iter' = PointedAt(Iter(u, v, h, e, Given(g, h)), e)
  <2>1. iter' = PointedAt([iter EXCEPT !.given = Given(g, h)], e)
    <3>1. iter' = PointedAt([iter EXCEPT !.given = Given(iter.given, iter.file)], iter.dataEnd)
      BY Zenon DEF DirNext, Given
    <3>2. QED BY <1>2, <3>1, Zenon
  <2>2. PICK r : r = iter
    OBVIOUS
  <2>3. [r EXCEPT !.given = Given(g, h)] = Iter(u, v, h, e, Given(g, h))
    BY <1>2, <2>2 DEF Iter
  <2>4. QED BY <2>1, <2>2, <2>3, Zenon
<1>5. PICK v2, h2, e2 : /\ PointedAt(Iter(u, v, h, e, Given(g, h)), e) = Iter(u, v2, h2, e2, Given(g, h))
                        /\ Lists(dir, u, v2, h2, e2, Given(g, h))
  <2>1. Lists(dir, u, v, h, e, g)
    BY <1>2
  <2>2. QED BY <1>1, <1>3, <2>1, ListsNext, Zenon
<1>6. ListInv'
  BY <1>1, <1>4, <1>5, ListStep
<1>7. QED BY <1>1, <1>6, OnlyLists DEF Inv

(* dirclose *)
LEMMA DirCloseKeeps ==
    ASSUME Inv, DirClose
    PROVE  Inv'
<1>1. iter' = Iter(No, No, NoFile, 0, <<>>) /\ UNCHANGED <<dir, spare, call>>
  BY DEF DirClose, NoIter, Iter, No
<1>2. DOMAIN <<>> = {} /\ <<>> \in [DOMAIN <<>> -> 0 .. 2] /\ 0 \in 0 .. Len(dir)
  BY SlotTypes DEF Inv, DirectoryInv
<1>3. Lists(dir, No, No, NoFile, 0, <<>>)
  BY <1>2 DEF Lists, No
<1>4. ListInv'
  BY <1>1, <1>3, ListStep
<1>5. QED BY <1>1, <1>4, OnlyLists DEF Inv

(* Every step keeps the invariant *)
LEMMA NextInv ==
    Inv /\ [Next]_vars => Inv'
<1> SUFFICES ASSUME Inv, [Next]_vars PROVE Inv'
  OBVIOUS
<1>1. CASE UNCHANGED vars
  <2>1. UNCHANGED iter /\ UNCHANGED <<dir, spare, call>>
    BY <1>1 DEF vars
  <2>2. ListInv'
    BY <2>1 DEF Inv, ListInv
  <2>3. QED BY <2>1, <2>2, OnlyLists DEF Inv
<1>2. ASSUME NEW n \in CallNames, Create(n) PROVE Inv'
  BY <1>2, CreateKeeps
<1>3. ASSUME NEW n \in CallNames, Unlink(n) PROVE Inv'
  BY <1>3, UnlinkKeeps
<1>4. ASSUME NEW old \in CallNames, NEW new \in CallNames, Rename(old, new) PROVE Inv'
  BY <1>4, RenameKeeps
<1>5. CASE DirOpen \/ DirReset
  BY <1>5, RewindKeeps DEF DirOpen, DirReset
<1>6. CASE DirNext
  BY <1>6, DirNextKeeps
<1>7. CASE DirClose
  BY <1>7, DirCloseKeeps
<1>8. QED BY <1>1, <1>2, <1>3, <1>4, <1>5, <1>6, <1>7 DEF Next

(* The invariant holds in every state of the directory *)
LEMMA SpecInv ==
    Spec => []Inv
BY InitInv, NextInv, PTL DEF Spec

-----------------------------------------------------------------------------
(* The theorems *)

(* What the invariant says of types and of a listing *)
LEMMA InvTypes ==
    Inv => TypeOK /\ ListedExactlyOnce
<1> SUFFICES ASSUME Inv PROVE TypeOK /\ ListedExactlyOnce
  OBVIOUS
<1>1. TypeOK
  BY DEF Inv, DirectoryInv, CallTypes, ListInv, Lists, TypeOK
<1>2. ASSUME NEW f \in DOMAIN iter.given
      PROVE  iter.given[f] <= 1 /\ (iter.inUse /\ ~iter.validEntry => iter.given[f] = 1)
  <2>1. \E q \in AliasSlots(dir) : iter.given[f] = IF iter.validEntry /\ q >= iter.dataEnd THEN 0 ELSE 1
    BY DEF Inv, ListInv, Lists
  <2>2. QED BY <2>1
<1>3. QED BY <1>1, <1>2 DEF ListedExactlyOnce

(* The slots of a directory are slots, in whole clusters, whatever is      *)
(* created, removed, renamed and listed in it (directory.c, fatdir.c).     *)
THEOREM DirectoryTypes ==
    Spec => []TypeOK
BY SpecInv, InvTypes, PTL

(* No name ever means two files: addEntry and createAlias give no new file *)
(* a name or an alias that one of the directory already answers to         *)
(* (directory.c:902).                                                      *)
THEOREM DirectoryNames ==
    Spec => []NamesAreUnambiguous
<1>1. Inv => NamesAreUnambiguous
  BY DEF Inv, DirectoryInv
<1>2. QED BY <1>1, SpecInv, PTL

(* findEntryGap refuses an entry only when there is no gap for it anywhere *)
(* in the directory, no room behind the last file and no cluster to add    *)
(* (directory.c:682).                                                      *)
THEOREM DirectoryRoom ==
    Spec => []RefusedOnlyWithoutRoom
<1>1. Inv => RefusedOnlyWithoutRoom
  BY DEF Inv
<1>2. QED BY <1>1, SpecInv, PTL

(* removeEntry never reports the removal it has done as failed: there is a *)
(* slot behind every entry (directory.c:655).                              *)
THEOREM DirectoryRemovals ==
    Spec => []RemovalsSucceed
<1>1. Inv => RemovalsSucceed
  BY DEF Inv
<1>2. QED BY <1>1, SpecInv, PTL

(* A file that keeps its entry while a program lists the directory is      *)
(* given exactly once, whatever calls come between (fatdir.c:625).         *)
THEOREM DirectoryListing ==
    Spec => []ListedExactlyOnce
BY SpecInv, InvTypes, PTL

-----------------------------------------------------------------------------
(* The directory is a table of names *)

Row(e) == [filename |-> e.filename, alias |-> e.alias, file |-> e.file]

Rows == {Row(e) : e \in Entries}

(* What a name means in the table *)
LEMMA MeantRows ==
    ASSUME NEW n
    PROVE  Table!Meant(n) = {r \in Rows : Folded(n) = Folded(r.filename) \/ Folded(n) = Folded(r.alias)}
BY DEF Table!Meant, Table!Means, Rows, Row

(* Fields of a row *)
LEMMA RowFields ==
    ASSUME NEW e
    PROVE  Row(e).filename = e.filename /\ Row(e).alias = e.alias /\ Row(e).file = e.file
BY DEF Row

(* What the entries of a right directory are *)
LEMMA EntryFacts ==
    ASSUME DirectoryInv, NEW e \in Entries
    PROVE  /\ e.alias \in Aliases /\ e.file \in Files /\ e.dataEnd \in Nat
           /\ \A d \in Entries : d.file = e.file => d = e
<1>1. dir \in Seq(Slot) /\ FilesDiffer(dir) /\ Entries = {EntryAt(dir, q) : q \in AliasSlots(dir)}
  BY EntriesAre DEF DirectoryInv, DirInv
<1>2. PICK q \in AliasSlots(dir) : e = EntryAt(dir, q)
  BY <1>1
<1>3. e.alias = dir[q].alias /\ e.file = dir[q].file /\ e.dataEnd = q
  BY <1>2, EntryFields
<1>4. dir[q].alias \in Aliases /\ dir[q].file \in Files /\ q \in Nat
  BY <1>1, SlotTypes
<1>5. ASSUME NEW d \in Entries, d.file = e.file PROVE d = e
  <2>1. PICK p \in AliasSlots(dir) : d = EntryAt(dir, p)
    BY <1>1
  <2>2. dir[p].file = dir[q].file
    BY <1>3, <1>5, <2>1, EntryFields
  <2>3. QED BY <1>1, <1>2, <2>1, <2>2 DEF FilesDiffer
<1>6. QED BY <1>3, <1>4, <1>5

(* A name means the rows of the entries that match it *)
LEMMA MeantMatches ==
    ASSUME DirectoryInv, NEW n
    PROVE  /\ \A e \in Entries : Matches(e, n) => Row(e) \in Table!Meant(n)
           /\ \A r \in Table!Meant(n) : \E e \in Entries : r = Row(e) /\ Matches(e, n)
<1>1. ASSUME NEW e \in Entries
      PROVE  Matches(e, n) <=> (Folded(n) = Folded(Row(e).filename) \/ Folded(n) = Folded(Row(e).alias))
  <2>1. Folded(e.alias) = e.alias
    BY EntryFacts, AliasFolded
  <2>2. QED BY <2>1, RowFields DEF Matches
<1>2. \A r \in Rows : \E e \in Entries : r = Row(e)
  BY DEF Rows
<1>3. \A e \in Entries : Row(e) \in Rows
  BY DEF Rows
<1>4. QED BY <1>1, <1>2, <1>3, MeantRows

(* A name that lookup does not find means no file *)
LEMMA NotFound ==
    ASSUME DirectoryInv, NEW n, Lookup(n) = {}
    PROVE  Table!Meant(n) = {}
<1> DEFINE found == {e \in Entries : Matches(e, n)}
           E     == {e.dataEnd : e \in found}
<1>1. SUFFICES ASSUME found # {} PROVE FALSE
  BY MeantMatches
<1>2. \A x \in E : x \in Nat
  BY EntryFacts
<1>3. E # {}
  BY <1>1
<1> HIDE DEF E
<1>4. E \in SUBSET Nat
  BY <1>2
<1>5. PICK x \in E : \A y \in E : x <= y
  BY <1>3, <1>4, Least
<1> USE DEF E
<1>6. PICK e \in found : e.dataEnd = x
  BY <1>5
<1>7. \A d \in found : e.dataEnd <= d.dataEnd
  BY <1>5, <1>6
<1>8. e \in Lookup(n)
  BY <1>6, <1>7 DEF Lookup
<1>9. QED BY <1>8

(* The row that addEntry adds is a new one, and its names mean no other *)
LEMMA NewRowIs ==
    ASSUME DirectoryInv, NEW n \in Names, NEW f, NEW a \in AliasFor(Stripped(n)), ~EntryExists(Stripped(n)),
           NEW r, r = [filename |-> Stripped(n), alias |-> a, file |-> f]
    PROVE  r \notin Rows /\ Table!NewRow(r, n, f)
<1>1. Stripped(n) \in Aliases \cup LongNames
  BY StrippedName
<1>2. a \in Aliases /\ ~EntryExists(a)
  BY <1>1, AliasNotTaken
<1>3. Table!Meant(a) = {} /\ Table!Meant(Stripped(n)) = {}
  BY <1>2, MeantMatches DEF EntryExists
<1>4. r.filename = Stripped(n) /\ r.alias = a /\ r.file = f
  OBVIOUS
<1>5. r \notin Rows
  BY <1>3, <1>4, MeantRows
<1>6. Table!NewRow(r, n, f)
  BY <1>2, <1>3, <1>4 DEF Table!NewRow
<1>7. QED BY <1>5, <1>6

(* The rows after a change *)
LEMMA ChangedRows ==
    ASSUME DirectoryInv, DirectoryInv', NEW out \in SUBSET AliasSlots(dir), NEW w, NEW n, NEW a, NEW f,
           Changes(dir, dir', out, w, n, a, f)
    PROVE  Rows' = (Rows \ {Row(EntryAt(dir, q)) : q \in out}) \cup {[filename |-> n, alias |-> a, file |-> f]}
<1>1. /\ w \notin AliasSlots(dir) /\ AliasSlots(dir') = (AliasSlots(dir) \ out) \cup {w}
      /\ \A q \in AliasSlots(dir) \ out : EntryAt(dir', q) = EntryAt(dir, q)
      /\ EntryAt(dir', w).filename = n /\ EntryAt(dir', w).alias = a /\ EntryAt(dir', w).file = f
  BY DEF Changes
<1>2. Entries = {EntryAt(dir, q) : q \in AliasSlots(dir)} /\ FilesDiffer(dir)
  BY EntriesAre DEF DirectoryInv, DirInv
<1>3. Entries' = {EntryAt(dir', q) : q \in AliasSlots(dir')}
  BY EntriesArePrime DEF DirectoryInv
<1>4. Rows = {Row(EntryAt(dir, q)) : q \in AliasSlots(dir)}
  BY <1>2 DEF Rows
<1>5. Rows' = {Row(EntryAt(dir', q)) : q \in AliasSlots(dir')}
  BY <1>3 DEF Rows, Row
<1>6. Row(EntryAt(dir', w)) = [filename |-> n, alias |-> a, file |-> f]
  BY <1>1 DEF Row
<1>7. \A p \in AliasSlots(dir) \ out, q \in out : Row(EntryAt(dir, p)) # Row(EntryAt(dir, q))
  <2>1. SUFFICES ASSUME NEW p \in AliasSlots(dir) \ out, NEW q \in out, Row(EntryAt(dir, p)) = Row(EntryAt(dir, q)) PROVE FALSE
    OBVIOUS
  <2>2. dir[p].file = dir[q].file
    BY <2>1, RowFields, EntryFields
  <2>3. QED BY <1>2, <2>2 DEF FilesDiffer
<1>8. QED BY <1>1, <1>4, <1>5, <1>6, <1>7

(* create enters a row *)
LEMMA CreateEnters ==
    ASSUME DirectoryInv, DirectoryInv', NEW CONSTANT n \in CallNames, Lookup(n) = {},
           NEW f \in Files \ Used, AddEntry(Stripped(n), f, {}), Result("create", NoName, n, "none")
    PROVE  Table!Enter(n)
<1>1. n \in Names /\ Stripped(n) \in Aliases \cup LongNames /\ ~EntryExists(Stripped(n))
  BY CallName DEF AddEntry
<1>2. PICK w : \E b \in AliasFor(Stripped(n)) : Changes(dir, dir', {}, w, Stripped(n), b, f)
  BY <1>1, AddEntryKeeps
<1>3. PICK a \in AliasFor(Stripped(n)) : Changes(dir, dir', {}, w, Stripped(n), a, f)
  BY <1>2
<1>4. PICK r : r = [filename |-> Stripped(n), alias |-> a, file |-> f]
  OBVIOUS
<1>5. Rows' = Rows \cup {r}
  <2>1. {Row(EntryAt(dir, q)) : q \in {}} = {}
    OBVIOUS
  <2>2. Rows' = (Rows \ {Row(EntryAt(dir, q)) : q \in {}}) \cup {r}
    BY <1>3, <1>4, ChangedRows
  <2>3. QED BY <2>1, <2>2
<1>6. r \notin Rows /\ Table!NewRow(r, n, f) /\ r.file = f
  BY <1>1, <1>4, NewRowIs
<1>7. \A x \in Rows : x.file # f
  BY RowFields DEF Rows, Used
<1>8. Table!Meant(n) = {}
  BY NotFound
<1>9. r \in Rows' \ Rows /\ r.file \in Files \ {x.file : x \in Rows}
  BY <1>5, <1>6, <1>7
<1>10. Table!Asks("create", NoName, n, "none")
  BY DEF Result, Table!Asks
<1>11. QED BY <1>5, <1>6, <1>8, <1>9, <1>10 DEF Table!Enter, Rows, Row

(* unlink deletes the row that the name means *)
LEMMA UnlinkDeletes ==
    ASSUME DirectoryInv, DirectoryInv', NEW CONSTANT n \in CallNames, Unlink(n)
    PROVE  Table!Delete(n)
<1>1. dir \in Seq(Slot) /\ DirInv /\ Len(dir) \in Nat
  BY SlotTypes DEF DirectoryInv
<1>2. PICK e \in Lookup(n) : /\ dir' = RemoveSlots(dir, SlotsOf(e))
                             /\ Result("unlink", n, NoName, RemoveResult(dir, e)) /\ UNCHANGED spare
  BY DEF Unlink
<1>3. PICK q \in AliasSlots(dir) : /\ e = EntryAt(dir, q) /\ e \in Entries /\ Matches(e, n)
                                   /\ SlotsOf(e) = Region(dir, q) /\ e.dataEnd = q /\ q < Len(dir)
  BY <1>1, LookupFound
<1>4. Entries' = Entries \ {e}
  BY <1>2, <1>3, RemoveKeeps
<1>5. Rows' = Rows \ {Row(e)}
  <2>1. \A d \in Entries : Row(d) = Row(e) => d = e
    BY <1>3, EntryFacts, RowFields
  <2>2. Rows' = {Row(d) : d \in Entries'}
    BY DEF Rows, Row
  <2>3. QED BY <1>3, <1>4, <2>1, <2>2 DEF Rows
<1>6. Row(e) \in Table!Meant(n)
  BY <1>3, MeantMatches
<1>7. Table!Asks("unlink", n, NoName, "none")
  <2>1. RemoveResult(dir, e) = "none"
    BY <1>3 DEF RemoveResult
  <2>2. QED BY <1>2, <2>1 DEF Result, Table!Asks
<1>8. QED BY <1>5, <1>6, <1>7 DEF Table!Delete, Rows, Row

(* rename replaces it by a row for the same file *)
LEMMA RenameReplaces ==
    ASSUME DirectoryInv, DirectoryInv', NEW CONSTANT old \in CallNames, NEW CONSTANT new \in CallNames,
           NEW e \in Lookup(old), AddEntry(Stripped(new), e.file, SlotsOf(e)),
           Result("rename", old, new, "none")
    PROVE  Table!Replace(old, new)
<1>1. dir \in Seq(Slot) /\ DirInv /\ new \in Names /\ Stripped(new) \in Aliases \cup LongNames /\ ~EntryExists(Stripped(new))
  BY CallName DEF DirectoryInv, AddEntry
<1>2. PICK q \in AliasSlots(dir) : /\ e = EntryAt(dir, q) /\ e \in Entries /\ Matches(e, old)
                                   /\ e.file = dir[q].file /\ SlotsOf(e) = Region(dir, q)
  BY <1>1, LookupFound
<1>3. AddEntry(Stripped(new), dir[q].file, Region(dir, q))
  BY <1>2
<1>4. PICK f : f = dir[q].file
  OBVIOUS
<1>5. PICK w : \E b \in AliasFor(Stripped(new)) : Changes(dir, dir', {q}, w, Stripped(new), b, f)
  BY <1>1, <1>3, <1>4, ReplaceKeeps
<1>6. PICK a \in AliasFor(Stripped(new)) : Changes(dir, dir', {q}, w, Stripped(new), a, f)
  BY <1>5
<1>7. PICK r : r = [filename |-> Stripped(new), alias |-> a, file |-> f]
  OBVIOUS
<1>8. Rows' = (Rows \ {Row(e)}) \cup {r}
  <2>1. {Row(EntryAt(dir, p)) : p \in {q}} = {Row(e)}
    BY <1>2
  <2>2. Rows' = (Rows \ {Row(EntryAt(dir, p)) : p \in {q}}) \cup {r}
    BY <1>6, <1>7, ChangedRows
  <2>3. QED BY <2>1, <2>2
<1>9. r \notin Rows /\ Table!NewRow(r, new, f)
  BY <1>1, <1>7, NewRowIs
<1>10. Row(e) \in Table!Meant(old) /\ Row(e).file = f
  BY <1>2, <1>4, MeantMatches, RowFields
<1>11. PICK x : x = Row(e)
  OBVIOUS
<1>12. /\ x \in Table!Meant(old) /\ r \in Rows' \ Rows
       /\ Table!NewRow(r, new, x.file) /\ Rows' = (Rows \ {x}) \cup {r}
  BY <1>8, <1>9, <1>10, <1>11
<1>13. Table!Asks("rename", old, new, "none")
  BY DEF Result, Table!Asks
<1>14. QED BY <1>12, <1>13 DEF Table!Replace, Rows, Row

(* A call that fails changes no row *)
LEMMA RefusalRefuses ==
    ASSUME DirectoryInv, NEW CONSTANT op, NEW CONSTANT old \in Names \cup {NoName}, NEW CONSTANT n \in CallNames,
           AddEntryFails(Stripped(n)), Result(op, old, n, "ENOSPC")
    PROVE  Table!Refuse(op, old, n)
<1>1. n \in Names /\ call'.name = n
  BY CallName, Refused
<1>2. Entries' = Entries
  BY <1>1, RefusalKeeps
<1>3. Table!Asks(op, old, n, "ENOSPC")
  BY DEF Result, Table!Asks
<1>4. QED BY <1>2, <1>3 DEF Table!Refuse

(* Each step is one of the table, or changes neither it nor the last call *)
LEMMA NextIsTable ==
    Inv /\ Inv' /\ [Next]_vars => [Table!NTNext]_<<{[filename |-> e.filename, alias |-> e.alias, file |-> e.file] : e \in Entries}, call>>
<1> DEFINE tab == {[filename |-> e.filename, alias |-> e.alias, file |-> e.file] : e \in Entries}
<1> SUFFICES ASSUME Inv, Inv', [Next]_vars PROVE Table!NTNext \/ UNCHANGED <<tab, call>>
  OBVIOUS
<1>1. DirectoryInv /\ DirectoryInv' /\ call'.errno # "EIO"
  BY DEF Inv, RemovalsSucceed
<1>2. ASSUME UNCHANGED dir, UNCHANGED call PROVE UNCHANGED <<tab, call>>
  <2>1. Entries' = Entries
    BY <1>2, SameSlots
  <2>2. QED BY <1>2, <2>1
<1>3. ASSUME NEW CONSTANT n \in CallNames, Create(n) PROVE Table!NTNext
  <2>1. ASSUME NEW f \in Files \ Used, AddEntry(Stripped(n), f, {}), Result("create", NoName, n, "none")
        PROVE  Table!Enter(n)
    BY <1>1, <1>3, <2>1, CreateEnters DEF Create
  <2>2. ASSUME AddEntryFails(Stripped(n)), Result("create", NoName, n, "ENOSPC")
        PROVE  Table!Refuse("create", NoName, n)
    BY <1>1, <2>2, RefusalRefuses
  <2>3. Table!Enter(n) \/ Table!Refuse("create", NoName, n)
    BY <1>3, <2>1, <2>2 DEF Create
  <2>4. QED BY <2>3 DEF Table!NTNext
<1>4. ASSUME NEW CONSTANT n \in CallNames, Unlink(n) PROVE Table!NTNext
  <2>1. Table!Delete(n)
    BY <1>1, <1>4, UnlinkDeletes
  <2>2. QED BY <2>1 DEF Table!NTNext
<1>5. ASSUME NEW CONSTANT old \in CallNames, NEW CONSTANT new \in CallNames, Rename(old, new) PROVE Table!NTNext
  <2>1. PICK e \in Lookup(old) :
         \/ /\ AddEntry(Stripped(new), e.file, SlotsOf(e))
            /\ Result("rename", old, new, RemoveResult(dir', e))
         \/ /\ AddEntryFails(Stripped(new))
            /\ Result("rename", old, new, "ENOSPC")
    BY <1>5 DEF Rename
  <2>2. CASE AddEntry(Stripped(new), e.file, SlotsOf(e)) /\ Result("rename", old, new, RemoveResult(dir', e))
    <3>1. RemoveResult(dir', e) = "none"
      <4>1. call'.errno = RemoveResult(dir', e)
        BY <2>2 DEF Result
      <4>2. QED BY <1>1, <4>1 DEF RemoveResult
    <3>2. Result("rename", old, new, "none")
      BY <2>2, <3>1
    <3>3. Table!Replace(old, new)
      BY <1>1, <2>2, <3>2, RenameReplaces
    <3>4. QED BY <3>3 DEF Table!NTNext
  <2>3. CASE AddEntryFails(Stripped(new)) /\ Result("rename", old, new, "ENOSPC")
    <3>1. old \in Names \cup {NoName}
      BY CallName
    <3>2. Table!Refuse("rename", old, new)
      BY <1>1, <2>3, <3>1, RefusalRefuses
    <3>3. QED BY <3>2 DEF Table!NTNext
  <2>4. QED BY <2>1, <2>2, <2>3
<1>6. (\E n \in CallNames : Create(n) \/ Unlink(n)) \/ (\E old, new \in CallNames : Rename(old, new)) => Table!NTNext
  BY <1>3, <1>4, <1>5
<1>7. DirOpen \/ DirReset \/ DirNext \/ DirClose \/ UNCHANGED vars => UNCHANGED dir /\ UNCHANGED call
  BY DEF DirOpen, DirReset, DirNext, DirClose, vars
<1>8. QED BY <1>2, <1>6, <1>7 DEF Next

(* Whatever gaps the entries of a directory are put into and whatever      *)
(* slots removed ones leave behind, its calls do what those of a table of  *)
(* names do (NameTable): open with O_CREAT, unlink and rename              *)
(* (directory.c:902, 655; fatdir.c).                                       *)
THEOREM DirectoryIsTable ==
    Spec => ImplementsNameTable
<1>1. Init => Table!NTInit
  <2> SUFFICES ASSUME Init PROVE Table!NTInit
    OBVIOUS
  <2>1. DirectoryInv
    BY InitInv DEF Inv
  <2>2. AliasSlots(dir) = {}
    <3>1. Volume.kind = "volume" /\ Last.kind = "last" /\ SlotsPerCluster \in Nat \ {0}
      BY DirectoryAssumption DEF Volume, Last
    <3>2. \A i \in DOMAIN dir : dir[i] \in {Volume, Last}
      BY <3>1 DEF Init, Cleared
    <3>3. QED BY <3>1, <3>2 DEF AliasSlots
  <2>3. Entries = {}
    BY <2>1, <2>2, EntriesAre DEF DirectoryInv
  <2>4. call = [op |-> "none", old |-> NoName, name |-> NoName, errno |-> "none"]
    BY DEF Init
  <2>5. QED BY <2>3, <2>4 DEF Table!NTInit
<1>2. QED BY <1>1, SpecInv, NextIsTable, PTL DEF Spec, ImplementsNameTable, Table!NTSpec
=============================================================================
