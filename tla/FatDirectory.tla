---------------------------- MODULE FatDirectory ----------------------------
(***************************************************************************)
(* One directory of a libfat volume (source/directory.c) under the calls   *)
(* that create, remove, rename and list its files (source/fatfile.c,       *)
(* source/fatdir.c).                                                       *)
(*                                                                         *)
(* A directory is an array of slots.  A file takes one slot for its alias, *)
(* and before it the slots of its long name, if it has one.  Nothing but   *)
(* the order of the slots and a checksum ties the two together, a removed  *)
(* file leaves a gap that files of other sizes are fitted into, and a      *)
(* program that lists the directory holds nothing but a position in it     *)
(* while other calls change it.                                            *)
(*                                                                         *)
(* A position (cluster, sector, offset) is the index of its slot; 0 is the *)
(* offset -1 before the first one.  A call runs under the partition's lock *)
(* and is one step.  Calls that only report (ENOENT, EEXIST, the end of a  *)
(* listing) change nothing and are left out.  The cache does not fail      *)
(* here, and of the free clusters only those that directories take are     *)
(* counted: chains of files are FatTable.                                  *)
(***************************************************************************)
EXTENDS Integers, Sequences, FiniteSets

CONSTANTS
    Bases,            \* the parts of a short name before its numeric tail
    MAX_NUMERIC_TAIL,
    LongNames,        \* names that _FAT_directory_createAlias has to change
    BaseOf,           \* the alias it makes of a long name
    Parts,            \* how many slots a long name takes without the alias
    CaseNames,        \* long names that differ from their alias only in case
    PaddedNames,      \* names with spaces at their end
    Unpadded,         \* the same without them
    CheckSum,         \* the checksum of an alias
    CallNames,        \* bound: the names that the calls are made with
    Files,            \* the files: what an entry says of the file besides its name
    SlotsPerCluster,
    MaxSpare,         \* bound: most clusters the directory can grow by; 0 is also
                      \* the root directory of FAT16
    Garbage           \* a name with a part that no slot has given

(* A short name is its own alias: <<b, 0>> is the name b, <<b, i>> is b~i. *)
Aliases == Bases \X (0 .. MAX_NUMERIC_TAIL)
Names   == Aliases \cup LongNames \cup PaddedNames

ASSUME DirectoryAssumption ==
    /\ MAX_NUMERIC_TAIL \in Nat \ {0}
    /\ BaseOf \in [LongNames -> Bases]
    /\ Parts \in [LongNames -> Nat \ {0}]
    /\ CaseNames \subseteq LongNames
    /\ \A n, m \in CaseNames : BaseOf[n] = BaseOf[m] => n = m
    /\ Unpadded \in [PaddedNames -> Aliases \cup LongNames]
    /\ CallNames \subseteq Names
    /\ CheckSum \in [Aliases -> Nat]
    /\ SlotsPerCluster \in Nat \ {0, 1}   \* a sector of 512 bytes has 16
    /\ MaxSpare \in Nat
    /\ PaddedNames \cap (Aliases \cup LongNames) = {}
    /\ Aliases \cap LongNames = {}
    /\ Garbage \notin Names

(***************************************************************************)
(* The slots.  removeEntry puts DIR_ENTRY_FREE into the first byte: of a   *)
(* slot of a long name that is its ordinal, and the slot still has the     *)
(* attribute of one (Gone).                                                *)
(***************************************************************************)
Last   == [kind |-> "last"]     \* DIR_ENTRY_LAST: zeroes
Free   == [kind |-> "free"]     \* DIR_ENTRY_FREE
Gone   == [kind |-> "gone"]
Volume == [kind |-> "volume"]   \* ATTRIB_VOL

LfnSlot(n, ordinal, end, sum) ==
    [kind |-> "lfn", name |-> n, ordinal |-> ordinal, end |-> end, checkSum |-> sum]

AliasSlot(a, f) == [kind |-> "alias", alias |-> a, file |-> f]

LfnSlots(n) == {LfnSlot(n, k, k = Parts[n], CheckSum[a]) : k \in 1 .. Parts[n], a \in Aliases}

Slot ==
    {Last, Free, Gone, Volume}
    \cup (UNION {LfnSlots(n) : n \in LongNames})
    \cup {AliasSlot(a, f) : a \in Aliases, f \in Files}

VARIABLES
    dir,     \* the slots of the directory's clusters, in order
    spare,   \* how many clusters are free
    iter,    \* the DIR_STATE_STRUCT of a program that lists the directory
    call     \* the last call that changed the directory, and its result

vars == <<dir, spare, iter, call>>

NoFile == Garbage
NoName == Garbage

NoIter == [inUse |-> FALSE, validEntry |-> FALSE, file |-> NoFile, dataEnd |-> 0, given |-> <<>>]

Cleared == [i \in 1 .. SlotsPerCluster |-> Last]

Init ==
    /\ dir \in {Cleared, [Cleared EXCEPT ![1] = Volume]}
    /\ spare \in 0 .. MaxSpare
    /\ iter = NoIter
    /\ call = [op |-> "none", old |-> NoName, name |-> NoName, errno |-> "none"]

-----------------------------------------------------------------------------
(* _FAT_directory_getNextEntry *)

(* Mutant: the scan takes a removed entry for the end *)
NextSlotUpToGap(p) ==
    {q \in p + 1 .. Len(dir) :
        /\ dir[q].kind = "alias"
        /\ \A r \in p + 1 .. q - 1 : dir[r].kind \notin {"alias", "last", "free"}}

(* The slot of the next file behind position p: the scan stops at Last and *)
(* at the end of the last cluster.                                         *)
NextSlot(p) ==
    {q \in p + 1 .. Len(dir) :
        /\ dir[q].kind = "alias"
        /\ \A r \in p + 1 .. q - 1 : dir[r].kind \notin {"alias", "last"}}

(***************************************************************************)
(* Where the long name of the file in slot q begins, when the scan came    *)
(* from p: at the last slot marked LFN_END, if no deleted part and no      *)
(* other checksum follows it and the checksum is that of the alias.  Slots *)
(* of other kinds in between are passed over.                              *)
(***************************************************************************)
LfnStart(p, q) ==
    {s \in p + 1 .. q - 1 :
        /\ dir[s].kind = "lfn" /\ dir[s].end
        /\ dir[s].checkSum = CheckSum[dir[q].alias]
        /\ \A r \in s + 1 .. q - 1 :
             /\ dir[r].kind # "gone"
             /\ dir[r].kind = "lfn" => ~dir[r].end /\ dir[r].checkSum = dir[s].checkSum}

(* The name put together from the parts, by their ordinals; a part that no *)
(* slot has given is what the array lfn happens to hold.                   *)
LongName(s, q) ==
    LET whole == {n \in LongNames :
                    \A k \in 1 .. dir[s].ordinal :
                       \E r \in s .. q - 1 :
                          dir[r].kind = "lfn" /\ dir[r].ordinal = k /\ dir[r].name = n}
    IN  IF whole = {} THEN Garbage ELSE CHOOSE n \in whole : TRUE

EntryIn(p, q) ==
    LET start == LfnStart(p, q)
        s     == CHOOSE x \in start : TRUE
    IN  [filename  |-> IF start = {} THEN dir[q].alias ELSE LongName(s, q),
         alias     |-> dir[q].alias,
         file      |-> dir[q].file,
         dataStart |-> IF start = {} THEN q ELSE s,
         dataEnd   |-> q]

NextEntry(p) == {EntryIn(p, q) : q \in NextSlot(p)}

(* The slot of the end of the directory, which is behind the last cluster  *)
(* when that is full                                                       *)
EndSlot ==
    CHOOSE i \in 1 .. Len(dir) + 1 :
        /\ i <= Len(dir) => dir[i] = Last
        /\ \A j \in 1 .. i - 1 : dir[j] # Last

(* All files that getFirstEntry and getNextEntry give one after the other *)
Entries ==
    LET end         == EndSlot
        slots       == {q \in 1 .. end - 1 : dir[q].kind = "alias"}
        Previous(q) == CHOOSE p \in {0} \cup slots : p < q /\ \A r \in slots : r < q => r <= p
    IN  {EntryIn(Previous(q), q) : q \in slots}

-----------------------------------------------------------------------------
(* Names: _FAT_directory_entryFromPath in the last directory of its path,  *)
(* and _FAT_directory_entryExists                                          *)

(* What the comparisons, which do not tell upper from lower case, see *)
Folded(n) == IF n \in CaseNames THEN <<BaseOf[n], 0>> ELSE n

Matches(e, n) == Folded(e.filename) = Folded(n) \/ e.alias = Folded(n)

(* The first file that has the name *)
Lookup(n) ==
    LET found == {e \in Entries : Matches(e, n)}
    IN  {e \in found : \A d \in found : e.dataEnd <= d.dataEnd}

EntryExists(n) == \E e \in Entries : Matches(e, n)

(* addEntry: "Remove trailing spaces" *)
Stripped(n) == IF n \in PaddedNames THEN Unpadded[n] ELSE n

(* Mutant: aliases are not looked at *)
TailsByFilename(n) ==
    {i \in 1 .. MAX_NUMERIC_TAIL : \A e \in Entries : Folded(e.filename) # <<BaseOf[n], i>>}

(* The numeric tails that are not taken *)
Tails(n) == {i \in 1 .. MAX_NUMERIC_TAIL : ~EntryExists(<<BaseOf[n], i>>)}

(***************************************************************************)
(* The alias that addEntry gives to name n: a short name is its own; one   *)
(* that differs from its alias in case only gets that if it is not taken;  *)
(* any other gets the first numeric tail that is not taken, if any.        *)
(***************************************************************************)
AliasFor(n) ==
    IF n \in Aliases THEN {n}
    ELSE IF n \in CaseNames /\ ~EntryExists(<<BaseOf[n], 0>>) THEN {<<BaseOf[n], 0>>}
    ELSE LET tails == Tails(n)
         IN  {<<BaseOf[n], i>> : i \in {i \in tails : \A j \in tails : i <= j}}

-----------------------------------------------------------------------------
(* _FAT_directory_findEntryGap *)

EntrySize(n) == IF n \in Aliases THEN 1 ELSE Parts[n] + 1

IsFree(i) == dir[i].kind \in {"free", "gone"}

(* Mutant: the slots of a removed long name are not free *)
GapsOfAliases(size) ==
    {g \in 1 .. EndSlot - size : \A i \in g .. g + size - 1 : dir[i] = Free}

(* Where free slots leave a gap for size slots before the end *)
Gaps(size) == {g \in 1 .. EndSlot - size : \A i \in g .. g + size - 1 : IsFree(i)}

(* Where the free slots begin that reach to the end *)
TailStart == CHOOSE g \in 1 .. EndSlot :
                /\ \A i \in g .. EndSlot - 1 : IsFree(i)
                /\ g > 1 => ~IsFree(g - 1)

(* Mutant: the gap begins one slot too early *)
GapStartEarly(size) ==
    IF Gaps(size) = {} THEN (IF TailStart > 1 THEN TailStart - 1 ELSE 1)
                       ELSE CHOOSE g \in Gaps(size) : \A h \in Gaps(size) : g <= h

GapStart(size) ==
    IF Gaps(size) = {} THEN TailStart
                       ELSE CHOOSE g \in Gaps(size) : \A h \in Gaps(size) : g <= h

(* Mutant: no room is made for the end of the directory *)
ClustersForEntry(size) ==
    IF Gaps(size) # {} \/ TailStart + size - 1 <= Len(dir) THEN 0
    ELSE (TailStart + size - 1 - Len(dir) + SlotsPerCluster - 1) \div SlotsPerCluster

(* How many clusters linkFreeClusterCleared has to add, so that an entry   *)
(* at the end has a slot behind it for the new end                         *)
ClustersFor(size) ==
    IF Gaps(size) # {} \/ TailStart + size <= Len(dir) THEN 0
    ELSE (TailStart + size - Len(dir) + SlotsPerCluster - 1) \div SlotsPerCluster

(* Mutant: a new cluster counts as one slot *)
ExtendedBySlots(k) == dir \o [i \in 1 .. k |-> Last]

Extended(k) == dir \o [i \in 1 .. k * SlotsPerCluster |-> Last]

(* The slots after _FAT_directory_addEntry has written name n with alias a *)
Added(n, a, f) ==
    LET size == EntrySize(n)
        g    == GapStart(size)
        d    == Extended(ClustersFor(size))
        gaps == Gaps(size)
    IN  [i \in DOMAIN d |->
           IF i >= g /\ i < g + size - 1
           THEN LfnSlot(n, g + size - 1 - i, i = g, CheckSum[a])
           ELSE IF i = g + size - 1 THEN AliasSlot(a, f)
           ELSE IF i = g + size /\ gaps = {} THEN Last
           ELSE d[i]]

(* _FAT_directory_removeEntry of the entry in the slots gone of d.  Its    *)
(* loop moves on once more behind the last slot of the entry before it     *)
(* looks whether it has finished, and returns what that says.              *)
SlotsOf(e) == e.dataStart .. e.dataEnd

RemoveSlots(d, gone) ==
    [i \in DOMAIN d |->
        IF i \notin gone THEN d[i]
        ELSE IF d[i].kind \in {"lfn", "gone"} THEN Gone ELSE Free]

RemoveResult(d, e) == IF e.dataEnd < Len(d) THEN "none" ELSE "EIO"

(* addEntry adds name n for file f; the entry in the slots gone is removed *)
(* when it has (rename)                                                    *)
AddEntry(n, f, gone) ==
    /\ ~EntryExists(n)
    /\ ClustersFor(EntrySize(n)) <= spare
    /\ \E a \in AliasFor(n) : dir' = RemoveSlots(Added(n, a, f), gone)
    /\ spare' = spare - ClustersFor(EntrySize(n))

(* addEntry returns false: it has changed nothing, or has added the last   *)
(* free clusters in vain.                                                  *)
AddEntryFails(n) ==
    \/ /\ EntryExists(n) \/ AliasFor(n) = {}
       /\ UNCHANGED <<dir, spare>>
    \/ /\ ~EntryExists(n) /\ AliasFor(n) # {}
       /\ ClustersFor(EntrySize(n)) > spare
       /\ dir' = Extended(spare)
       /\ spare' = 0

-----------------------------------------------------------------------------
(* The calls *)

Result(op, old, n, errno) == call' = [op |-> op, old |-> old, name |-> n, errno |-> errno]

Used == {e.file : e \in Entries}

(* _FAT_open_r with O_CREAT of a name that it does not find *)
Create(n) ==
    /\ Lookup(n) = {}
    /\ UNCHANGED iter
    /\ \/ /\ \E f \in Files \ Used : AddEntry(Stripped(n), f, {})
          /\ Result("create", NoName, n, "none")
       \/ /\ AddEntryFails(Stripped(n))
          /\ Result("create", NoName, n, "ENOSPC")

(* The entry of file f is not the one that the listing has met any more. *)
Moved(f) == [iter EXCEPT !.given = [g \in DOMAIN @ \ {f} |-> @[g]]]

(* _FAT_unlink_r *)
Unlink(n) ==
    \E e \in Lookup(n) :
        /\ dir' = RemoveSlots(dir, SlotsOf(e))
        /\ iter' = Moved(e.file)
        /\ Result("unlink", n, NoName, RemoveResult(dir, e))
        /\ UNCHANGED spare

(* _FAT_rename_r inside one directory: the old entry goes when the new one *)
(* is there                                                                *)
Rename(old, new) ==
    \E e \in Lookup(old) :
        /\ Lookup(new) = {}
        /\ \/ /\ AddEntry(Stripped(new), e.file, SlotsOf(e))
              /\ Result("rename", old, new, RemoveResult(dir', e))
              /\ iter' = Moved(e.file)
           \/ /\ AddEntryFails(Stripped(new))
              /\ Result("rename", old, new, "ENOSPC")
              /\ UNCHANGED iter

(***************************************************************************)
(* Listing the directory.  iter.given is history: of the files that were   *)
(* there when the listing began and have kept their entry since, how often *)
(* each was given.                                                         *)
(***************************************************************************)
PointedAt(it, p) ==
    IF NextEntry(p) = {} THEN [it EXCEPT !.validEntry = FALSE, !.file = NoFile, !.dataEnd = 0]
    ELSE LET e == CHOOSE e \in NextEntry(p) : TRUE
         IN  [it EXCEPT !.validEntry = TRUE, !.file = e.file, !.dataEnd = e.dataEnd]

(* _FAT_diropen_r and _FAT_dirreset_r *)
Rewound == PointedAt([NoIter EXCEPT !.inUse = TRUE, !.given = [f \in Used |-> 0]], 0)

DirOpen ==
    /\ ~iter.inUse
    /\ iter' = Rewound
    /\ UNCHANGED <<dir, spare, call>>

DirReset ==
    /\ iter.inUse
    /\ iter' = Rewound
    /\ UNCHANGED <<dir, spare, call>>

(* _FAT_dirnext_r gives the entry found before and looks for the next one. *)
DirNext ==
    /\ iter.inUse /\ iter.validEntry
    /\ iter' = PointedAt([iter EXCEPT !.given = [f \in DOMAIN @ |->
                              IF f = iter.file /\ @[f] < 2 THEN @[f] + 1 ELSE @[f]]],
                         iter.dataEnd)
    /\ UNCHANGED <<dir, spare, call>>

DirClose ==
    /\ iter.inUse
    /\ iter' = NoIter
    /\ UNCHANGED <<dir, spare, call>>

Next ==
    \/ \E n \in CallNames : Create(n) \/ Unlink(n)
    \/ \E old, new \in CallNames : Rename(old, new)
    \/ DirOpen \/ DirReset \/ DirNext \/ DirClose

Spec == Init /\ [][Next]_vars
=============================================================================
