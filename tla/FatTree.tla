------------------------------ MODULE FatTree -------------------------------
(***************************************************************************)
(* The directories of a volume as a tree, under the calls that take a path *)
(* (source/directory.c, source/fatdir.c) and together with the files that  *)
(* are open (source/fatfile.c).                                            *)
(*                                                                         *)
(* Nothing on the disc is a tree: a directory is the chain of clusters its *)
(* entry begins with, its ".." is another entry that has the parent's      *)
(* cluster or 0 for the root, the current directory is a cluster number,   *)
(* and an open file remembers a slot to write its start cluster back to.   *)
(* The clusters of all of them come from one allocation table.             *)
(*                                                                         *)
(* A call runs under the partition's lock and is one step; calls that only *)
(* report leave nothing behind and are left out.  An entry takes one slot  *)
(* here: long names are FatDirectory, the bytes of a file FatFile, the     *)
(* order in which clusters are found FatTable (any free one is taken), the *)
(* cache FatCache.  No sector fails.                                       *)
(***************************************************************************)
EXTENDS Integers, SequencesExt

CONSTANTS
    Names,             \* names of files and directories
    DataClusters,      \* the clusters of the data area but the next
    RootCluster,       \* the first cluster of the root directory on FAT32
    CLUSTER_EOF,
    SlotsPerCluster,   \* also the size of the root directory on FAT16
    Handles,           \* the FILE_STRUCTs
    MaxFileClusters,   \* bound: the clusters a file is given
    CallPaths          \* bound: the paths the calls are made with

CLUSTER_FREE == 0
CLUSTER_ROOT == 0

ASSUME TreeAssumption ==
    /\ SlotsPerCluster \in Nat /\ SlotsPerCluster > 2
    /\ MaxFileClusters \in Nat
    /\ IsFiniteSet(DataClusters)
    /\ RootCluster \notin DataClusters
    /\ {CLUSTER_FREE, CLUSTER_EOF} \cap (DataClusters \cup {RootCluster}) = {}
    /\ CLUSTER_EOF # CLUSTER_FREE
    /\ {".", ".."} \cap Names = {}
    /\ \A p \in CallPaths : p.abs \in BOOLEAN /\ p.parts \in Seq(Names \cup {".", ".."})

VARIABLES
    rootDirCluster,    \* CLUSTER_ROOT on FAT12 and FAT16
    fat,               \* the allocation table
    slots,             \* what is in a cluster, read as entries
    cwdCluster,
    files,             \* the open files
    lost               \* clusters that mkdir allocated and did not use

vars == <<rootDirCluster, fat, slots, cwdCluster, files, lost>>

-----------------------------------------------------------------------------
(* Entries and directories *)

DIR_ENTRY_LAST == [kind |-> "last"]
DIR_ENTRY_FREE == [kind |-> "free"]
Data == [kind |-> "data"]      \* bytes of a file, or of nobody

Entry(n, dir, readOnly, c) ==
    [kind |-> "entry", name |-> n, dir |-> dir, readOnly |-> readOnly, cluster |-> c]

Clusters == DataClusters \cup ({rootDirCluster} \ {CLUSTER_ROOT})   \* _FAT_fat_isValidCluster

Cleared == [i \in 1 .. SlotsPerCluster |-> DIR_ENTRY_LAST]
Unread  == [i \in 1 .. SlotsPerCluster |-> Data]

(* _FAT_fat_clusterToSector: the root's sectors have the number 0 too *)
Place(c) == IF c = CLUSTER_ROOT THEN rootDirCluster ELSE c

Links == Clusters \cup {CLUSTER_FREE, CLUSTER_EOF}

(* What has entries in it: a cluster, or the root directory of FAT16 *)
Areas == Clusters \cup {rootDirCluster}

(* _FAT_fat_nextCluster from c on, n clusters at most *)
ChainFrom[n \in 0 .. Cardinality(Clusters)] ==
    [c \in Links |-> IF n = 0 \/ c \notin Clusters THEN <<>> ELSE <<c>> \o ChainFrom[n - 1][fat[c]]]

(* The clusters of a file or of a directory; the root of FAT16 is one area *)
Chain(c) ==
    IF Place(c) = CLUSTER_ROOT THEN <<CLUSTER_ROOT>> ELSE ChainFrom[Cardinality(Clusters)][Place(c)]

ChainSet(c) == IF c \in Clusters THEN Range(Chain(c)) ELSE {}

LastCluster(c) == Last(Chain(c))

SlotAt(at) == slots[Place(at[1])][at[2]]

(* A DIR_ENTRY: where it is (dataEnd) and what it says *)
Found(at, e) == [at |-> at, name |-> e.name, dir |-> e.dir, readOnly |-> e.readOnly, cluster |-> e.cluster]

RootEntry == Found(<<CLUSTER_ROOT, 1>>, Entry(".", TRUE, FALSE, rootDirCluster))

(* _FAT_directory_getFirstEntry, getNextEntry: the entries of a directory  *)
(* up to its end                                                           *)
Ends(d, k) == slots[d][k] = DIR_ENTRY_LAST

EntriesIn(d) ==
    {Found(<<d, k>>, slots[d][k]) : k \in
        {j \in 1 .. SlotsPerCluster : slots[d][j].kind = "entry" /\ \A i \in 1 .. j : ~Ends(d, i)}}

ListedFrom[n \in 0 .. Cardinality(Clusters)] ==
    [d \in Links |->
        IF n = 0 \/ d \notin Clusters THEN {}
        ELSE EntriesIn(d) \cup
             IF \E k \in 1 .. SlotsPerCluster : Ends(d, k) THEN {} ELSE ListedFrom[n - 1][fat[d]]]

Listed(c) ==
    IF Place(c) = CLUSTER_ROOT THEN EntriesIn(CLUSTER_ROOT) ELSE ListedFrom[Cardinality(Clusters)][Place(c)]

-----------------------------------------------------------------------------
(* _FAT_directory_entryFromPath *)

(* One part of a path.  The root has no dot entries of its own.  A part    *)
(* with a separator behind it does not mean a file.                        *)
LookUp(c, n, dirOnly) ==
    IF c = rootDirCluster /\ n \in {".", ".."} THEN {RootEntry}
    ELSE {e \in Listed(c) : e.name = n /\ (dirOnly => e.dir)}

(* Mutant: the cluster 0 of a ".." that means the root is left as it is *)
StepIntoZero(e) == e.cluster

(* The directory that the walk goes on with *)
StepInto(e) == IF e.cluster = CLUSTER_ROOT THEN rootDirCluster ELSE e.cluster

(* The entry that the first k parts of p mean: {} if there is none *)
EntryFromPath(p, k) ==
    LET dirs[i \in 0 .. k] ==
            IF i = 0 THEN {IF p.abs THEN rootDirCluster ELSE cwdCluster}
            ELSE UNION {{StepInto(e) : e \in LookUp(c, p.parts[i], TRUE)} : c \in dirs[i - 1]}
        AsRoot(e) == IF rootDirCluster # CLUSTER_ROOT /\ e.dir /\ e.cluster = CLUSTER_ROOT THEN RootEntry ELSE e
    IN  IF k = 0 THEN {RootEntry}
        ELSE {AsRoot(e) : e \in UNION {LookUp(c, p.parts[k], k < Len(p.parts)) : c \in dirs[k - 1]}}

Target(p) == EntryFromPath(p, Len(p.parts))

(* The directory that a new entry of this path goes into, and its name *)
ParentCluster(p) ==
    IF ~p.abs /\ Len(p.parts) = 1 THEN {cwdCluster}
    ELSE {e.cluster : e \in {d \in EntryFromPath(p, Len(p.parts) - 1) : d.dir}}

NewName(p) == p.parts[Len(p.parts)]

-----------------------------------------------------------------------------
(* Changes to directories and to the table *)

(* What _FAT_fat_linkFreeCluster may find; none is ENOSPC in every caller *)
FreeClusters == {c \in Clusters : fat[c] = CLUSTER_FREE}

(* _FAT_directory_findEntryGap for one slot: the first that is free or     *)
(* Last.  Behind Last there must be one more slot to be the new end, for   *)
(* which the directory grows by a cleared cluster, if it can; that slot is *)
(* Last already, since clusters are cleared and nothing is written behind  *)
(* the end.  No result: it has no room.                                    *)
IsGap(slot) == slot \in {DIR_ENTRY_FREE, DIR_ENTRY_LAST}

EntryGap(c, taken) ==
    LET chain == Chain(c)
        i  == SelectInSeq(chain, LAMBDA d : \E k \in 1 .. SlotsPerCluster : IsGap(slots[Place(d)][k]))
        k  == SelectInSeq(slots[Place(chain[i])], IsGap)
        at == <<chain[i], k>>
    IN  IF i # 0 /\ (SlotAt(at) = DIR_ENTRY_FREE \/ i < Len(chain) \/ k < SlotsPerCluster)
        THEN {[at |-> at, grow |-> CLUSTER_FREE]}
        ELSE IF Place(c) = CLUSTER_ROOT THEN {}
        ELSE {[at |-> IF i # 0 THEN at ELSE <<g, 1>>, grow |-> g] : g \in FreeClusters \ taken}

(* _FAT_directory_addEntry into directory c at a gap *)
LinkGrown(c, gap) ==
    IF gap.grow = CLUSTER_FREE THEN fat
    ELSE [fat EXCEPT ![LastCluster(c)] = gap.grow, ![gap.grow] = CLUSTER_EOF]

AddEntry(gap, e) ==
    LET grown == IF gap.grow = CLUSTER_FREE THEN slots ELSE [slots EXCEPT ![gap.grow] = Cleared]
    IN  [grown EXCEPT ![Place(gap.at[1])][gap.at[2]] = e]

(* _FAT_directory_removeEntry *)
RemoveEntry(s, at) == [s EXCEPT ![Place(at[1])][at[2]] = DIR_ENTRY_FREE]

(* Mutant: only the first cluster is freed *)
ClearFirstLink(f, c) == IF c \in Clusters THEN [f EXCEPT ![c] = CLUSTER_FREE] ELSE f

(* _FAT_fat_clearLinks *)
ClearLinks(f, c) == [d \in DOMAIN f |-> IF d \in ChainSet(c) THEN CLUSTER_FREE ELSE f[d]]

(* What is left in the clusters of a chain that is cleared does not matter: *)
(* who takes one of them clears it or writes data there.                    *)
Forget(s, c) == [d \in DOMAIN s |-> IF d \in ChainSet(c) THEN Unread ELSE s[d]]

-----------------------------------------------------------------------------
(***************************************************************************)
(* What a program has to see to, since the calls do not: it neither        *)
(* removes, renames nor opens for writing a file that is open, it leaves   *)
(* the dot entries, the root and its current directory where they are, it  *)
(* moves no directory into another one, and it does not change the         *)
(* directory bit of an entry.                                              *)
(***************************************************************************)
NotOpen(e) == \A h \in Handles : files[h].inUse => files[h].at # e.at

NotDot(e) == e.name \notin {".", ".."}

-----------------------------------------------------------------------------
(* _FAT_open_r, and the calls on an open file *)

Closed == [inUse |-> FALSE, write |-> FALSE, modified |-> FALSE,
           at |-> <<CLUSTER_ROOT, 1>>, startCluster |-> CLUSTER_FREE]

(* A file that exists, neither a directory nor protected from this mode;   *)
(* O_TRUNC frees its clusters at once and leaves its entry for the sync.   *)
(* A careful program reads a file by several handles, or writes it by one. *)
OpenExisting(h, p, write, trunc) ==
    /\ ~files[h].inUse
    /\ \E e \in Target(p) :
         /\ ~e.dir
         /\ write => ~e.readOnly
         /\ \/ NotOpen(e)
            \/ ~write /\ \A g \in Handles : files[g].inUse /\ files[g].at = e.at => ~files[g].write
         /\ LET cut == trunc /\ write /\ e.cluster # CLUSTER_FREE
            IN  /\ files' = [files EXCEPT ![h] =
                      [inUse |-> TRUE, write |-> write, modified |-> cut, at |-> e.at,
                       startCluster |-> IF cut THEN CLUSTER_FREE ELSE e.cluster]]
                /\ fat' = IF cut THEN ClearLinks(fat, e.cluster) ELSE fat
    /\ UNCHANGED <<rootDirCluster, slots, cwdCluster, lost>>

(* O_CREAT: the entry has no cluster yet *)
OpenCreate(h, p, write) ==
    /\ ~files[h].inUse
    /\ Target(p) = {}
    /\ \E c \in ParentCluster(p) : \E gap \in EntryGap(c, {}) :
         /\ slots' = AddEntry(gap, Entry(NewName(p), FALSE, FALSE, CLUSTER_FREE))
         /\ fat' = LinkGrown(c, gap)
         /\ files' = [files EXCEPT ![h] =
               [inUse |-> TRUE, write |-> write, modified |-> TRUE, at |-> gap.at,
                startCluster |-> CLUSTER_FREE]]
    /\ UNCHANGED <<rootDirCluster, cwdCluster, lost>>

(* A write or an extension that takes one more cluster *)
Write(h) ==
    /\ files[h].inUse /\ files[h].write
    /\ Cardinality(ChainSet(files[h].startCluster)) < MaxFileClusters
    /\ \E c \in FreeClusters :
         LET start == files[h].startCluster
         IN  /\ fat' = IF start = CLUSTER_FREE THEN [fat EXCEPT ![c] = CLUSTER_EOF]
                       ELSE [fat EXCEPT ![LastCluster(start)] = c, ![c] = CLUSTER_EOF]
             /\ slots' = [slots EXCEPT ![c] = Unread]
             /\ files' = [files EXCEPT ![h].modified = TRUE,
                                       ![h].startCluster = IF start = CLUSTER_FREE THEN c ELSE start]
    /\ UNCHANGED <<rootDirCluster, cwdCluster, lost>>

(* ftruncate to nothing *)
Truncate(h) ==
    /\ files[h].inUse /\ files[h].write
    /\ files[h].startCluster # CLUSTER_FREE
    /\ fat' = ClearLinks(fat, files[h].startCluster)
    /\ files' = [files EXCEPT ![h].modified = TRUE, ![h].startCluster = CLUSTER_FREE]
    /\ UNCHANGED <<rootDirCluster, slots, cwdCluster, lost>>

(* Mutant: a file that has become empty keeps its cluster in the entry *)
SyncToDiscNonEmpty(h) ==
    IF files[h].write /\ files[h].modified /\ files[h].startCluster # CLUSTER_FREE
    THEN [slots EXCEPT ![Place(files[h].at[1])][files[h].at[2]].cluster = files[h].startCluster]
    ELSE slots

(* _FAT_syncToDisc: fields of the slot are written, whatever it has become; *)
(* in one that is no entry nobody reads them.                              *)
SyncToDisc(h) ==
    IF files[h].write /\ files[h].modified /\ SlotAt(files[h].at).kind = "entry"
    THEN [slots EXCEPT ![Place(files[h].at[1])][files[h].at[2]].cluster = files[h].startCluster]
    ELSE slots

Fsync(h) ==
    /\ files[h].inUse
    /\ slots' = SyncToDisc(h)
    /\ files' = [files EXCEPT ![h].modified = FALSE]
    /\ UNCHANGED <<rootDirCluster, fat, cwdCluster, lost>>

Close(h) ==
    /\ files[h].inUse
    /\ slots' = SyncToDisc(h)
    /\ files' = [files EXCEPT ![h] = Closed]
    /\ UNCHANGED <<rootDirCluster, fat, cwdCluster, lost>>

-----------------------------------------------------------------------------
(* Calls on directories *)

(* _FAT_unlinkCommon: the clusters of the entry, then the entry *)
UnlinkCommon(e) ==
    /\ fat' = ClearLinks(fat, e.cluster)
    /\ slots' = RemoveEntry(Forget(slots, e.cluster), e.at)
    /\ UNCHANGED <<rootDirCluster, cwdCluster, files, lost>>

Unlink(p) ==
    \E e \in Target(p) : ~e.dir /\ NotOpen(e) /\ UnlinkCommon(e)

(* Mutant: rmdir does not look into the directory *)
IsEmptyUnchecked(c) == TRUE

IsEmpty(c) == \A e \in Listed(c) : e.name \in {".", ".."}

Rmdir(p) ==
    \E e \in Target(p) :
        /\ e.dir /\ IsEmpty(e.cluster)
        /\ NotDot(e) /\ e.cluster # cwdCluster
        /\ UnlinkCommon(e)

(* The ".." of a new directory in directory c *)
DotDotCluster(c) == IF c = rootDirCluster THEN CLUSTER_ROOT ELSE c

Dots(c, new) ==
    [Cleared EXCEPT ![1] = Entry(".", TRUE, FALSE, new),
                    ![2] = Entry("..", TRUE, FALSE, DotDotCluster(c))]

(* The cluster is taken before the entry is added, and not given back when *)
(* the parent has no room.                                                 *)
Mkdir(p) ==
    /\ Target(p) = {}
    /\ \E c \in ParentCluster(p), new \in FreeClusters :
         \/ \E gap \in EntryGap(c, {new}) :
              /\ slots' = [AddEntry(gap, Entry(NewName(p), TRUE, FALSE, new))
                             EXCEPT ![new] = Dots(c, new)]
              /\ fat' = [LinkGrown(c, gap) EXCEPT ![new] = CLUSTER_EOF]
              /\ lost' = lost
         \/ /\ EntryGap(c, {new}) = {}
            /\ slots' = [slots EXCEPT ![new] = Cleared]
            /\ fat' = [fat EXCEPT ![new] = CLUSTER_EOF]
            /\ lost' = lost \cup {new}
    /\ UNCHANGED <<rootDirCluster, cwdCluster, files>>

(* The new entry is a copy of the old one and is there before that is      *)
(* removed.  The ".." of a directory that moves stays behind.              *)
Rename(p, q) ==
    /\ Target(q) = {}
    /\ \E e \in Target(p), c \in ParentCluster(q) :
         /\ NotOpen(e) /\ NotDot(e)
         /\ e.dir => c \in ParentCluster(p)
         /\ \E gap \in EntryGap(c, {}) :
              /\ slots' = RemoveEntry(AddEntry(gap, Entry(NewName(q), e.dir, e.readOnly, e.cluster)), e.at)
              /\ fat' = LinkGrown(c, gap)
    /\ UNCHANGED <<rootDirCluster, cwdCluster, files, lost>>

Chdir(p) ==
    /\ \E e \in Target(p) : e.dir /\ cwdCluster' = e.cluster
    /\ UNCHANGED <<rootDirCluster, fat, slots, files, lost>>

(* FAT_setAttr writes the attribute byte.  Nothing asks for the read-only  *)
(* bit of a directory; it is not kept.                                     *)
SetAttr(p, readOnly) ==
    /\ \E e \in Target(p) :
         /\ ~e.dir
         /\ slots' = [slots EXCEPT ![Place(e.at[1])][e.at[2]].readOnly = readOnly]
    /\ UNCHANGED <<rootDirCluster, fat, cwdCluster, files, lost>>

-----------------------------------------------------------------------------
Init ==
    /\ rootDirCluster \in {CLUSTER_ROOT, RootCluster}
    /\ fat = [c \in Clusters |-> IF c = rootDirCluster THEN CLUSTER_EOF ELSE CLUSTER_FREE]
    /\ slots = [c \in Areas |-> IF c = rootDirCluster THEN Cleared ELSE Unread]
    /\ cwdCluster = rootDirCluster
    /\ files = [h \in Handles |-> Closed]
    /\ lost = {}

FileCalls ==
    \E h \in Handles :
        \/ \E p \in CallPaths, write, trunc \in BOOLEAN : OpenExisting(h, p, write, trunc)
        \/ \E p \in CallPaths, write \in BOOLEAN : OpenCreate(h, p, write)
        \/ Write(h)
        \/ Truncate(h)
        \/ Fsync(h)
        \/ Close(h)

DirectoryCalls ==
    \/ \E p \in CallPaths : Unlink(p) \/ Rmdir(p) \/ Mkdir(p) \/ Chdir(p)
    \/ \E p, q \in CallPaths : Rename(p, q)
    \/ \E p \in CallPaths, readOnly \in BOOLEAN : SetAttr(p, readOnly)

Next == FileCalls \/ DirectoryCalls

Spec == Init /\ [][Next]_vars
=============================================================================
