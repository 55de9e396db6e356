------------------------------ MODULE FatTable ------------------------------
(***************************************************************************)
(* The file allocation table of a mounted partition                        *)
(* (source/file_allocation_table.c) with the free-cluster bookkeeping of   *)
(* the file system information sector (source/partition.c).                *)
(*                                                                         *)
(* The table maps every cluster to the next one of its chain.  Files and   *)
(* directories own chains through the start cluster in their directory     *)
(* entry.  A call runs under the partition's lock.  linkFreeCluster is one *)
(* step; the loops of clearLinks and trimChain, which rewrite the table    *)
(* link by link, are one step per iteration.                               *)
(*                                                                         *)
(* The entries are what nextCluster makes of them: its conversion of the   *)
(* 12, 16 and 32 bit end marks to CLUSTER_EOF is done, and the packing of  *)
(* entries into sectors is left out.  numberLastAllocCluster is left out:  *)
(* it is stored for other systems and never consulted.                     *)
(*                                                                         *)
(* The information sector is read and written past the cache, but a cache  *)
(* page that holds the first entries of the table can hold a copy of it,   *)
(* and puts that copy back on the disc whenever it is written.             *)
(***************************************************************************)
EXTENDS Integers, FiniteSets

CONSTANTS
    LastCluster,   \* partition->fat.lastCluster
    CLUSTER_EOF,
    CLUSTER_ERROR,
    Files,         \* the files and directories
    TotalClusters, \* numberOfSectors / sectorsPerCluster, system area included
    FilesysType,   \* partition->filesysType
    SlackEntry,    \* what the table holds behind the entry of the last cluster
    InfoPage,      \* the clusters with their entry in the cache page that the
                   \* information sector is in; {} when no entry is there
    IoErrors       \* may the cache fail to read or to write an entry?

CLUSTER_FREE  == 0
CLUSTER_FIRST == 2

ASSUME TableAssumption ==
    /\ LastCluster \in Nat /\ LastCluster >= CLUSTER_FIRST
    /\ CLUSTER_EOF \in Nat /\ CLUSTER_EOF > LastCluster + 1
    /\ CLUSTER_ERROR \in Nat /\ CLUSTER_ERROR > CLUSTER_EOF
    /\ Files # {}
    /\ TotalClusters \in Nat /\ TotalClusters >= LastCluster - 1
    /\ FilesysType \in {"FS_FAT12", "FS_FAT16", "FS_FAT32"}
    /\ SlackEntry \in {CLUSTER_FREE, CLUSTER_EOF}
    /\ InfoPage \subseteq CLUSTER_FIRST .. LastCluster
    /\ FilesysType # "FS_FAT32" => InfoPage = {}
    /\ IoErrors \in BOOLEAN

(* _FAT_fat_isValidCluster holds of these *)
Clusters == CLUSTER_FIRST .. LastCluster

Entry == Clusters \cup {CLUSTER_FREE, LastCluster + 1, CLUSTER_EOF}

(* The free-cluster count in the file system information sector, and the   *)
(* two values of it that make the code count for itself: the signatures    *)
(* are missing, and 0xffffffff                                             *)
NoFSinfo     == -1
UnknownCount == -2

(* That page is not in the cache, or holds what the disc holds *)
NoCopy == -3

VARIABLES
    fat,               \* the table, as read and written through the cache
    firstFree,         \* partition->fat.firstFree
    numberFreeCluster, \* partition->fat.numberFreeCluster
    fsinfo,            \* the count in the information sector, on the disc
    copy,              \* the count in the cached copy of that sector, or NoCopy
    dirty,             \* is the page with the copy dirty?
    start,             \* the start cluster in the directory entry of each file
    call,              \* the call in progress, or the last one with its result
    off                \* history: the flush of an unmount has put an older count
                       \* back, or clearLinks has counted a link that leads
                       \* behind the table, and nothing has been counted since

page == <<copy, dirty>>

vars == <<fat, firstFree, numberFreeCluster, fsinfo, copy, dirty, start, call, off>>

(***************************************************************************)
(* "walk" and "clear" are the loops of trimChain and clearLinks, working   *)
(* for call.file: call.cluster is the nextCluster, or cluster, of the      *)
(* loop, call.last trimChain's startCluster (CLUSTER_FREE when the whole   *)
(* chain is dropped), call.length its chainLength.  The other calls have   *)
(* returned call.result.                                                   *)
(***************************************************************************)
Loops == {"walk", "clear"}

Call == [op : Loops \cup {"none", "unmounted", "linkFreeCluster", "statvfs"},
         file : Files, cluster : Entry, last : Entry, length : Nat, result : Nat]

Returned(op, r) == [op |-> op, file |-> CHOOSE f \in Files : TRUE, cluster |-> CLUSTER_FREE,
                    last |-> CLUSTER_FREE, length |-> 0, result |-> r]

(* No call is running on the mounted partition *)
Ready == call.op \notin Loops /\ call.op # "unmounted"

-----------------------------------------------------------------------------
(* What the table says: free clusters, links and chains *)

FreeClusters == {c \in Clusters : fat[c] = CLUSTER_FREE}

FreeClusterCount == Cardinality(FreeClusters)

(* No cluster has two predecessors *)
SingleLinks ==
    \A c, d \in Clusters : fat[c] \in Clusters /\ fat[c] = fat[d] => c = d

(* The clusters reached from c in at most n links *)
Reach[n \in Nat] ==
    [c \in Clusters |->
        {c} \cup (IF n = 0 \/ fat[c] \notin Clusters THEN {} ELSE Reach[n - 1][fat[c]])]

Chain(f) == IF start[f] \in Clusters THEN Reach[LastCluster][start[f]] ELSE {}

(* No chain runs in a circle: the clusters can be ranked along their links *)
NoCircles ==
    \E rank \in [Clusters -> Clusters] :
        \A c \in Clusters : fat[c] \in Clusters => rank[c] < rank[fat[c]]

(* A volume in order: no chain meets another or itself, each goes through  *)
(* used clusters to an end mark, and the used clusters are those in chains *)
InOrder ==
    /\ SingleLinks
    /\ \A c \in Clusters : fat[c] \in Clusters => fat[fat[c]] # CLUSTER_FREE
    /\ \A f \in Files : start[f] \in Clusters =>
         /\ fat[start[f]] # CLUSTER_FREE
         /\ \A c \in Clusters : fat[c] # start[f]
         /\ \A g \in Files : start[g] = start[f] => g = f
    /\ Clusters \ FreeClusters = UNION {Chain(f) : f \in Files}
    /\ NoCircles

Init ==
    /\ fat \in [Clusters -> Clusters \cup {CLUSTER_FREE, CLUSTER_EOF}]
    /\ start \in [Files -> Clusters \cup {CLUSTER_FREE}]
    /\ InOrder
    /\ firstFree = CLUSTER_FIRST
    /\ numberFreeCluster = 0
    /\ fsinfo \in {NoFSinfo, UnknownCount, FreeClusterCount}
    /\ copy = NoCopy /\ dirty = FALSE
    /\ call = Returned("unmounted", 0)
    /\ off = FALSE

-----------------------------------------------------------------------------
(* _FAT_fat_nextCluster.  A failed read leaves nextCluster at CLUSTER_FREE. *)

NextCluster(c) ==
    IF c = CLUSTER_FREE THEN CLUSTER_FREE
    ELSE IF c \in Clusters THEN fat[c] ELSE SlackEntry

Reads(c, v) == v = NextCluster(c) \/ (IoErrors /\ v = CLUSTER_FREE)

(* _FAT_fat_freeClusterCount: an entry it cannot read looks free *)
Counts(n) == n \in FreeClusterCount .. (IF IoErrors THEN LastCluster - 1 ELSE FreeClusterCount)

(* The copy of the information sector once its page is in the cache *)
Copied == IF copy = NoCopy THEN fsinfo ELSE copy

(* _FAT_fat_writeFatEntry of the entries of new: it refuses what is no     *)
(* valid cluster, and does not notice when the cache fails.  The page of   *)
(* an entry is read, if need be, and dirty.                                *)
WriteFatEntries(new) ==
    \E W \in IF IoErrors THEN SUBSET DOMAIN new ELSE {DOMAIN new} :
        /\ fat' = [c \in Clusters |-> IF c \in W THEN new[c] ELSE fat[c]]
        /\ IF W \cap InfoPage = {} THEN UNCHANGED page ELSE copy' = Copied /\ dirty' = TRUE

-----------------------------------------------------------------------------
(***************************************************************************)
(* _FAT_fat_linkFreeCluster.  The search reads upwards from firstFree,     *)
(* which may be one past the last cluster, then once more from the first   *)
(* cluster to the last.                                                    *)
(***************************************************************************)
SearchStart == IF firstFree < CLUSTER_FIRST THEN CLUSTER_FIRST ELSE firstFree

(* Mutant: the search does not start again at the first cluster *)
SearchedUpwards == {c \in Clusters : c >= SearchStart} \cup {SearchStart}

Searched == Clusters \cup {SearchStart}

SearchRank(c) == IF c >= SearchStart THEN c ELSE c + LastCluster + 2

(* Mutant: the hint is taken for a free cluster *)
FindsHint(c) == c = SearchStart

Finds(c) ==
    /\ c \in Searched
    /\ NextCluster(c) = CLUSTER_FREE \/ IoErrors
    /\ \A d \in Searched :
         NextCluster(d) = CLUSTER_FREE => SearchRank(c) <= SearchRank(d)

FindsNone == \A c \in Searched : NextCluster(c) # CLUSTER_FREE

Results == Clusters \cup {LastCluster + 1, CLUSTER_ERROR}

LinkFreeCluster(cluster, r) ==
    \E curLink \in Entry :
      /\ Reads(cluster, curLink)
      /\ \/ /\ curLink \in Clusters   \* it has a link already
            /\ r = curLink
            /\ UNCHANGED <<fat, firstFree, numberFreeCluster, page>>
         \/ /\ curLink \notin Clusters
            /\ FindsNone
            /\ r = CLUSTER_ERROR
            /\ firstFree' = LastCluster + 1
            /\ UNCHANGED <<fat, numberFreeCluster, page>>
         \/ /\ curLink \notin Clusters
            /\ Finds(r)
            /\ firstFree' = r
            /\ numberFreeCluster' = numberFreeCluster - (IF numberFreeCluster > 0 THEN 1 ELSE 0)
            /\ WriteFatEntries([c \in {cluster, r} \cap Clusters |->
                                  IF c = r THEN CLUSTER_EOF ELSE r])

(* The first cluster of a file or directory: its callers keep what is a    *)
(* valid cluster as the start of the chain and give up otherwise           *)
StartChain(f) ==
    /\ Ready /\ start[f] = CLUSTER_FREE
    /\ \E r \in Results :
         /\ LinkFreeCluster(CLUSTER_FREE, r)
         /\ start' = [start EXCEPT ![f] = IF r \in Clusters THEN r ELSE @]
         /\ call' = Returned("linkFreeCluster", r)
    /\ UNCHANGED <<fsinfo, off>>

(* The next cluster, from any cluster of a chain on *)
ExtendChain(cluster) ==
    /\ Ready /\ cluster \in Clusters \ FreeClusters
    /\ \E r \in Results :
         /\ LinkFreeCluster(cluster, r)
         /\ call' = Returned("linkFreeCluster", r)
    /\ UNCHANGED <<start, fsinfo, off>>

-----------------------------------------------------------------------------
(* Mutant: the hint goes back to the cluster that is kept *)
StartClearingAtLast(f, cluster, last) ==
    /\ firstFree' = IF last < firstFree THEN last ELSE firstFree
    /\ call' = [Returned("clear", 0) EXCEPT !.file = f, !.cluster = cluster, !.last = last]

(* _FAT_fat_clearLinks of a valid cluster, up to its loop *)
StartClearing(f, cluster, last) ==
    /\ firstFree' = IF cluster < firstFree THEN cluster ELSE firstFree
    /\ call' = [Returned("clear", 0) EXCEPT !.file = f, !.cluster = cluster, !.last = last]

(* Mutant: the loop does not go on to the next cluster *)
ClearLinkAgain ==
    /\ call.op = "clear" /\ call.cluster \notin {CLUSTER_EOF, CLUSTER_FREE}
    /\ WriteFatEntries([c \in {call.cluster} \cap Clusters |-> CLUSTER_FREE])
    /\ numberFreeCluster' = numberFreeCluster + (IF numberFreeCluster < TotalClusters THEN 1 ELSE 0)
    /\ off' = (off \/ call.cluster \notin Clusters)
    /\ UNCHANGED <<firstFree, fsinfo, start, call>>

(* An iteration of the loop.  It counts a link behind the table as well.   *)
ClearLink ==
    /\ call.op = "clear" /\ call.cluster \notin {CLUSTER_EOF, CLUSTER_FREE}
    /\ \E next \in Entry :
         /\ Reads(call.cluster, next)
         /\ call' = [call EXCEPT !.cluster = next]
    /\ WriteFatEntries([c \in {call.cluster} \cap Clusters |-> CLUSTER_FREE])
    /\ numberFreeCluster' = numberFreeCluster + (IF numberFreeCluster < TotalClusters THEN 1 ELSE 0)
    /\ off' = (off \/ call.cluster \notin Clusters)
    /\ UNCHANGED <<firstFree, fsinfo, start>>

(* A chain is dropped: the file is unlinked, opened with O_TRUNC or        *)
(* truncated to nothing, and its entry forgets the start cluster           *)
DropChain(f) ==
    /\ Ready /\ start[f] \in Clusters
    /\ StartClearing(f, start[f], CLUSTER_FREE)
    /\ UNCHANGED <<fat, numberFreeCluster, fsinfo, page, start, off>>

(* _FAT_fat_trimChain, with a chainLength that keeps something *)
TrimChain(f, chainLength) ==
    /\ Ready /\ start[f] \in Clusters
    /\ \E next \in Entry :
         /\ Reads(start[f], next)
         /\ call' = [Returned("walk", 0) EXCEPT !.file = f, !.last = start[f],
                        !.cluster = next, !.length = chainLength - 1]
    /\ UNCHANGED <<fat, firstFree, numberFreeCluster, fsinfo, page, start, off>>

WalkOn ==
    /\ call.op = "walk" /\ call.length > 0
    /\ call.cluster \notin {CLUSTER_FREE, CLUSTER_EOF}
    /\ \E next \in Entry :
         /\ Reads(call.cluster, next)
         /\ call' = [call EXCEPT !.length = @ - 1, !.last = call.cluster, !.cluster = next]
    /\ UNCHANGED <<fat, firstFree, numberFreeCluster, fsinfo, page, start, off>>

WalkEnds ==
    call.op = "walk" /\ (call.length = 0 \/ call.cluster \in {CLUSTER_FREE, CLUSTER_EOF})

DropRest ==
    /\ WalkEnds /\ call.cluster \in Clusters
    /\ StartClearing(call.file, call.cluster, call.last)
    /\ UNCHANGED <<fat, numberFreeCluster, fsinfo, page, start, off>>

(* Mutant: what lies behind the chain that is kept need not be freed *)
EndOfLoopsEarly ==
    WalkEnds \/ (call.op = "clear" /\ call.cluster \in {CLUSTER_EOF, CLUSTER_FREE})

(* The end of both: the last cluster that is kept becomes the end of the   *)
(* chain, or the file has no chain any more                                *)
EndOfLoops ==
    \/ WalkEnds /\ call.cluster \notin Clusters
    \/ call.op = "clear" /\ call.cluster \in {CLUSTER_EOF, CLUSTER_FREE}

(* Mutant: the last cluster that is kept still links to a freed one *)
FinishChainLinked ==
    /\ EndOfLoops
    /\ IF call.last = CLUSTER_FREE
       THEN start' = [start EXCEPT ![call.file] = CLUSTER_FREE]
       ELSE UNCHANGED start
    /\ call' = Returned("none", 0)
    /\ UNCHANGED <<fat, firstFree, numberFreeCluster, fsinfo, page, off>>

FinishChain ==
    /\ EndOfLoops
    /\ IF call.last = CLUSTER_FREE
       THEN /\ start' = [start EXCEPT ![call.file] = CLUSTER_FREE]
            /\ UNCHANGED <<fat, page>>
       ELSE /\ WriteFatEntries([c \in {call.last} \cap Clusters |-> CLUSTER_EOF])
            /\ UNCHANGED start
    /\ call' = Returned("none", 0)
    /\ UNCHANGED <<firstFree, numberFreeCluster, fsinfo, off>>

-----------------------------------------------------------------------------
(***************************************************************************)
(* The information sector of a writable FAT32 volume.  It is read and      *)
(* written behind the cache's back.  readFSinfo counts the free clusters   *)
(* and rewrites the sector when it has no count to offer.  Counting reads  *)
(* the whole table, and brings the page with the sector into the cache     *)
(* before the sector is rewritten.                                         *)
(***************************************************************************)
HasCount == fsinfo \notin {NoFSinfo, UnknownCount, 0}

ReadFSinfo ==
    \/ /\ FilesysType = "FS_FAT32" /\ HasCount
       /\ numberFreeCluster' = fsinfo
       /\ UNCHANGED <<fsinfo, page>>
    \/ /\ FilesysType = "FS_FAT32" /\ ~HasCount
       /\ \E n \in 0 .. LastCluster : Counts(n) /\ numberFreeCluster' = n
       /\ copy' = (IF InfoPage = {} THEN copy ELSE Copied) /\ UNCHANGED dirty
       /\ \/ fsinfo' = numberFreeCluster'
          \/ IoErrors /\ fsinfo' \in {fsinfo, Copied}
    \/ /\ FilesysType # "FS_FAT32" \/ IoErrors
       /\ UNCHANGED <<numberFreeCluster, fsinfo, page>>

(* _FAT_partition_constructor *)
Mount ==
    /\ call.op = "unmounted"
    /\ ReadFSinfo
    /\ call' = Returned("none", 0)
    /\ off' = (off /\ HasCount)
    /\ UNCHANGED <<fat, firstFree, start>>

(* Mutant: the information sector is not written *)
WrittenFSinfoNot == fsinfo

(* _FAT_partition_writeFSinfo, which leaves a sector without signatures *)
WrittenFSinfo ==
    IF FilesysType = "FS_FAT32" /\ fsinfo # NoFSinfo THEN numberFreeCluster ELSE fsinfo

(* _FAT_partition_destructor, after which nothing of PARTITION is left.    *)
(* The information sector is written first and the cache flushed then.     *)
Unmount ==
    /\ Ready
    /\ \/ fsinfo' = IF dirty THEN copy ELSE WrittenFSinfo
       \/ IoErrors /\ fsinfo' \in {fsinfo, WrittenFSinfo}
    /\ off' = (off \/ (dirty /\ copy # WrittenFSinfo))
    /\ firstFree' = CLUSTER_FIRST /\ numberFreeCluster' = 0
    /\ copy' = NoCopy /\ dirty' = FALSE
    /\ call' = Returned("unmounted", 0)
    /\ UNCHANGED <<fat, start>>

(* _FAT_statvfs_r: call.result is f_bfree *)
Statvfs ==
    /\ Ready
    /\ ReadFSinfo
    /\ call' = Returned("statvfs", IF FilesysType = "FS_FAT32" THEN numberFreeCluster'
                                                               ELSE FreeClusterCount)
    /\ UNCHANGED <<fat, firstFree, start, off>>

-----------------------------------------------------------------------------
(***************************************************************************)
(* The page between the steps of the calls: a flush, or an access that     *)
(* needs its place, writes it back with its copy of the information        *)
(* sector, or gives it up.                                                 *)
(***************************************************************************)
WriteBackPage == dirty /\ fsinfo' = copy

DropPage == copy # NoCopy /\ ~dirty /\ UNCHANGED fsinfo

CachePage ==
    /\ WriteBackPage \/ DropPage
    /\ copy' = NoCopy /\ dirty' = FALSE
    /\ UNCHANGED <<fat, firstFree, numberFreeCluster, start, call, off>>

-----------------------------------------------------------------------------
Calls ==
    \/ \E f \in Files : StartChain(f) \/ DropChain(f)
    \/ \E c \in Clusters : ExtendChain(c)
    \/ \E f \in Files, n \in 1 .. LastCluster : TrimChain(f, n)
    \/ Mount \/ Unmount

Progress == ClearLink \/ WalkOn \/ DropRest \/ FinishChain

Next == Calls \/ Progress \/ CachePage

Spec == Init /\ [][Next]_vars

FairSpec == Spec /\ WF_vars(Progress)

(* With statvfs, which may exchange numberFreeCluster for an older count *)
StatSpec == Init /\ [][Next \/ Statvfs]_vars
=============================================================================
