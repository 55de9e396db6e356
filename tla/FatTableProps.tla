--------------------------- MODULE FatTableProps ----------------------------
(***************************************************************************)
(* The properties of the allocation table.                                 *)
(***************************************************************************)
EXTENDS FatTable, Sequences

(* The state is one the program's types and bounds allow *)
TypeOK ==
    /\ fat \in [Clusters -> Entry]
    /\ firstFree \in CLUSTER_FIRST .. LastCluster + 1
    /\ numberFreeCluster \in 0 .. TotalClusters
    /\ fsinfo \in {NoFSinfo, UnknownCount} \cup 0 .. TotalClusters
    /\ copy \in {NoCopy, NoFSinfo, UnknownCount} \cup 0 .. TotalClusters
    /\ dirty \in BOOLEAN /\ (dirty => copy # NoCopy) /\ off \in BOOLEAN
    /\ start \in [Files -> Clusters \cup {CLUSTER_FREE}]
    /\ call \in Call

Looping == call.op \in Loops

(***************************************************************************)
(* The three parts of "no cross-links", kept link by link.  While          *)
(* clearLinks is at work they hold but for what it is about to repair: the *)
(* last cluster that is kept still links to a cluster that may be free,    *)
(* and a file whose whole chain is dropped still names its first cluster.  *)
(***************************************************************************)
KeptEnd(c)  == call.op = "clear" /\ c = call.last
Dropping(f) == call.op = "clear" /\ call.last = CLUSTER_FREE /\ f = call.file

LinksAreUsed ==
    \A c \in Clusters : fat[c] \in Clusters /\ ~KeptEnd(c) => fat[fat[c]] # CLUSTER_FREE

HeadsAreHeads ==
    \A f \in Files : start[f] \in Clusters /\ ~Dropping(f) =>
        /\ fat[start[f]] # CLUSTER_FREE
        /\ \A c \in Clusters : fat[c] # start[f]
        /\ \A g \in Files : start[g] = start[f] => g = f

(* linkFreeCluster, clearLinks and trimChain never let two chains share a  *)
(* cluster, a chain run into a free cluster, or a file start inside the    *)
(* chain of another: at every step of their loops, on any volume.          *)
NoCrossLinks == SingleLinks /\ LinksAreUsed /\ HeadsAreHeads

(* Nothing but the kept end links to the cluster that clearLinks is about  *)
(* to free, and no file that keeps its chain starts there                  *)
ClearsUnlinked ==
    call.op = "clear" /\ call.cluster \in Clusters =>
        /\ \A c \in Clusters : fat[c] = call.cluster => KeptEnd(c)
        /\ \A f \in Files : start[f] = call.cluster => Dropping(f)

(* trimChain's nextCluster follows its startCluster *)
WalksLinks ==
    call.op = "walk" => call.last # CLUSTER_FREE /\ call.cluster = NextCluster(call.last)

(* What the steps preserve together, without failures of the cache *)
TableInv == TypeOK /\ NoCrossLinks /\ ClearsUnlinked /\ WalksLinks

(* Between calls every cluster that is not free belongs to the chain of    *)
(* some file: dropping and trimming chains leaks nothing.                  *)
NoLostClusters ==
    ~Looping => Clusters \ FreeClusters = UNION {Chain(f) : f \in Files}

(* linkFreeCluster hands out no valid cluster only when no cluster is free,*)
(* wherever the firstFree hint stood when the search began: neither        *)
(* CLUSTER_ERROR nor, where zeros follow the table, the number behind the  *)
(* last cluster, which its callers take for a refusal too.                 *)
RefusedOnlyWhenFull ==
    call.op = "linkFreeCluster" /\ call.result \notin Clusters => FreeClusters = {}

(* What keeps it so: the hint is behind the last cluster only when no      *)
(* cluster is free                                                         *)
HintInv ==
    /\ firstFree = LastCluster + 1 => FreeClusters = {}
    /\ call.op = "clear" => firstFree # LastCluster + 1

(* On a mounted FAT32 volume the running count of free clusters is the     *)
(* number of free clusters, in the middle of clearLinks too and over       *)
(* unmounting and mounting again, but for the two ways in which the code   *)
(* itself puts it off: an unmount whose flush puts an older count back     *)
(* over the one it has just written, and a chain that is dropped with a    *)
(* link to the number behind the last cluster.                             *)
FreeCountIsExact ==
    FilesysType = "FS_FAT32" /\ call.op # "unmounted" /\ ~off =>
        numberFreeCluster = FreeClusterCount

(* What keeps the count exact: clearLinks frees used clusters only, because *)
(* it never comes back to the end of the chain that is kept               *)
LinksUpwards(rank) ==
    /\ \A c \in Clusters : fat[c] \in Clusters => rank[c] < rank[fat[c]]
    /\ call.op = "clear" /\ call.last \in Clusters /\ call.cluster \in Clusters =>
         rank[call.last] < rank[call.cluster]

CountInv ==
    /\ \E rank \in [Clusters -> Nat] : LinksUpwards(rank)
    /\ Looping /\ call.last \in Clusters => fat[call.last] # CLUSTER_FREE
    /\ call.op = "clear" /\ call.cluster \in Clusters => fat[call.cluster] # CLUSTER_FREE
    /\ FreeCountIsExact
    /\ call.op = "unmounted" =>
         /\ copy = NoCopy /\ ~dirty
         /\ FilesysType = "FS_FAT32" /\ HasCount /\ ~off => fsinfo = FreeClusterCount

(* What keeps clusters from being lost, link by link: a cluster in use is  *)
(* the first of a file, or another links to it, or clearLinks is about to  *)
(* free it; the cluster that trimChain keeps is in use; and no chain runs  *)
(* in a circle                                                             *)
OwnedInv ==
    /\ \E rank \in [Clusters -> Nat] : LinksUpwards(rank)
    /\ Looping /\ call.last \in Clusters => fat[call.last] # CLUSTER_FREE
    /\ \A c \in Clusters \ FreeClusters :
         \/ \E f \in Files : start[f] = c /\ ~Dropping(f)
         \/ \E d \in Clusters : fat[d] = c /\ ~KeptEnd(d)
         \/ call.op = "clear" /\ c = call.cluster

-----------------------------------------------------------------------------
(* The chain of a file as a sequence, cut where a trim in progress cuts it *)

From[n \in Nat] ==
    [c \in Clusters |->
        <<c>> \o IF n = 0 \/ fat[c] \notin Clusters \/ KeptEnd(c) THEN <<>>
                 ELSE From[n - 1][fat[c]]]

ChainSeq(f) ==
    IF start[f] \notin Clusters \/ Dropping(f) THEN <<>> ELSE From[LastCluster][start[f]]

Pool == INSTANCE ClusterPool WITH
    NoAnswer <- CLUSTER_FREE,
    Error    <- CLUSTER_ERROR,
    chains   <- [f \in Files |-> ChainSeq(f)],
    answer   <- IF call.op # "linkFreeCluster" THEN CLUSTER_FREE
                ELSE IF call.result \in Clusters THEN call.result ELSE CLUSTER_ERROR

(* The table implements the pool of clusters: a file grows by a free       *)
(* cluster at its end, or is cut, and nothing else ever happens to the     *)
(* clusters of any file.                                                   *)
ImplementsClusterPool == Pool!PoolSpec

(* The loops of trimChain and clearLinks end, on every chain, so the lock  *)
(* they run under is released.                                             *)
LoopsEnd == Looping ~> ~Looping

-----------------------------------------------------------------------------
(* What comments in the source say *)

(* "f_bfree = freeClusterCount; // Total number of free blocks."           *)
(* (fatdir.c:533).                                                         *)
StatvfsCountsFreeClusters ==
    call.op = "statvfs" => call.result = FreeClusterCount
=============================================================================
