---------------------------- MODULE WcFileProps -----------------------------
(***************************************************************************)
(* The properties of reading with wcfat.                                   *)
(***************************************************************************)
EXTENDS WcFile

(* The link at which build_cluster_chain gives up; past the end: at none *)
FirstBroken ==
    LET broken == {k \in 2 .. Len(chain) : IsBroken(chain[k - 1], chain[k])}
    IN  IF broken = {} THEN Len(chain) + 1 ELSE Min(broken)

(* How many clusters the runs in the FILE_STRUCT have *)
ClustersKept == Before[Len(fs.runs) + 1]

(* The runs of an open file stand for its chain, from the start up to the  *)
(* first jump to one of the last two clusters of the volume                *)
(* (wcfat.c:646), or, if that is more than the FILE_STRUCT has room for    *)
(* (wcfat.c:692), up to the jump at which the next run would begin.        *)
RunsExpandToChain ==
    fs.open =>
        /\ ClustersKept < FirstBroken
        /\ \A r \in DOMAIN fs.runs : \A i \in 0 .. fs.runs[r].count :
             chain[Before[r] + i + 1] = fs.runs[r].first + i
        /\ ClustersKept + 1 < FirstBroken =>
             /\ Len(fs.runs) = ChainInfos
             /\ chain[ClustersKept + 1] # chain[ClustersKept] + 1

(* Where on the disc byte pos of the file is, counted as blocks are *)
PlaceOf(pos) == (chain[(pos \div ClusterSize) + 1] - 2) * ClusterSize + (pos % ClusterSize)

HitsFile(io) ==
    \A o \in 0 .. io.size - 1 : io.sector * BlockSize + (io.pos % BlockSize) + o = PlaceOf(io.pos + o)

(* Every transfer of a read takes the bytes of the file at its position:   *)
(* what cache_set and _WC_read_r calculate the sector for (wcfat.c:791).   *)
ReadsHitFile == HitsFile(call.io)

(* The block at which the code looks is that of the position: in clusters  *)
(* of eight blocks always, in others now and then (wcfat.c:894).           *)
IsItsBlock(block) == block % EightBlocks = block % ClusterBlocks

(* The bytes of a transfer are in clusters that lie one behind the other *)
IsAdjacent(io) ==
    LET k(o) == ((io.pos + o) \div ClusterSize) + 1
    IN  \A o \in 0 .. io.size - 1 : chain[k(o)] = chain[k(0)] + (k(o) - k(0))

(* A transfer that begins in a cluster whose neighbour is the file's next  *)
(* one, and at its block, takes the bytes of the file, all of them: from   *)
(* inside a block, behind any number of jumps (wcfat.c:759), and up to and *)
(* never over the next jump (wcfat.c:897).  The last is not so of clusters *)
(* of less than eight blocks: there only a transfer that happens to end in *)
(* time is right.  At the last cluster of a run the lookup leaves the      *)
(* runs, see ReadsHitFile.                                                 *)
AdjacentReadsHitFile ==
    LET k == (call.io.pos \div ClusterSize) + 1
    IN  (/\ k + 1 <= ClustersKept /\ chain[k + 1] = chain[k] + 1
         /\ IsItsBlock(call.io.pos \div BlockSize)
         /\ EightBlocks <= ClusterBlocks \/ IsAdjacent(call.io)) => HitsFile(call.io)

(* A read that has returned has moved the pointer by what was asked for,   *)
(* or to the end of the file, over all its transfers (wcfat.c:817).        *)
ReadAdvances ==
    (call.pc = "read" /\ call.len <= 0) => fs.ptr = Min({fs.filesize, call.from + call.asked})
=============================================================================
