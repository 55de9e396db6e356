------------------------------- MODULE WcFile -------------------------------
(***************************************************************************)
(* Reading files with wcfat, the compact reader for FAT32                  *)
(* (source/wcfat.c).  When a file is opened its chain of clusters is read  *)
(* once and kept in its FILE_STRUCT as runs of adjacent clusters; every    *)
(* read looks the position up in the runs.  What does not fill a block     *)
(* goes through one block of cache that all open files share.              *)
(*                                                                         *)
(* The volume is not written to and no read of the disc fails, so the      *)
(* cache always holds what its sector number says and is left out.  One    *)
(* file is enough: files share nothing else.  Sectors are counted in       *)
(* blocks (4096 bytes in the code) from the start of the data area, and a  *)
(* cluster is at least a block: smaller ones are left out.  A read is a    *)
(* sequence of steps, one for each transfer.                               *)
(***************************************************************************)
EXTENDS Integers, Sequences, FiniteSetsExt

CONSTANTS
    total_clust,     \* the clusters of the volume are 2 .. total_clust + 1
    BlockSize,       \* bytes in a block
    ClusterBlocks,   \* blocks in a cluster, 2^clust_shift sectors
    EightBlocks,     \* what the code takes the blocks of a cluster to be
    ChainInfos,      \* how many runs a FILE_STRUCT has room for, 61 in the code
    MaxClusters,     \* bound: the clusters of a file
    MaxLen           \* bound: the bytes asked for at once

ASSUME WcAssumption ==
    /\ {total_clust, BlockSize, ClusterBlocks, EightBlocks} \subseteq Nat \ {0}
    /\ {ChainInfos, MaxClusters, MaxLen} \subseteq Nat \ {0}

Clusters == 2 .. total_clust + 1
ClusterSize == ClusterBlocks * BlockSize

VARIABLES
    chain,   \* the clusters of the file, as the allocation table links them
    fs,      \* its FILE_STRUCT
    call     \* the read that is going on, and its last transfer

vars == <<chain, fs, call>>

-----------------------------------------------------------------------------
(* open_file *)

(* get_next_cluster: the table, by a copy of one of its sectors.  0 is a   *)
(* mark of the end.                                                        *)
GetNextCluster(k) == IF k < Len(chain) THEN chain[k + 1] ELSE 0

(* Mutant: a run is begun without its first cluster being counted out *)
ExtendedUnreset(runs, cur, next) ==
    IF next - cur = 1
    THEN [runs EXCEPT ![Len(runs)].count = @ + 1]
    ELSE Append(runs, [first |-> next, count |-> 1])

(* One link: count is how many clusters follow the first of the run *)
Extended(runs, cur, next) ==
    IF next - cur = 1
    THEN [runs EXCEPT ![Len(runs)].count = @ + 1]
    ELSE Append(runs, [first |-> next, count |-> 0])

(* A jump to one of the last two clusters is taken for a broken chain *)
IsBroken(cur, next) == next - cur # 1 /\ next >= total_clust

(* build_cluster_chain.  The start cluster and the counts and next         *)
(* clusters behind it are read as pairs later: they are kept as such here. *)
Build[k \in 1 .. Len(chain)] ==
    IF k = 1 THEN [broken |-> FALSE, runs |-> <<[first |-> chain[1], count |-> 0]>>]
    ELSE LET so == Build[k - 1]
             cur == chain[k - 1]
             next == GetNextCluster(k - 1)
         IN  IF so.broken \/ IsBroken(cur, next) THEN [so EXCEPT !.broken = TRUE]
             ELSE [so EXCEPT !.runs = Extended(so.runs, cur, next)]

BuildClusterChain == Build[Len(chain)].runs

(* The FILE_STRUCT has room for ChainInfos runs.  The others are written   *)
(* behind it (wcfat.c:692), over what is not its own and is not modelled;  *)
(* whoever owns that memory may write it again.  So a lookup there finds   *)
(* what the memory holds, as behind the last run: see IterateFile.         *)
Kept(runs) == SubSeq(runs, 1, Min({Len(runs), ChainInfos}))

Closed == [open |-> FALSE, ptr |-> 0, filesize |-> 0, runs |-> <<>>]

(* The end of the file is somewhere in its last cluster.  What             *)
(* build_cluster_chain returns is kept as chainCount and not looked at.    *)
Open ==
    /\ call.pc = "idle" /\ ~fs.open
    /\ \E left \in 0 .. ClusterSize - 1 :
         fs' = [open |-> TRUE, ptr |-> 0, filesize |-> Len(chain) * ClusterSize - left,
                runs |-> Kept(BuildClusterChain)]
    /\ UNCHANGED <<chain, call>>

(* _WC_seek_r: SEEK_CUR and SEEK_END count from the end, and a place       *)
(* outside the file is ignored.                                            *)
SeekTo(pos, whence) ==
    CASE whence = "set" -> pos
      [] whence = "cur" -> fs.filesize + pos
      [] whence = "end" -> fs.filesize - pos

IsInFile(pos) == pos \in 0 .. fs.filesize

Seek(pos, whence) ==
    /\ call.pc = "idle" /\ fs.open
    /\ IsInFile(SeekTo(pos, whence))
    /\ fs' = [fs EXCEPT !.ptr = SeekTo(pos, whence)]
    /\ UNCHANGED <<chain, call>>

-----------------------------------------------------------------------------
(* iterate_file *)

Order == fs.ptr \div ClusterSize

(* How many clusters the runs before run r have *)
Before[r \in 1 .. Len(fs.runs) + 1] ==
    IF r = 1 THEN 0 ELSE Before[r - 1] + fs.runs[r - 1].count + 1

(* The run in which the search stops: the first whose count is greater     *)
(* than what is left of the order.  The count is one less than the number  *)
(* of clusters: at the last cluster of a run the search goes on, what is   *)
(* left wraps around, and it leaves the runs.                              *)
RunsFound ==
    LET Left(r) == Order - Before[r]
        runs == DOMAIN fs.runs
    IN  {r \in runs : Left(r) < fs.runs[r].count /\ \A q \in 1 .. r - 1 : Left(q) > fs.runs[q].count}

(* Mutant: the clusters of the runs before are not subtracted in full *)
ClusterInRunShort(r) == fs.runs[r].first + Order - Before[r] + (r - 1)

ClusterInRun(r) == fs.runs[r].first + Order - Before[r]

(* The clusters that may be the result, with the number that follow it in  *)
(* the run: beyond the runs kept it is whatever the memory holds there.    *)
IterateFile ==
    IF RunsFound # {}
    THEN {[cluster |-> ClusterInRun(r),
           remain |-> fs.runs[r].count - (Order - Before[r])] : r \in RunsFound}
    ELSE [cluster : Clusters, remain : 1 .. MaxClusters]

(* cluster2sector, and the block of the cluster *)
CurSector(at) == (at.cluster - 2) * ClusterBlocks + ((fs.ptr \div BlockSize) % EightBlocks)

-----------------------------------------------------------------------------
(* _WC_read_r *)

NoIo == [pos |-> 0, size |-> 0, sector |-> 0]

Idle == [pc |-> "idle", from |-> 0, asked |-> 0, len |-> 0, io |-> NoIo]

(* The transfer: size bytes at position ptr of the file come from here on. *)
(* The pointer moves behind them.                                          *)
Transfer(size, sector) ==
    /\ fs' = [fs EXCEPT !.ptr = @ + size]
    /\ call' = [call EXCEPT !.len = @ - size,
                            !.io = [pos |-> fs.ptr, size |-> size, sector |-> sector]]

StartRead(len) ==
    /\ call.pc = "idle" /\ fs.open
    /\ call' = [pc |-> "read", from |-> fs.ptr, asked |-> len,
                len |-> Min({fs.filesize - fs.ptr, len}), io |-> NoIo]
    /\ UNCHANGED <<chain, fs>>

InBlock == fs.ptr % BlockSize

(* Inside a block: by the cache, whose block is kept if it is the one.     *)
(* (The pointer is inside a block only in the first transfer of a call.)   *)
Prolog ==
    /\ call.pc = "read" /\ call.len > 0 /\ InBlock # 0
    /\ \E at \in IterateFile :
         Transfer(Min({call.len, BlockSize - InBlock}), CurSector(at))
    /\ UNCHANGED chain

(* As many blocks as are adjacent and asked for *)
BlocksToRead(at) ==
    Min({at.remain * EightBlocks + (EightBlocks - ((fs.ptr \div BlockSize) % EightBlocks)),
         call.len \div BlockSize})

ReadBlocks ==
    /\ call.pc = "read" /\ InBlock = 0 /\ call.len >= BlockSize
    /\ \E at \in IterateFile :
         Transfer(BlocksToRead(at) * BlockSize, CurSector(at))
    /\ UNCHANGED chain

(* Mutant: the rest is taken to be a whole block *)
EpilogSizeOfBlock(len) == BlockSize

EpilogSize(len) == len

(* What is left is less than a block: it is loaded into the cache *)
Epilog ==
    /\ call.pc = "read" /\ InBlock = 0 /\ call.len \in 1 .. BlockSize - 1
    /\ \E at \in IterateFile :
         Transfer(EpilogSize(call.len), CurSector(at))
    /\ UNCHANGED chain

EndRead ==
    /\ call.pc = "read" /\ call.len <= 0
    /\ call' = Idle
    /\ UNCHANGED <<chain, fs>>

-----------------------------------------------------------------------------
Init ==
    /\ chain \in UNION {[1 .. n -> Clusters] : n \in 1 .. MaxClusters}
    /\ \A i, j \in DOMAIN chain : chain[i] = chain[j] => i = j
    /\ fs = Closed
    /\ call = Idle

Next ==
    \/ Open
    \/ \E pos \in -MaxLen .. MaxClusters * ClusterSize, whence \in {"set", "cur", "end"} : Seek(pos, whence)
    \/ \E len \in 0 .. MaxLen : StartRead(len)
    \/ Prolog \/ ReadBlocks \/ Epilog \/ EndRead

Spec == Init /\ [][Next]_vars
=============================================================================
