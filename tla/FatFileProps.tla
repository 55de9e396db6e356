---------------------------- MODULE FatFileProps ----------------------------
(***************************************************************************)
(* What makes the reading and writing of a file right (FatFile).           *)
(***************************************************************************)
EXTENDS FatFile

(* The variables have their types, chain is a sequence of distinct         *)
(* clusters.                                                               *)
TypeOK ==
    /\ chain \in Seq(Clusters) /\ \A i, j \in DOMAIN chain : chain[i] = chain[j] => i = j
    /\ entry \in [filesize : Sizes, startCluster : Clusters \cup {CLUSTER_FREE}]
    /\ file \in FileStruct
    /\ call \in Call
    /\ lost \subseteq Clusters
    /\ io.offset \in Nat /\ io.address \in Int /\ io.size \in Nat
    /\ io.write \in BOOLEAN /\ io.erase \in BOOLEAN

(* The place on the disc of the byte at offset o: the chain decides *)
HasPlace(o) == o \div BytesPerCluster < Len(chain)
PlaceOf(o)  == Address(chain[o \div BytesPerCluster + 1], 0, 0) + (o % BytesPerCluster)

Covered == ClustersFor(file.filesize) <= Len(chain)

HitsFile ==
    \A k \in 0 .. io.size - 1 :
       HasPlace(io.offset + k) /\ io.address + k = PlaceOf(io.offset + k)

(* Every byte that _FAT_write_r and _FAT_file_extend_r put on the disc     *)
(* goes to the place that the file's chain gives to its offset: never to   *)
(* another part of the file, to a free cluster or to another file, however *)
(* the transfer is cut into sectors, clusters and runs of clusters.        *)
WritesHitFile == io.write => HitsFile

(* Every byte that _FAT_read_r fetches comes from the place of its offset  *)
(* and from inside the file.  A file that a failed ftruncate has left with *)
(* a size its chain does not cover is damaged already: ChainFitsSize.      *)
ReadsHitFile ==
    ~io.write /\ Covered => HitsFile /\ io.offset + io.size <= file.filesize

(* The last sector of a write is erased behind the bytes written only when *)
(* no byte of the file is there: no byte of the file is lost.              *)
EraseSpares == io.erase => io.offset + io.size >= file.filesize

(* A position p of the file stands for offset o: it is the place of o, or  *)
(* it is the end of the cluster before o, from which a write goes on to    *)
(* the next cluster.                                                       *)
StandsFor(p, o) ==
    \/ /\ HasPlace(o) /\ p.sector < SectorsPerCluster
       /\ Address(p.cluster, p.sector, p.byte) = PlaceOf(o)
    \/ /\ o > 0 /\ o % BytesPerCluster = 0
       /\ o \div BytesPerCluster <= Len(chain)
       /\ p = [cluster |-> chain[o \div BytesPerCluster], sector |-> SectorsPerCluster, byte |-> 0]

(* Between two calls the read/write pointer stands for currentPosition, if *)
(* that is in the file, whatever calls have moved either of them.          *)
PositionAgrees ==
    Ready /\ chain # <<>> /\ file.currentPosition <= file.filesize
       => StandsFor(file.rwPosition, file.currentPosition)

(* Between two calls the append pointer of a file opened with O_APPEND     *)
(* stands for the end of the file.                                         *)
AppendAgrees ==
    Ready /\ file.append /\ chain # <<>> => StandsFor(file.appendPosition, file.filesize)

(* Between two calls the file has the clusters that its bytes need, and no *)
(* others: ftruncate drops no cluster too many or too few, and a write up  *)
(* to the end of a cluster does not allocate the next one                  *)
(* (fatfile.c:1168, fatfile.c:599).                                        *)
ChainFitsSize == Ready => Len(chain) = ClustersFor(file.filesize)

(* Once the file is closed, its directory entry names its first cluster    *)
(* and a size that its chain can hold: whoever opens it next finds it.     *)
(* This is said of a disc that does not fail: with IoErrors SyncToDisc     *)
(* leaves the entry as it was, and the file without the clusters it got.   *)
ClosedFileIsFound ==
    ~file.inUse => /\ entry.startCluster = StartCluster
                   /\ ClustersFor(entry.filesize) <= Len(chain)

(* If no transfer fails, a call that has begun stops before the bytes that *)
(* its length was fitted to only if it is a write and every cluster of the *)
(* volume is taken.  A read is fitted to the end of the file, a write to   *)
(* what the size of the file lacks of the greatest one, wherever in the    *)
(* file it writes (fatfile.c:742): near that limit it may fall short of    *)
(* what it was asked for with clusters free.                               *)
StopsOnlyWhenFull ==
    ~IoErrors /\ call.phase = "end" /\ call.remain > 0
       => call.op = "write" /\ Clusters \subseteq Taken

(* Every call returns: none of the loops over clusters and sectors runs    *)
(* for ever, and no step is left without a successor.                      *)
CallsReturn == (call.phase # "none") ~> (call.phase = "none")
=============================================================================
