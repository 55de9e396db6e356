------------------------------ MODULE FatFile -------------------------------
(***************************************************************************)
(* One open file of libfat (source/fatfile.c): a FILE_STRUCT opened for    *)
(* reading and writing, the chain of clusters that holds its bytes and its *)
(* directory entry.                                                        *)
(*                                                                         *)
(* The hard part of the code is to keep three cluster/sector/byte pointers *)
(* in step with the byte offset they stand for while clusters are added    *)
(* and dropped, in transfers that are cut at sector and at cluster ends.   *)
(* So the data of the file is not modelled; its place is.  Every transfer  *)
(* between the caller's buffer and the disc is recorded in io, as the      *)
(* offset in the file, the address on the disc and the number of bytes.    *)
(*                                                                         *)
(* A call runs under the partition's lock and takes one step per transfer. *)
(* The allocation table is what ClusterPool promises: a file is given some *)
(* free cluster, or refused one if there is none.                          *)
(***************************************************************************)
EXTENDS Integers, Sequences, FiniteSets

CONSTANTS
    LastCluster,       \* partition->fat.lastCluster
    SectorsPerCluster,
    BytesPerSector,
    FILE_MAX_SIZE,     \* the greatest uint32_t, and the greatest size of a file
    PlainCalls,        \* the calls that are made on a file opened without O_APPEND
    AppendCalls,       \* the calls that are made on a file opened with it
    OpenModes,         \* the ways it is opened, besides O_RDWR
    MaxExtend,         \* bound: the greatest offset behind the end that calls go to
    IoErrors           \* may a transfer of whole sectors, or of the directory entry, fail?

CLUSTER_FREE  == 0
CLUSTER_FIRST == 2
CLUSTER_EOF   == LastCluster + 2
Clusters      == CLUSTER_FIRST .. LastCluster

BytesPerCluster == BytesPerSector * SectorsPerCluster

ASSUME FileAssumption ==
    /\ LastCluster \in Nat /\ LastCluster >= CLUSTER_FIRST
    /\ SectorsPerCluster \in Nat \ {0}
    /\ BytesPerSector \in Nat \ {0}
    /\ FILE_MAX_SIZE \in Nat /\ MaxExtend \in 0 .. FILE_MAX_SIZE
    /\ PlainCalls \cup AppendCalls \subseteq
         {"read", "write", "seek", "seekPast", "shrink", "grow", "fsync", "wrap"}
    /\ OpenModes \subseteq {"O_APPEND", "O_TRUNC", "plain"}
    /\ IoErrors \in BOOLEAN

VARIABLES
    chain,  \* the clusters of the file, from file->startCluster on
    lost,   \* clusters that are linked, but to which no entry leads any more
    entry,  \* the size and start cluster in its directory entry
    file,   \* the FILE_STRUCT
    call,   \* the local variables of the call in progress
    io      \* the transfer that the last step made

vars == <<chain, lost, entry, file, call, io>>

Sizes == 0 .. FILE_MAX_SIZE

(* Sums of uint32_t, and of size_t on the 32 bit consoles the code is for *)
Sum32(a, b) == (a + b) % (FILE_MAX_SIZE + 1)

Makes(name) == name \in IF file.append THEN AppendCalls ELSE PlainCalls

(* May a call be made that adds n to the current position?  "wrap" allows  *)
(* those whose sum does not fit.                                           *)
Allowed(n) == Makes("wrap") \/ file.currentPosition + n <= FILE_MAX_SIZE

Position == [cluster : Clusters \cup {CLUSTER_FREE}, sector : 0 .. SectorsPerCluster,
             byte : 0 .. BytesPerSector]

PositionAt(c) == [cluster |-> c, sector |-> 0, byte |-> 0]

FileStruct == [inUse : BOOLEAN, append : BOOLEAN, modified : BOOLEAN, filesize : Sizes,
               currentPosition : Sizes, rwPosition : Position, appendPosition : Position]

(***************************************************************************)
(* call.offset is the file offset the call starts from, call.remain what   *)
(* it has still to transfer of call.len bytes.  A call that extends the    *)
(* file up to call.target has call.zeros bytes still to clear.             *)
(***************************************************************************)
Phases == {"none", "partial", "sectors", "next", "clusters", "group", "rest", "last",
           "end", "extend", "zero"}

Call == [phase : Phases, op : {"none", "read", "write", "grow"}, offset : Sizes, len : Sizes,
         remain : Sizes, position : Position, appending : BOOLEAN, target : Sizes, zeros : Sizes,
         chunkEnd : Clusters \cup {CLUSTER_FREE}, chunkSize : Nat]

NoCall == [phase |-> "none", op |-> "none", offset |-> 0, len |-> 0, remain |-> 0,
           position |-> PositionAt(CLUSTER_FREE), appending |-> FALSE, target |-> 0, zeros |-> 0,
           chunkEnd |-> CLUSTER_FREE, chunkSize |-> 0]

NoIo == [write |-> FALSE, offset |-> 0, address |-> 0, size |-> 0, erase |-> FALSE]

Ready == file.inUse /\ call.phase = "none"

Lesser(a, b) == IF a < b THEN a ELSE b

-----------------------------------------------------------------------------
(* The allocation table, as far as this file sees it *)

StartCluster == IF chain = <<>> THEN CLUSTER_FREE ELSE chain[1]

Chained == {chain[i] : i \in DOMAIN chain}

Taken == Chained \cup lost

IndexOf(c) == CHOOSE i \in DOMAIN chain : chain[i] = c

(* _FAT_fat_nextCluster *)
NextCluster(c) ==
    IF c \notin Chained THEN CLUSTER_FREE
    ELSE IF c = chain[Len(chain)] THEN CLUSTER_EOF ELSE chain[IndexOf(c) + 1]

(* _FAT_fat_lastCluster *)
LastOfChain == IF chain = <<>> THEN CLUSTER_FREE ELSE chain[Len(chain)]

(* _FAT_fat_linkFreeCluster returns r for the cluster c *)
LinkFreeCluster(c, r) ==
    IF NextCluster(c) \in Clusters
    THEN r = NextCluster(c) /\ UNCHANGED chain
    ELSE /\ r \in Clusters \ Taken
         /\ chain' = IF c = LastOfChain THEN Append(chain, r) ELSE chain

(* Mutant: the search for a free cluster gives up at once *)
NoFreeClusterAtOnce(c) == NextCluster(c) \notin Clusters

NoFreeCluster(c) == NextCluster(c) \notin Clusters /\ Clusters \subseteq Taken

(* The address of a byte of the disc: _FAT_fat_clusterToSector + sector, byte *)
Address(c, sector, byte) ==
    (c - CLUSTER_FIRST) * BytesPerCluster + sector * BytesPerSector + byte

ClustersFor(size) == (size + BytesPerCluster - 1) \div BytesPerCluster

-----------------------------------------------------------------------------
(* A closed file with its chain.  Every sequence of clusters can be one.   *)

Init ==
    /\ \E size \in Sizes :
         /\ chain \in [1 .. ClustersFor(size) -> Clusters]
         /\ \A i, j \in DOMAIN chain : chain[i] = chain[j] => i = j
         /\ entry = [filesize |-> size, startCluster |-> StartCluster]
    /\ file = [inUse |-> FALSE, append |-> FALSE, modified |-> FALSE, filesize |-> 0,
               currentPosition |-> 0, rwPosition |-> PositionAt(CLUSTER_FREE),
               appendPosition |-> PositionAt(CLUSTER_FREE)]
    /\ lost = {}
    /\ call = NoCall
    /\ io = NoIo

(* Mutant: no flag at the end of a cluster *)
EndPositionUnflagged(last, size) ==
    [cluster |-> last, sector |-> (size % BytesPerCluster) \div BytesPerSector,
     byte |-> size % BytesPerSector]

(* A position for appending: a size at a cluster's end sets the flag to    *)
(* allocate a new cluster, sector = sectorsPerCluster                      *)
EndPosition(last, size) ==
    [cluster |-> last,
     sector  |-> IF size > 0 /\ size % BytesPerCluster = 0 THEN SectorsPerCluster
                 ELSE (size % BytesPerCluster) \div BytesPerSector,
     byte    |-> size % BytesPerSector]

(* The clusters that its entry leads to.  A sync that failed may have left *)
(* it without those the file was given since it was created.               *)
Found == IF entry.startCluster = CLUSTER_FREE THEN <<>> ELSE chain

(* _FAT_open_r of the existing file.  An entry that still leads to         *)
(* clusters the file has given up is left aside.                           *)
Open(mode) ==
    /\ ~file.inUse /\ entry.startCluster \in {CLUSTER_FREE, StartCluster}
    /\ LET cut  == mode = "O_TRUNC" /\ entry.startCluster # CLUSTER_FREE
           size == IF cut THEN 0 ELSE entry.filesize
       IN  /\ chain' = IF cut THEN <<>> ELSE Found
           /\ file' = [inUse |-> TRUE, append |-> mode = "O_APPEND", modified |-> cut,
                       filesize |-> size, currentPosition |-> 0,
                       rwPosition |-> PositionAt(StartCluster'),
                       appendPosition |-> IF mode = "O_APPEND" THEN EndPosition(LastOfChain', size)
                                                               ELSE PositionAt(StartCluster')]
    /\ lost' = IF entry.startCluster = CLUSTER_FREE THEN Taken ELSE lost
    /\ io' = NoIo
    /\ UNCHANGED <<entry, call>>

(* Mutant: the new start cluster is not written *)
SyncedSizeOnly ==
    IF file.modified THEN [entry EXCEPT !.filesize = file.filesize] ELSE entry

(* The entry that _FAT_syncToDisc writes *)
Synced ==
    IF file.modified THEN [filesize |-> file.filesize, startCluster |-> StartCluster] ELSE entry

(* _FAT_syncToDisc.  If the sector of the entry cannot be loaded to be     *)
(* changed, the old entry stays, and nobody hears of it: the results of    *)
(* the cache are ignored.                                                  *)
SyncToDisc == entry' = Synced \/ (IoErrors /\ UNCHANGED entry)

(* _FAT_close_r: the file is closed even if the cache could not be flushed *)
Close ==
    /\ Ready
    /\ SyncToDisc
    /\ file' = [file EXCEPT !.inUse = FALSE, !.modified = FALSE]
    /\ io' = NoIo
    /\ UNCHANGED <<chain, call>>

(* _FAT_fsync_r: if the cache cannot be flushed, the file stays modified *)
Fsync ==
    /\ Ready /\ Makes("fsync")
    /\ SyncToDisc
    /\ \/ file' = [file EXCEPT !.modified = FALSE]
       \/ IoErrors /\ file.modified /\ UNCHANGED file
    /\ io' = NoIo
    /\ UNCHANGED <<chain, call>>

-----------------------------------------------------------------------------
(* Transfers *)

Transfer(address, size, erase) ==
    io' = [write |-> call.op # "read", offset |-> call.offset + (call.len - call.remain),
           address |-> address, size |-> size, erase |-> erase]

(* Mutants: the sector is not set to 0; a cluster is taken even if there   *)
(* is nothing to put in it                                                 *)
CheckPositionKeepsSector(position, remain, p) ==
    IF remain > 0 /\ position.sector = SectorsPerCluster
    THEN \E r \in Clusters : LinkFreeCluster(position.cluster, r)
                             /\ p = [position EXCEPT !.cluster = r]
    ELSE p = position /\ UNCHANGED chain

CheckPositionAlways(position, remain, p) ==
    IF position.sector = SectorsPerCluster
    THEN \E r \in Clusters : LinkFreeCluster(position.cluster, r)
                             /\ p = [position EXCEPT !.cluster = r, !.sector = 0]
    ELSE p = position /\ UNCHANGED chain

(* _FAT_check_position_for_next_cluster: p is the position to go on from   *)
CheckPosition(position, remain, p) ==
    IF remain > 0 /\ position.sector = SectorsPerCluster
    THEN \E r \in Clusters : LinkFreeCluster(position.cluster, r)
                             /\ p = [position EXCEPT !.cluster = r, !.sector = 0]
    ELSE p = position /\ UNCHANGED chain

(* Mutant: an error is noticed only behind the flag *)
NoNextClusterLate(position, remain) ==
    remain > 0 /\ position.sector > SectorsPerCluster /\ NoFreeCluster(position.cluster)

NoNextCluster(position, remain) ==
    /\ remain > 0 /\ position.sector = SectorsPerCluster
    /\ NoFreeCluster(position.cluster)

(* A write makes sure of its cluster at the start of a phase *)
Advance(p) ==
    IF call.op = "write" THEN CheckPosition(call.position, call.remain, p)
                         ELSE p = call.position /\ UNCHANGED chain

(* Don't read past the end of the file *)
ReadLength(len) ==
    IF Sum32(len, file.currentPosition) > file.filesize
    THEN file.filesize - file.currentPosition ELSE len

(* _FAT_read_r, up to its first transfer *)
Read(len) ==
    /\ Ready /\ Makes("read") /\ len > 0 /\ Allowed(len)
    /\ file.currentPosition < file.filesize /\ chain # <<>>
    /\ call' = [NoCall EXCEPT !.phase = "partial", !.op = "read",
                    !.offset = file.currentPosition, !.len = ReadLength(len),
                    !.remain = ReadLength(len), !.position = file.rwPosition]
    /\ io' = NoIo
    /\ UNCHANGED <<chain, entry, file>>

(* _FAT_write_r, up to its first transfer.  A file without clusters gets   *)
(* one; a write behind the end of the file extends the file first.         *)
Write(len) ==
    /\ Ready /\ Makes("write")
    /\ \/ chain # <<>> /\ UNCHANGED <<chain, file>>
       \/ \E r \in Clusters :
            /\ chain = <<>> /\ LinkFreeCluster(CLUSTER_FREE, r)
            /\ file' = [file EXCEPT !.appendPosition = PositionAt(r), !.rwPosition = PositionAt(r)]
    /\ LET n == Lesser(len, FILE_MAX_SIZE - file.filesize)
           past == ~file.append /\ file.currentPosition > file.filesize
       IN  /\ n > 0 /\ (file.append \/ Allowed(n))
           /\ call' = [NoCall EXCEPT
                 !.phase = IF past THEN "extend" ELSE "partial", !.op = "write",
                 !.offset = IF file.append THEN file.filesize ELSE file.currentPosition,
                 !.len = n, !.remain = n,
                 !.position = IF file.append THEN file'.appendPosition ELSE file'.rwPosition,
                 !.appending = file.append \/ Sum32(n, file.currentPosition) >
                                  IF past THEN file.currentPosition ELSE file.filesize,
                 !.target = file.currentPosition,
                 !.zeros = IF past THEN file.currentPosition - file.filesize ELSE 0]
    /\ io' = NoIo
    /\ UNCHANGED entry

(* The rest of a sector, or less *)
Partial ==
    /\ call.phase = "partial"
    /\ \E p \in Position :
         /\ Advance(p)
         /\ LET n == Lesser(BytesPerSector - p.byte, call.remain)
                wraps == p.byte + n >= BytesPerSector
            IN  IF n < BytesPerSector
                THEN /\ Transfer(Address(p.cluster, p.sector, p.byte), n, FALSE)
                     /\ call' = [call EXCEPT !.phase = "sectors", !.remain = @ - n,
                           !.position = [p EXCEPT !.byte = IF wraps THEN 0 ELSE p.byte + n,
                                                  !.sector = IF wraps THEN p.sector + 1 ELSE p.sector]]
                ELSE /\ io' = NoIo
                     /\ call' = [call EXCEPT !.phase = "sectors", !.position = p]
    /\ UNCHANGED <<entry, file>>

(* The sectors up to the end of the cluster, or less.  A write leaves a    *)
(* whole cluster to the next phase.                                        *)
(* Mutant: the sectors are not cut off at the end of the cluster *)
SectorsLeftInFile == call.remain \div BytesPerSector

SectorsLeft ==
    LET here == SectorsPerCluster - call.position.sector
    IN  IF call.remain > here * BytesPerSector THEN here ELSE call.remain \div BytesPerSector

SectorsMoved ==
    IF call.op = "write" /\ SectorsLeft = SectorsPerCluster THEN 0 ELSE SectorsLeft

(* n sectors from sector on, or none; the cache may fail to transfer them *)
MoveSectors(p, sector, n, phase) ==
    \/ /\ IF n > 0 THEN Transfer(Address(p.cluster, sector, 0), n * BytesPerSector, FALSE)
                   ELSE io' = NoIo
       /\ call' = [call EXCEPT !.phase = phase, !.remain = @ - n * BytesPerSector,
                               !.position = [p EXCEPT !.sector = p.sector + n]]
    \/ /\ IoErrors /\ n > 0
       /\ io' = NoIo
       /\ call' = [call EXCEPT !.phase = "end", !.position = p]

ToClusterEnd ==
    /\ call.phase = "sectors"
    /\ LET p == call.position
           n == SectorsMoved
       IN  MoveSectors(p, p.sector, n, IF call.op = "read" THEN "next" ELSE "clusters")
    /\ UNCHANGED <<chain, entry, file>>

(* Mutant: the sector is not set to 0 *)
ReadOnKeepsSector(p, remain, next) ==
    IF remain = 0 /\ next = CLUSTER_EOF THEN p ELSE [p EXCEPT !.cluster = next]

(* Where a read goes on behind a cluster whose successor is next *)
ReadOn(p, remain, next) ==
    IF remain = 0 /\ next = CLUSTER_EOF THEN [p EXCEPT !.sector = SectorsPerCluster]
                                        ELSE [p EXCEPT !.sector = 0, !.cluster = next]

ReadNext ==
    /\ call.phase = "next"
    /\ IF call.position.sector < SectorsPerCluster
       THEN call' = [call EXCEPT !.phase = "clusters"]
       ELSE LET next == NextCluster(call.position.cluster)
            IN  IF next \in Clusters \/ (call.remain = 0 /\ next = CLUSTER_EOF)
                THEN call' = [call EXCEPT !.phase = "clusters",
                                 !.position = ReadOn(call.position, call.remain, next)]
                ELSE call' = [call EXCEPT !.phase = "end"]
    /\ io' = NoIo
    /\ UNCHANGED <<chain, entry, file>>

(* Whole clusters, runs of consecutive ones at a time *)
StartGroup ==
    /\ call.phase = "clusters" /\ call.remain >= BytesPerCluster
    /\ \E p \in Position :
         /\ Advance(p)
         /\ call' = [call EXCEPT !.phase = "group", !.position = p,
                                 !.chunkEnd = p.cluster, !.chunkSize = BytesPerCluster]
    /\ io' = NoIo
    /\ UNCHANGED <<entry, file>>

(* A run is transferred and the call goes on at p in the phase phase, or   *)
(* the cache fails and the call ends                                       *)
MoveGroup(p, phase) ==
    \/ /\ Transfer(Address(call.position.cluster, 0, 0), call.chunkSize, FALSE)
       /\ call' = [call EXCEPT !.phase = phase, !.remain = @ - call.chunkSize, !.position = p,
                               !.chunkEnd = CLUSTER_FREE, !.chunkSize = 0]
    \/ /\ IoErrors
       /\ io' = NoIo
       /\ call' = [call EXCEPT !.phase = "end", !.chunkEnd = CLUSTER_FREE, !.chunkSize = 0]

ReadGroup ==
    /\ call.phase = "group" /\ call.op = "read"
    /\ LET next == NextCluster(call.chunkEnd)
           left == call.remain - call.chunkSize
           p    == [call.position EXCEPT !.cluster = call.chunkEnd]
       IN  IF next = call.chunkEnd + 1 /\ left >= BytesPerCluster
           THEN /\ call' = [call EXCEPT !.chunkEnd = next, !.chunkSize = @ + BytesPerCluster]
                /\ io' = NoIo
           ELSE IF next \in Clusters \/ (left = 0 /\ next = CLUSTER_EOF)
           THEN MoveGroup(ReadOn(p, left, next), "clusters")
           ELSE MoveGroup(call.position, "end")
    /\ UNCHANGED <<chain, entry, file>>

(* A write looks ahead for the next cluster, while more than one is left   *)
WriteGroup ==
    /\ call.phase = "group" /\ call.op = "write"
    /\ LET used  == [call.position EXCEPT !.cluster = call.chunkEnd, !.sector = SectorsPerCluster]
           ahead == call.chunkSize + BytesPerCluster < call.remain
       IN  \/ /\ ~ahead
              /\ MoveGroup(used, "clusters") /\ UNCHANGED chain
           \/ /\ ahead /\ NoNextCluster(used, call.remain)
              /\ MoveGroup(used, "end") /\ UNCHANGED chain
           \/ /\ ahead
              /\ \E p \in Position :
                   /\ CheckPosition(used, call.remain, p)
                   /\ IF p.cluster = call.chunkEnd + 1
                      THEN /\ call' = [call EXCEPT !.chunkEnd = p.cluster,
                                                   !.chunkSize = @ + BytesPerCluster]
                           /\ io' = NoIo
                      ELSE MoveGroup(p, "clusters")
    /\ UNCHANGED <<entry, file>>

(* The sectors behind the last whole cluster, from the start of a cluster  *)
Rest ==
    /\ call.phase = "clusters" /\ call.remain < BytesPerCluster
    /\ \E p \in Position :
         /\ Advance(p)
         /\ MoveSectors(p, 0, call.remain \div BytesPerSector, "last")
    /\ UNCHANGED <<entry, file>>

(* Mutant: the sector is erased in every write *)
LastErases ==
    /\ call.phase = "last"
    /\ LET p == call.position
       IN  /\ IF call.remain > 0
              THEN Transfer(Address(p.cluster, p.sector, 0), call.remain, call.op = "write")
              ELSE io' = NoIo
           /\ call' = [call EXCEPT !.phase = "end", !.remain = 0,
                                   !.position.byte = @ + call.remain]
    /\ UNCHANGED <<chain, entry, file>>

(* The bytes left, at the start of a sector.  A write that goes to the end *)
(* of the file erases the rest of the sector.                              *)
Last ==
    /\ call.phase = "last"
    /\ LET p == call.position
       IN  /\ IF call.remain > 0
              THEN Transfer(Address(p.cluster, p.sector, 0), call.remain,
                            call.op = "write" /\ call.appending)
              ELSE io' = NoIo
           /\ call' = [call EXCEPT !.phase = "end", !.remain = 0,
                                   !.position.byte = @ + call.remain]
    /\ UNCHANGED <<chain, entry, file>>

(* The disc is full: flag an error, and the phases left do nothing *)
OutOfSpace ==
    /\ call.op = "write" /\ call.phase \in {"partial", "clusters"}
    /\ NoNextCluster(call.position, call.remain)
    /\ call' = [call EXCEPT !.phase = "end"]
    /\ io' = NoIo
    /\ UNCHANGED <<chain, entry, file>>

(* The end of both calls: the positions and the size are updated *)
End ==
    /\ call.phase = "end"
    /\ LET done == call.len - call.remain
           now  == Sum32(file.currentPosition, done)
       IN  file' =
             IF call.op = "read"
             THEN [file EXCEPT !.rwPosition = call.position, !.currentPosition = now]
             ELSE IF file.append
             THEN [file EXCEPT !.modified = TRUE, !.appendPosition = call.position,
                               !.filesize = @ + done]
             ELSE [file EXCEPT !.modified = TRUE, !.rwPosition = call.position,
                               !.currentPosition = now,
                               !.filesize = IF @ < now THEN now ELSE @]
    /\ call' = NoCall
    /\ io' = NoIo
    /\ UNCHANGED <<chain, entry>>

-----------------------------------------------------------------------------
(***************************************************************************)
(* _FAT_file_extend_r: clear the bytes from the end of the file up to      *)
(* call.target, for a write behind the end or for ftruncate.               *)
(***************************************************************************)

(* The file is extended, with p as its rwPosition.  A write goes on there; *)
(* ftruncate puts the old rwPosition back and makes p the position to      *)
(* append at.                                                              *)
Extended(p) ==
    IF call.op = "write"
    THEN /\ call' = [call EXCEPT !.phase = "partial", !.position = p, !.zeros = 0]
         /\ file' = [file EXCEPT !.rwPosition = p, !.filesize = call.target]
    ELSE /\ call' = NoCall
         /\ file' = [file EXCEPT !.appendPosition = IF file.append THEN p ELSE @,
                                 !.filesize = call.target, !.modified = TRUE]

Clear(p, n) ==
    io' = [write |-> TRUE, offset |-> call.target - call.zeros,
           address |-> Address(p.cluster, p.sector, p.byte), size |-> n, erase |-> FALSE]

(* Up to the end of a sector *)
StartExtend ==
    /\ call.phase = "extend"
    /\ LET e == [EndPosition(LastOfChain, file.filesize) EXCEPT !.sector = @ % SectorsPerCluster]
           edge == file.filesize > 0 /\ e.sector = 0 /\ e.byte = 0
       IN  \E r \in Clusters :
             /\ IF edge THEN LinkFreeCluster(e.cluster, r) ELSE r = e.cluster /\ UNCHANGED chain
             /\ LET p == [e EXCEPT !.cluster = r]
                    n == Lesser(call.zeros, BytesPerSector - p.byte)
                IN  IF call.zeros + p.byte < BytesPerSector
                    THEN Clear(p, n) /\ Extended([p EXCEPT !.byte = p.byte + n])
                    ELSE /\ UNCHANGED file
                         /\ IF p.byte > 0
                            THEN /\ Clear(p, n)
                                 /\ call' = [call EXCEPT !.phase = "zero", !.zeros = @ - n,
                                       !.position = [p EXCEPT !.byte = 0, !.sector = p.sector + 1]]
                            ELSE /\ io' = NoIo
                                 /\ call' = [call EXCEPT !.phase = "zero", !.position = p]
    /\ UNCHANGED entry

(* A sector, or what is left at last *)
ClearSectors ==
    /\ call.phase = "zero"
    /\ \E p \in Position :
         /\ CheckPosition(call.position, call.zeros, p)
         /\ IF call.zeros >= BytesPerSector
            THEN /\ Clear(p, BytesPerSector)
                 /\ call' = [call EXCEPT !.zeros = @ - BytesPerSector,
                                         !.position = [p EXCEPT !.sector = p.sector + 1]]
                 /\ UNCHANGED file
            ELSE /\ IF call.zeros > 0 THEN Clear([p EXCEPT !.byte = 0], call.zeros) ELSE io' = NoIo
                 /\ Extended(IF call.zeros > 0 THEN [p EXCEPT !.byte = call.zeros] ELSE p)
    /\ UNCHANGED entry

(* The disc is full.  The write is given up; ftruncate fails but has set   *)
(* the size all the same, and the rwPosition as the one to append at.      *)
ExtendFails ==
    /\ \/ /\ call.phase = "extend"
          /\ file.filesize > 0 /\ file.filesize % BytesPerCluster = 0
          /\ NoFreeCluster(LastOfChain)
       \/ call.phase = "zero" /\ NoNextCluster(call.position, call.zeros)
    /\ file' = IF call.op = "write" THEN file
               ELSE [file EXCEPT !.appendPosition = IF file.append THEN file.rwPosition ELSE @,
                                 !.filesize = call.target, !.modified = TRUE]
    /\ call' = NoCall
    /\ io' = NoIo
    /\ UNCHANGED <<chain, entry>>

(* _FAT_ftruncate_r to a greater size *)
Grow(newSize) ==
    /\ Ready /\ Makes("grow") /\ newSize \in file.filesize + 1 .. MaxExtend
    /\ \/ chain # <<>> /\ UNCHANGED <<chain, file>>
       \/ \E r \in Clusters :
            /\ chain = <<>> /\ LinkFreeCluster(CLUSTER_FREE, r)
            /\ file' = [file EXCEPT !.rwPosition = PositionAt(r)]
    /\ call' = [NoCall EXCEPT !.phase = "extend", !.op = "grow", !.target = newSize,
                              !.zeros = newSize - file.filesize]
    /\ io' = NoIo
    /\ UNCHANGED entry

(* The clusters that ftruncate leaves *)
ChainLength(newSize) ==
    IF newSize = 0 THEN 0 ELSE (newSize - 1) \div BytesPerCluster + 1

(* _FAT_ftruncate_r to a smaller size, or the same: _FAT_fat_clearLinks or *)
(* _FAT_fat_trimChain cut the chain                                        *)
Shrink(newSize) ==
    /\ Ready /\ Makes("shrink") /\ newSize <= file.filesize
    /\ chain' = IF newSize < file.filesize
                THEN SubSeq(chain, 1, Lesser(Len(chain), ChainLength(newSize))) ELSE chain
    /\ file' = [file EXCEPT !.filesize = newSize, !.modified = TRUE,
          !.appendPosition = IF newSize = file.filesize THEN @
                             ELSE IF newSize = 0 THEN PositionAt(CLUSTER_FREE)
                             ELSE IF file.append THEN EndPosition(LastOfChain', newSize) ELSE @]
    /\ io' = NoIo
    /\ UNCHANGED <<entry, call>>

-----------------------------------------------------------------------------
(* _FAT_seek_r, to an offset that its arguments make up *)

(* Follow the chain n clusters from c on, as far as it goes *)
Follow(c, n) ==
    LET ahead == IF c \in Chained THEN Len(chain) - IndexOf(c) ELSE 0
        m     == IF n > 0 THEN Lesser(n, ahead) ELSE 0
    IN  [cluster |-> IF m > 0 THEN chain[IndexOf(c) + m] ELSE c, left |-> n - m]

(* Mutant: a position at the end of a cluster is taken for the next one *)
CurrentCountUnadjusted == file.currentPosition \div BytesPerCluster

(* The index of the cluster of the current position *)
CurrentCount ==
    file.currentPosition \div BytesPerCluster
    - IF file.rwPosition.sector = SectorsPerCluster THEN 1 ELSE 0

SeekInside(position) ==
    LET forward == position >= file.currentPosition
        found   == IF forward
                   THEN Follow(file.rwPosition.cluster, position \div BytesPerCluster - CurrentCount)
                   ELSE Follow(StartCluster, position \div BytesPerCluster)
        p       == [cluster |-> found.cluster,
                    sector  |-> (position % BytesPerCluster) \div BytesPerSector,
                    byte    |-> position % BytesPerSector]
    IN  IF found.left <= 0
        THEN file' = [file EXCEPT !.rwPosition = p, !.currentPosition = position]
        ELSE IF found.left = 1 /\ file.filesize = position /\ p.sector = 0
        THEN file' = [file EXCEPT !.currentPosition = position,
                         !.rwPosition = [p EXCEPT !.sector = SectorsPerCluster, !.byte = 0]]
        ELSE file' = [file EXCEPT !.rwPosition.sector = p.sector, !.rwPosition.byte = p.byte]

Seek(position) ==
    /\ Ready
    /\ IF position <= file.filesize THEN Makes("seek")
       ELSE Makes("seekPast") /\ position <= MaxExtend
    /\ IF position <= file.filesize /\ chain # <<>>
       THEN SeekInside(position)
       ELSE file' = [file EXCEPT !.currentPosition = position]
    /\ io' = NoIo
    /\ UNCHANGED <<chain, entry, call>>

-----------------------------------------------------------------------------
Steps ==
    /\ \/ Partial \/ ToClusterEnd \/ ReadNext \/ StartGroup \/ ReadGroup \/ WriteGroup
       \/ Rest \/ Last \/ OutOfSpace \/ End \/ StartExtend \/ ClearSectors \/ ExtendFails
    /\ UNCHANGED lost

Requests ==
    /\ \/ Close \/ Fsync
       \/ \E n \in Sizes : Read(n) \/ Write(n) \/ Seek(n) \/ Shrink(n) \/ Grow(n)
    /\ UNCHANGED lost

Next == (\E mode \in OpenModes : Open(mode)) \/ Requests \/ Steps

Spec == Init /\ [][Next]_vars

FairSpec == Spec /\ WF_vars(Steps)
=============================================================================
