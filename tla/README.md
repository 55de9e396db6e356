# A verification of libfat

libfat is a library that gives C programs on small consoles the files of a FAT12, FAT16
or FAT32 volume.  This directory holds TLA+ models of it, the TLC configurations that
check them, and proofs that TLAPS checks.  Paths below are relative to `src/`.

## 1. The system

| part | source | state it keeps | operations |
|---|---|---|---|
| disc interface | `source/disc.[ch]` | none (the device) | `readSectors`, `writeSectors`, `startup`, `isInserted` |
| sector cache | `source/cache.[ch]` | pages (sector, count, last access, dirty, bytes), an access counter | `getPage`, read / write / erase-and-write of sectors and parts of sectors, `flush`, `invalidate`, constructor, destructor |
| allocation table | `source/file_allocation_table.[ch]` | the table on the disc; `firstFree`, `numberFreeCluster` in memory | `nextCluster`, `writeFatEntry`, `linkFreeCluster(Cleared)`, `clearLinks`, `trimChain`, `lastCluster`, `freeClusterCount` |
| partition | `source/partition.[ch]` | geometry, the FSinfo sector, `cwdCluster`, list of open files | find and mount a partition, read / create / write FSinfo, destroy |
| directories | `source/directory.[ch]` | 32-byte slots in a chain of clusters | scan, look up, add, remove, find a gap, make an alias |
| open files | `source/fatfile.[ch]` | `FILE_STRUCT`: size, first cluster, current position, read/write pointer, append pointer, modified flag | open, close, read, write, seek, ftruncate, fsync, fstat, attributes |
| directory calls | `source/fatdir.[ch]` | `DIR_STATE_STRUCT` of each listing | stat, unlink, rmdir, chdir, rename, mkdir, statvfs, diropen / dirreset / dirnext / dirclose |
| library | `source/libfat.c`, `include/fat.h` | the devoptab table | `fatInit`, `fatMount`, `fatUnmount` |
| lock | `source/lock.[ch]` | a mutex per partition on libogc, nothing elsewhere | init, lock, unlock, deinit |
| wcfat | `source/wcfat.c`, `include/wcfat.h` | its own: the partition found, one block of cache, a copy of a table sector; per file a pointer, the size and the runs of its clusters | a compact reader of FAT32 beside libfat: probe, list, open, read, seek |
| helpers | `bit_ops.h`, `mem_allocate.h`, `filetime.c` | none | byte order, memory, clock |

**How they interact.**  A call of the C library comes in at `fatfile.c` or `fatdir.c`,
takes the partition's lock, and calls down: directories and open files use the
allocation table and the cache, the table uses the cache, the cache uses the disc.
There are no callbacks and no messages.  Two things go past the cache: the FSinfo sector
(`partition.c:333`, `:458-514`) and the boot sector at mount time.  State is shared
through the partition: every open file and every listing holds *positions* (cluster,
sector, offset) into structures that other calls change.

**What is hard.**

* *Partial failure.*  A transfer goes page by page, each page may evict another, every
  disc transfer may fail, and most return values of the lower layers are ignored above.
* *Loss of power.*  The cache writes back late and in the order of its pages.
* *Loops over the table* that change it as they go (`clearLinks`, `trimChain`) or start
  from a hint (`linkFreeCluster`).
* *Positions at boundaries.*  A file position at the end of a cluster is written as
  "sector = sectorsPerCluster" because the next cluster may not exist yet; every branch
  of read, write, seek and truncate has to know it.
* *Directories* in which only the order of slots and a checksum tie a long name to its
  file, and which are listed while they change.
* *Stale copies:* the running count of free clusters against the FSinfo sector, that sector
  on the disc against its copy in a page of the cache, an open file against its directory
  entry.
* *Trees without a tree:* directories know each other by cluster numbers, the parent is
  an entry like others, and an open file knows its entry by a slot.
* *Threads:* only on libogc; some checks are made before the lock is taken, and an
  unmount frees the partition that others may be about to lock.

`PROJECT.json` lists the hazards line by line, each with the properties that would catch
it going wrong or the reason why none does yet.

**What makes each part right.**  Cache: one array of sectors, to which nothing is added
but a delay before it is durable.  Table: a pool of clusters, chains that never meet, an
exact free count.  Open file: every byte goes to the place its offset has in the chain.
Directory: a table of names.  Volume: a tree of files and directories, whose clusters
have one owner each.  Library: a list of open files that misses none, and calls that
return.  The array, the pool, the table of names and the tree are abstract specifications
here (`BlockStore`, `ClusterPool`, `NameTable`, `FileTree`).

## 2. The modules

| module | what it is |
|---|---|
| `FatCache` | `cache.c` over the disc |
| `BlockStore` | abstract: an array of sectors and its durable copy |
| `FatCacheProps` | properties of the cache, refinement mapping to `BlockStore` |
| `FatCacheProofs` | proofs about the cache |
| `FatTable` | chains in `file_allocation_table.c`, FSinfo in `partition.c`, `statvfs` |
| `ClusterPool` | abstract: files that own sequences of clusters |
| `FatTableProps` | properties of the table, mapping to `ClusterPool` |
| `FatTableProofs` | proofs about the table |
| `FatFile`, `FatFileProps`, `FatFileProofs` | one open file, `fatfile.c`; its properties and proofs about it |
| `FatDirectory`, `FatDirectoryProps`, `FatDirectoryProofs` | one directory, `directory.c` under open / unlink / rename / listing |
| `NameTable` | abstract: a table of names |
| `MCDirectory` | names and a symmetry for TLC |
| `FatTree`, `FatTreeProps` | several directories and open files over one allocation table: `directory.c` paths, `fatdir.c`, `fatfile.c` |
| `FileTree` | abstract: a tree of files and directories with a current directory |
| `FatTreePicture` | the inductive invariant of the tree, and what follows from it in one state |
| `FatTreeProofs` | that every call keeps it, and the theorems on the tree |
| `MCTree` | paths and a symmetry for TLC |
| `FatMount`, `FatMountProps`, `FatMountProofs` | the device table, mounting, the lock, threads and the list of open files |
| `WcFile`, `WcFileProps`, `WcFileProofs` | reading with `wcfat.c` |

`Mutant:` marks an operator that is a plausible wrong version of the definition behind
it; replacing the definition by it must break the property `PROJECT.json` names.

### FatCache

State: `disc`, `cacheEntries` (the `CACHE_ENTRY` array), `accessCounter` and `call`, the
local variables of the call in progress.  One step is one iteration of a loop: one page
of `readSectors`, `writeSectors` or a flush.  `GetsPage` is `_FAT_cache_getPage`: a hit,
or the victim it chooses (a free page, else the one with the oldest access), its
write-back, the load and the new label.  `EvictionFails` and `LoadFails` are its two
failures, with what each leaves behind.  A failed disc write leaves the sectors of the
transfer old or new, one by one; a failed read leaves the buffer alone, or part of it filled if
`TornReads`.  `Crash` loses the cache between any two steps.  The partial-sector calls
have sectors of `BytesPerSector` bytes; the little-endian wrappers are such calls with a
given size.

### FatTable

State: the table `fat` as a function from clusters to entries, `firstFree`,
`numberFreeCluster`, the FSinfo count `fsinfo`, the first cluster `start` of each file,
and `call`.  A search of `linkFreeCluster` is one step (nothing changes while it looks);
the loops of `trimChain` and `clearLinks` take one step per cluster, since they change the
table as they go.  `Unmount` and `Mount` are the destructor's FSinfo write and the reading
or creation of it; `Statvfs` belongs to `StatSpec` only.  The table is zero-filled behind
the last cluster if `SlackEntry` is 0.  `IoErrors` lets reads and writes of entries fail as
`nextCluster` and `writeFatEntry` do.

The FSinfo sector goes past the cache, but the cache can hold a copy of it: its pages are 64
sectors, aligned on the device, so that the page with the first entries of the table may
begin before the FSinfo sector.  `InfoPage` is the set of clusters whose entries are in
that page, `copy` the count in the copy and `dirty` the flag of the page.  Writing such an
entry loads and dirties the page, `CachePage` writes it back or drops it at any time, and
`Unmount` writes the sector first and flushes then, so that an old copy goes over the new
count.  `off` is a history variable: it is set by that event, and when `clearLinks` counts
a link that leads behind the table, and reset when a mount counts anew.

### FatFile

State: the file's `chain`, its directory `entry`, the `FILE_STRUCT` `file`, the call's
locals `call` and the last transfer `io` (offset in the file, address on the disc, size,
read or write, erase).  The phases of read and write (the rest of a sector, whole
sectors of a cluster, runs of clusters, the last sector) are actions of their own, as
the code goes through them; `call.phase` is where the code stands.  Data are not stored:
the properties compare the *address* of each transfer with the place that the chain
gives to its offset.  Sums are taken modulo `FILE_MAX_SIZE + 1`, which stands for 2^32.
A free cluster is taken anywhere, so that the chain may be contiguous or not.

`SyncToDisc` updates the entry, or with `IoErrors` leaves it as it was: `_FAT_syncToDisc`
ignores the results of the cache and clears the flag all the same.  A file that is opened
by an entry without its clusters has no chain then, and `lost` holds the clusters.  Two
things that failed transfers can lead to are left out.  A file whose entry still names
clusters that it has given up is not opened again (guard of `Open`).  And if the read of
the entry fails and its write does not, name and attributes of the entry are what the
stack held; the model has no name.

### FatDirectory

State: the slots `dir`, the number `spare` of clusters it can still grow by (0 is a
full volume and also the root directory of FAT16), one listing `iter`, and the last
changing `call` with its result.  A name is a member of a small set: a short name is its
own alias, a long name has a base, a number of parts, and perhaps differs from its alias
in case only.  `EntryIn` is what `getNextEntry` puts together from the slots it passes,
`GapStart` and `ClustersFor` are `findEntryGap`, `AliasFor` the choice of an alias,
`RemoveSlots` and `RemoveResult` `removeEntry` with its extra increment.  A call is one
step; a listing is a step per `dirnext`, with any call in between.

### FatTree

State: `fat`, the `slots` of every cluster read as directory entries, `rootDirCluster`
(0 on FAT16, a cluster on FAT32: both are initial states), `cwdCluster`, the open
`files` with the slot and the start cluster each remembers, and `lost`, the clusters that
a failed `mkdir` leaves allocated.  `EntryFromPath` is the walk over a path with its two
special cases (dot entries that the root does not have, cluster 0 for the root);
`ChainFrom` follows the table for a number of links, `ListedFrom` reads a directory along it
up to its end marker (`Listed` is the whole of `getNextEntry` called again and again), and
both start over from `Place`, since cluster 0 and the root's cluster are the same directory.
`EntryGap` and `LinkGrown` are the gap that `addEntry` finds and the cluster it may add.
A call is one step, since it runs under the lock.  Names take one slot: what long names
add is `FatDirectory`.  The mapping to `FileTree` forgets clusters and slots and keeps
the rows (directory, name, kind, first cluster), with one name for the root whatever its
cluster is (`NamedRows`); a file that is open for writing holds what its handle says, so
that `fsync` and `close` map to steps that change nothing.

The calls do not defend themselves, and a program can damage the volume with them.
What it must not do is written as guards of the actions, in one place of the module:
remove, rename or write by two handles a file that is open; move a directory into
another one; remove the current directory or a dot entry; change the directory bit of
an entry.  The properties hold for all other programs.

### FatMount

State: the device table `devoptab`, the `PARTITION` structs with the owner of their
lock and the head of the list of open files, the `FILE_STRUCT`s with their links, and
the call that each `thread` is in.  Finding the partition, locking and the work under
the lock are steps of their own; the walk of `_FAT_partition_destructor` is a step per
file.  Guards state what the callers have to see to: one thread per handle, one mount or
unmount at a time, and no call on a device that is being unmounted.  `FindDevice` and
`AddDevice` belong to the C library of the console; `testbench/iosupport.c` is the copy
they are translated from.  What cannot be read any more (the links of a closed handle,
handles of a freed partition that the walk has come to) is forgotten.  A sync may fail: then
`fsync` and the walk leave the file modified, `close` gives it up; `failed` is history, it
marks the files that the walk could not write.

### WcFile

State: the `chain` of the file, its `FILE_STRUCT` `fs` with the runs, and the read in
progress with its last transfer.  `Build` is the conversion of the chain to runs, link by
link, with the jump to one of the last two clusters that it takes for damage; `Kept` is what
the `FILE_STRUCT` has room for (`ChainInfos` runs, 61 in the code; the others are written
behind it, `wcfat.c:692`).  `IterateFile` is the lookup of a position in the runs.  Where
that leaves the list, the cluster is any: the code reads what lies behind it in memory.
`ClusterBlocks` is the size of a cluster and `EightBlocks` what the code takes it to be.  A
read is a step per transfer: the rest of a block, runs of blocks, the last part of a block.

## 3. The runs

| run | question | bounds |
|---|---|---|
| `cache` | Do pages stay disjoint, clean pages equal to the disc, transfers right and flushes durable, under failed transfers and power losses?  Does the cache refine `BlockStore`, and does every call return? | 2 pages of 2 sectors, 5 sectors (the last page is cut off), calls for sector 1 (inside a page) or 4 (the cut-off page), transfers of up to 2 sectors, counter wraps at 1 |
| `table_chains` | Are chains never crossed or leaked, is the count exact but for the exceptions named; is a refusal only for a full volume; do the loops end; does the table refine `ClusterPool`? | clusters 2 to 4, 2 files, FAT32, zeros behind the table, the FSinfo sector in the page with the entry of cluster 2 |
| `table_statvfs` | *(violation)* Does `statvfs` report the number of free clusters? | 3 clusters |
| `file_write` | Do writes, seeks, truncations and extensions put every byte in its place and keep pointers, size and chain in agreement, also when the volume runs full within a write? | 3 clusters of 2 sectors of 2 bytes, sizes up to 14, extensions up to 12 |
| `file_read` | Do reads fetch their bytes from the right places inside the file, and does every call return, when transfers may fail? | 3 clusters, sizes up to 13 |
| `file_truncate` | *(violation)* ... after a file is cut where its pointer stands? | 3 clusters |
| `file_boundary` | *(violation)* ... for a short read after a write that ended a cluster? | 3 clusters |
| `dir_names` | Is the directory a table of names, are refusals justified, does a listing give each file that stays once? | up to 3 clusters of 2 slots, 3 files, 5 names, 2 tails |
| `tree` | Is the volume a tree, has every cluster one owner, do paths mean what the tree says, does an open file find its entry again? | 2 names, 2 clusters and the root's, 4 slots in a cluster, 2 handles, files of up to 2 clusters, paths of one part and absolute ones of two |
| `wc` | Do the runs stand for the chain, does a read advance by what it returns, and is it right where the lookup stays inside a run? | 4 clusters, every chain of up to 4 clusters of 4 blocks of 2 bytes, of which the code sees 2, room for 2 runs, reads of up to 13 bytes |
| `wc_read` | *(violation)* ... and at the last cluster of a run? | 5 clusters, chains of up to 4 clusters of 2 blocks, which is what the code sees, room for 3 runs, reads of up to 9 bytes |
| `mount` | Is the list of open files exact, does an unmount reach every change, does every call return? | 2 threads, 2 devices, 3 handles |

**Why the bounds are enough to meet the cases.**  Two pages are the least with which a
transfer evicts a page that the same transfer needs, and with a counter that wraps at 1 the
page just used can be the next victim.  A partition of 5 sectors has an aligned, a second,
and a cut-off page; `CallSectors` lets calls begin at sector 1 or 4 only, so that a transfer
begins in the middle of a page and goes over to the next, or meets the end of the
partition.  Sectors have one byte, so TLC meets the calls on part of a sector only with
whole sectors: that a patch changes its own bytes and no others, and that a range that
leaves the sector is refused, is covered by the proof of `CacheImplementsStore`, for every
sector size and any length of transfers.  Three clusters in the table hold a chain of two
and one of one, in every order, and dropping, trimming and growing them in turn goes through
every interleaving of two chains, a full table, a hint behind its end and the zeros there;
one entry in the page of the FSinfo sector and two outside it tell writes that dirty the
page from others.  Three clusters of two sectors of two bytes give every branch of read and
write: a part of a sector, whole sectors of a cluster, runs of adjacent clusters, a run that
is broken, and a last part of a sector; sizes exceed the three clusters by half a cluster. 
In the directory a long name of two parts does not fit the gap of one, two tails can be used
up, an addition can need two clusters and find one, and a name can be split over a cluster
boundary.  In the tree, four slots hold the two dot entries, one name and the end: the
second name makes a directory grow into the last cluster, or `mkdir` fail with its cluster
allocated, and directories nest two deep.  Three handles make a file in the middle of the
list, two devices two locks and two lists.  Four clusters in any order give runs of every
length up to four, more jumps than there is room for runs, and the jumps that
`build_cluster_chain` refuses; clusters of more blocks than the code takes them to have give
positions in both halves, of which only the first is looked up rightly.  `MaxLen` is longer
than a cluster by more than half of one, so that a transfer goes over a boundary in one
piece.

**Fairness.**  `CallsReturn` (cache, file) and `LoopsEnd` (table) assume weak fairness
of the steps of a call that has begun: the code of a call runs on its own, in one thread
and under the lock, once it was called.  `CallsReturn` of `FatMount` assumes the same of
every thread, and strong fairness of taking the lock: a thread that waits may see it
taken by others many times, and the mutex of libogc queues the threads that wait for it.
Nothing obliges a program to make a call.  Transfers may fail as often as they like in
`cache` and `file_read`.

**Symmetry.**  `dir_names` takes files, `tree` names, clusters and handles to be
interchangeable; both check invariants and refinements of safety specifications only.

**Calls that a run leaves out.**  `FatFile` takes the calls to make from `PlainCalls`
and `AppendCalls`.  Passing runs leave out sequences for which the code does not keep a
property, so that the property says what it can for the rest: in `file_write`, "shrink"
(see `file_truncate`) and "grow" of a file without `O_APPEND`, and extensions for which
there is no room (`MaxExtend`); in `file_read`, "write" without `O_APPEND` (see
`file_boundary`).  `AdjacentReadsHitFile` leaves out the last cluster of a run (see
`wc_read`) and the blocks of a cluster that the code takes for others (`IsItsBlock`).
`StopsOnlyWhenFull` is about the length that a call was fitted to: `_FAT_write_r` cuts a
length to what the size of the file lacks of 4 GB (`fatfile.c:742`), wherever it writes, and
so may fall short of what it was asked for with clusters free.  The hazards with a note
name each of these.

### Where the code and its comments disagree

1. `table_statvfs`: on FAT32 `statvfs` overwrites the running count of free clusters by
   the one on the disc, which only an unmount writes.
2. `file_truncate`: `ftruncate` to the place where the read/write pointer stands, on a
   cluster boundary, leaves the pointer in the freed cluster.
3. `file_boundary`: a short read after a write that ended a cluster reads the sector
   behind that cluster.
4. `wc_read`: wcfat counts a run one cluster short when it looks a position up; the last
   cluster of each run, and every file of one cluster, is read from somewhere else.

`PROJECT.json` quotes the comments.  The models show four more that no run is spent on:

* `partition.c:332-336`: the destructor writes the FSinfo sector ("Write out the fs info
  sector") and flushes the cache then.  If a dirty page of the table holds a copy of that
  sector, the flush puts the old count back, on an ordinary unmount.  `FreeCountIsExact`
  without `~off` fails for it.
* `file_allocation_table.c:314`: a chain that links to the number behind the last cluster,
  which a full table with zeros behind it hands out (239), is one cluster longer for
  `clearLinks`, and the count one too high.  `linkFreeClusterCleared` (277) takes that number
  for a cluster besides and clears its sectors, behind the end of the data area, before its
  callers refuse it; sectors are not in `FatTable`.
* `cache.h:118-121`: "Clear out the contents of the cache without writing any dirty sectors
  first".  `_FAT_cache_invalidate` (`cache.c:316`) writes them first, and drops those that it
  could not write.  `FatCache` follows the code; `BlockStore` lets a store be given up with
  or without a write, so that neither is a counterexample.
* `fatfile.c:340`: `_FAT_syncToDisc` "Returns 0 on success, an error code on failure", and
  ignores whether the entry could be read and written (351, 374).  `ClosedFileIsFound` fails
  for it with `IoErrors`.

## 4. What is proved

Theorems hold for every value of the constants that the ASSUMEs allow.  Where a theorem
needs more than that, its hypothesis is part of its statement:

| module | theorems | hypothesis |
|---|---|---|
| `FatCacheProofs` | `TypeCorrect`, `PagesStayDisjoint` | none |
| | `CleanPagesStayClean`, `FlushIsDurable`, `TransfersStayRight`, `CacheImplementsStore` | `~TornReads` |
| `FatTableProofs` | `TableTypeCorrect`, `RefusalMeansFull` | none |
| | `TablesStayInOrder`, `NothingIsLost`, `TableImplementsPool` | `~IoErrors` |
| | `FreeCountStaysExact` | `~IoErrors`, no `statvfs` |
| `FatMountProofs` | `MountListExact`, `MountSavesChanges`, `MountExclusion` | none |
| `FatFileProofs` | `FileTypes`, `FileWritesInPlace`, `FileEraseSpares`, `FilePosition`, `FileAppendPosition`, `FileChainFitsSize`, `FileFoundAgain`, `FileStopsOnlyWhenFull` | `Setting` |
| | `FileReadsInPlace` | `ReadSetting` |
| `FatDirectoryProofs` | `DirectoryTypes`, `DirectoryNames`, `DirectoryRoom`, `DirectoryRemovals`, `DirectoryListing`, `DirectoryIsTable` | none |
| `FatTreeProofs` | `TreeInvariance`, `OneOwnerHolds`, `HandlesHold`, `EveryWalkAgrees`, `WalkHolds`, `TreeImplementsFileTree` | none |
| `WcFileProofs` | `RunsAreTheChain`, `ReadsAdvance`, `AdjacentReadsAreRight` | none |

**Induction over data** is made with the least number at which something would fail
(lemma `Least`, from the well-foundedness of the naturals): that a recursive function is
what its equation says, and that something holds at each of its arguments, is shown for
the function at hand.  For this the recursions over chains and runs are functions of a
number (`Reach[n]`, `From[n]`, `Build[k]`, `Before[r]`, `ChainFrom[n]`, `ListedFrom[n]`,
`DirsTo[n]`).

**Cache.**  The inductive invariant `IndInv` is the conjunction of `TypeOK`,
`PagesDisjoint`, `CleanPagesMatchDisc` and `FlushProgress` (the pages a flush has passed
are clean).  `FlushProgress` is needed because `FlushedIsDurable` speaks of the moment a
flush returns, and only the pages behind it tell that they were written.  `Invariance` is
proved action by action, from lemmas on `getPage` (what a hit, an eviction and a load do
to one page and to the disc).  The argument of `TransfersStayRight` is that replacing a
page changes nothing that can be read (`View`).  `CacheImplementsStore` maps every step
to a step of `BlockStore` or to a stutter.  With a read that fails after it has filled
part of the buffer (`TornReads`) these theorems are false.

**Table.**  `TablesStayInOrder` rests on `TableInv`: chains are kept apart link by link (no
entry is linked to twice, links lead to used clusters, heads have no predecessor) with
exceptions for exactly what `clearLinks` is about to repair, and with what its loop and
`trimChain`'s know of their variables.  `FreeCountStaysExact` needs more: `clearLinks` may
count a cluster only if it was in use, hence must never come back to a cluster; `CountInv`
has a rank that grows along every link, which is what "no cycle" means without induction
over paths.  Between an unmount and the next mount it says that the count on the disc is the
number of free clusters, unless `off`: the two events that set `off` are those after which
the code has another number.  `NothingIsLost` adds `OwnedInv`: a cluster in use is the first
of a file, or is linked to, or is the one that `clearLinks` has come to.  Going back along
the links, which the rank makes an end of, every cluster in use is in the chain of a file.
`TableImplementsPool` gives each file a sequence of clusters (`ChainsOf`) of which
`ChainsInv` says that it follows the links to an end and meets no other; every step then
extends, cuts or empties one sequence, as `ClusterPool` does.  The mapping cuts a chain
where a loop has still to cut it (`CutLinks`), so that the loops map to one step and to
stutters.  If the entry behind the last one looks free, `linkFreeCluster` may hand out the
number behind the last cluster, which its callers refuse; a chain that links there ends, as
far as the pool is concerned.  `HintInv` says that this happens only when no cluster is
free.

**Mounting.**  `OpenListExact` says that there is a sequence of the open files of a
partition that both links follow.  It is inductive together with what each thread knows
where it stands (`CallState`, `WalkState`), that a lock has one owner, and that whoever
unmounts has the partition to itself.  Opening puts a file before the sequence, closing
takes one out of it, and the walk of the destructor has a place in it, before which every
file is written.  `MountExclusion` states for any number of threads that critical sections
of a partition exclude each other and do not outlive it.

**Open file.**  The theorems take any size of sectors, clusters, files and volumes.  The
invariant says for each phase of a call for what offset `call.position` stands
(`Somewhere`), whether it may be at the end of a cluster whose successor is not linked
yet, and how long the chain is (`Tight`).  The main case is a run of clusters
(`GroupState`): the transfer is right because the run is adjacent both in the chain and
on the disc.  `Setting` follows section 3 (`Calls`): reads and writes of one opening are
not mixed (`file_boundary`), `ftruncate` is for files opened with `O_APPEND`
(`file_truncate`), offsets do not wrap around; and (`Exact`) extensions find room, and
if transfers may fail, no call writes, cuts or extends the file and none opens it with
`O_TRUNC`.  The constants of `file_write` satisfy it.

`FileReadsInPlace` needs less: with `ReadSetting`, which the constants of `file_read`
satisfy, writes of a file opened with `O_APPEND` may fail half way, and extensions for want
of room.  They leave a file whose chain, size and append pointer do not agree, so the
invariant `Inv` is lost.  What is left is `Weak`: the entry has a size and, if it leads
anywhere, the first cluster of the chain, and no cluster is in the chain twice. 
`ReadInvariant` is `Weak`, and `Inv` while a file is open for reading whose chain covers its
size.  Opening such a file gives `Inv`, because every pointer is computed anew from entry
and chain, and nothing that is called on it until it is closed changes its chain or its
size.  Of a file whose chain is too short, which an extension by `ftruncate` leaves when it
finds no room, `ReadsHitFile` says nothing.

**Directory.**  `DirInv` says that the slots of a long name stand before their alias in
order, with its checksum, that nothing is behind the end, and that no file is there twice.
From it a scan finds each entry as it was put in (the loop of `getNextEntry` has a state
for each slot it has passed), `GapStart` finds free slots, and a removal frees the slots
of one entry and leaves the others.  `ListInv` relates what a listing has given to the
place where it stands.  All is for any number of slots in a cluster from 2 on (the least
a directory of the code has is 16: one sector of 512 bytes), any names and checksums.

**Tree.**  Nothing in the state of `FatTree` is a tree, and none of the three invariants is
inductive: what `OneOwner` says of the directories of the tree is kept by a call only if
the walk over the path found one of them, which is `WalkAgrees`, which needs the dot
entries of every directory, which nobody overwrites because of `OneOwner`; and a sync must
find the entry that its handle had.  `TreeInv` therefore says that the volume has a
`Picture(D, C, K, dep)`:

* `D` are the directories, and `C` gives every head (a directory, the first cluster of a
  file, a lost cluster) its chain as a sequence; chains follow the table to its end, share
  no cluster, and every cluster that is not free is in one (`ChainsOk`);
* `K` are the kids: for each place of an entry that is no dot entry the directory it is
  in, its name, and what it holds (`TreeOk`, `KidsOk`).  Names are unique in a directory,
  nodes in the volume;
* every directory but the root has dot entries that lead to itself and to its parent, by
  cluster 0 if that is the root, and no directory has anything behind its end (`DirsOk`);
* an open file is at the kid of a file, whose writer is alone and knows the start cluster,
  which the entry has too unless there are changes to write back (`HandlesOk`);
* `dep` is a number for each directory that grows from a parent to its child.  It is what
  "no cycle, and reached from the root" means without induction over paths.

`FatTreePicture` shows that the functions of the model compute what the picture says, each
for any number of clusters: `Chain(h)` is `C[h]`, `Listed` is the entries of the chain (the
end marker cuts off nothing), `LiveDirs` is `D`, a path finds what its parts mean in `K`,
`EntryGap` finds a place that no kid has.  The three invariants are then read off.
`FatTreeProofs` has one lemma for each call (`MkdirArrives`, `RenameArrives`, ...): from a
picture the call arrives in a picture, and the two trees differ by one of four steps
(`TreeSteps`), which are the steps of `FileTree` on the rows (`TreeRefines`).  The calls
are built from changes of one thing each, which have lemmas of their own: an entry put into
a gap, a directory grown by a cluster, a chain cleared, one kid more, less, or with other
contents.  The guards described under FatTree are used, as hypotheses about the program;
the constants have to satisfy `TreeAssumption` only: finitely many clusters, more than two
slots in each (the code has 16 at least), any names, handles and paths.

**wcfat.**  The runs built after k links stand for the first k clusters of the chain, and
none of them could be longer (`Stand`); a link taken for a broken chain stops this for good,
and the runs that are kept are the first of them (`StandUpTo`).  `Before` is the only
solution of its equation, hence the offsets of the runs.  In a cluster whose neighbour comes
next the lookup then finds exactly one run, and the number that remains of it is right
(`FoundInRun`); `TransferHits` is the arithmetic of blocks and clusters. 
`AdjacentReadsAreRight` takes `EightBlocks` and `ClusterBlocks` to be any numbers.  Two
things are then part of the property: that the block the code looks at is that of the
position (`IsItsBlock`), and, where the code takes clusters to be longer than they are, that
the bytes are adjacent on the disc (`IsAdjacent`).  If clusters are of 8 blocks the first
always holds and the second is not asked for.

**Only model-checked:** liveness (`CallsReturn` of the cache, the open file and mounting,
`LoopsEnd` of the table), which TLAPS does not prove.  Every other property of the passing
runs is a theorem.  The disagreements of section 3 are counterexamples of TLC.

## 5. What is not modelled

* How entries of FAT12, FAT16 and FAT32 are packed into sectors.
* The scan for partitions and the boot sector (`partition.c:107-262`): parsing of what
  is on the disc, without state of its own.  `fatInit` calls `fatMount` for each disc
  interface of the platform.
* A loss of power above the cache (between the writes of table, directory and FSinfo):
  `FatCache` has it, the modules above take a call, or a loop iteration, for one step.
* What happens to threads that wait for a lock when its partition is freed: the code
  leaves that undefined, and `FatMount` takes programs that do not do it.
* Failing transfers in `FatTree` and `WcFile`; in `FatMount` those outside of a sync.
* In `WcFile`, clusters smaller than a block, and what the runs written behind a
  `FILE_STRUCT` do to the memory there.
* Characters: case tables, UCS-2, code pages, the text of aliases.  Time stamps.
  `LIMIT_SECTORS`, which only cuts large transfers.
* The probe, the path walk and the listing of wcfat; its cache of one block, which holds
  what its sector number says as long as the disc does not fail or change.
* The driver of the test bench.

## 6. Plan

Done: cache, table, open file, one directory, the tree of directories, mounting with
threads, the reader of wcfat; proofs about all of these.  Next, in order:

1. `FatEntries`: packing of table entries; `writeFatEntry` of one entry leaves the
   others alone (proved).
2. `FatCrash`: the cache under the table and one directory, with a loss of power.
