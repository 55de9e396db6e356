------------------------------ MODULE FatCache ------------------------------
(***************************************************************************)
(* The sector cache of libfat (source/cache.c, source/cache.h) over the    *)
(* disc interface (source/disc.h).                                         *)
(*                                                                         *)
(* Everything libfat reads from or writes to a partition, except the file  *)
(* system information sector, goes through this cache.  A call runs under  *)
(* the partition's lock, so calls do not overlap; what makes the cache     *)
(* hard is that a call on several sectors proceeds page by page, that each *)
(* page may first have to evict another one, and that every disc transfer  *)
(* on the way can fail, or the power can go, between any two steps.        *)
(*                                                                         *)
(* One step is one iteration of a loop of the code: one page of            *)
(* readSectors, writeSectors or flush.                                     *)
(***************************************************************************)
EXTENDS Integers, FiniteSets

CONSTANTS
    NumberOfPages,    \* cache->numberOfPages
    SectorsPerPage,   \* cache->sectorsPerPage
    EndOfPartition,   \* cache->endOfPartition
    BytesPerSector,   \* cache->bytesPerSector
    ByteValues,       \* the values of a byte that are told apart, with 0
    AccessMax,        \* UINT_MAX, as the greatest value of accessCounter
    CACHE_FREE,       \* UINT_MAX, as the sector of a page that holds nothing
    FirstBytes,       \* bound: the values of the bytes on the disc at first
    CallSectors,      \* bound: the sectors that calls are made for
    MaxTransfer,      \* bound: most sectors in one readSectors / writeSectors
    TornReads         \* may a failed disc read leave part of its buffer filled?

ASSUME CacheAssumption ==
    /\ NumberOfPages \in Nat /\ NumberOfPages >= 2
    /\ SectorsPerPage \in Nat \ {0}
    /\ EndOfPartition \in Nat \ {0}
    /\ BytesPerSector \in Nat \ {0}
    /\ 0 \in ByteValues
    /\ AccessMax \in Nat \ {0}
    /\ CACHE_FREE \in Nat /\ CACHE_FREE >= EndOfPartition + SectorsPerPage
    /\ FirstBytes \subseteq ByteValues
    /\ CallSectors \subseteq 0 .. EndOfPartition - 1
    /\ MaxTransfer \in Nat \ {0}
    /\ TornReads \in BOOLEAN

Pages   == 0 .. NumberOfPages - 1
Sectors == 0 .. EndOfPartition - 1
Slots   == 0 .. SectorsPerPage - 1
Offsets == 0 .. BytesPerSector - 1
Content == [Offsets -> ByteValues]

(* memset (..., 0, bytesPerSector) *)
Erased == [o \in Offsets |-> 0]

CacheEntry == [sector : Nat, count : Nat, last_access : 0 .. AccessMax,
               dirty : BOOLEAN, cache : [Slots -> Content]]

(* The calls that walk over pages, and the ones that touch a single one *)
FlushOps   == {"flush", "invalidate", "destructor"}
PartialOps == {"readPartialSector", "writePartialSector", "eraseWritePartialSector"}
Ops        == FlushOps \cup PartialOps \cup {"none", "readSectors", "writeSectors"}

Buffer == [0 .. MaxTransfer - 1 -> Content]
NoData == [i \in 0 .. MaxTransfer - 1 |-> Erased]

VARIABLES
    disc,          \* the sectors on the medium: what a crash leaves
    cacheEntries,  \* cache->cacheEntries
    accessCounter, \* the static accessCounter of cache.c
    call           \* the last call: its arguments, its progress, its result

vars == <<disc, cacheEntries, accessCounter, call>>

(***************************************************************************)
(* call.sector is the sector the call was made for, call.numSectors how    *)
(* many sectors it was to transfer, call.done how many sectors (for a      *)
(* flush: how many pages) its loop is through with, call.buffer the data   *)
(* read so far or to be written.                                           *)
(***************************************************************************)
Call == [op : Ops, sector : Sectors, numSectors : 0 .. MaxTransfer, done : Nat,
         buffer : Buffer, result : {"pending", "true", "false"}]

NewCall(op, s, n, b) ==
    [op |-> op, sector |-> s, numSectors |-> n, done |-> 0, buffer |-> b,
     result |-> "pending"]

(* What is left of a call on several sectors or pages that has returned r *)
Return(r) == call' = [NewCall(call.op, 0, 0, NoData) EXCEPT !.result = r]

(* A page as the constructor makes it, and as invalidate leaves it.  The   *)
(* bytes a buffer holds beyond its page's count are never read: they are   *)
(* Erased in the model.                                                    *)
FreePage == [sector |-> CACHE_FREE, count |-> 0, last_access |-> 0,
             dirty |-> FALSE, cache |-> [i \in Slots |-> Erased]]

Init ==
    /\ disc \in [Sectors -> [Offsets -> FirstBytes]]
    /\ cacheEntries = [p \in Pages |-> FreePage]
    /\ accessCounter = 0
    /\ call = [NewCall("none", 0, 0, NoData) EXCEPT !.result = "true"]

-----------------------------------------------------------------------------
(* _FAT_cache_getPage *)

AccessTime == (accessCounter + 1) % (AccessMax + 1)

Holds(e, s) == e.sector <= s /\ s < e.sector + e.count

(* The scan stops at the first page that holds the sector *)
Hit(p, s) ==
    /\ Holds(cacheEntries[p], s)
    /\ \A q \in Pages : q < p => ~Holds(cacheEntries[q], s)

(* Mutant: only the first sector of a page is found *)
MissFirstSector(s) == \A p \in Pages : cacheEntries[p].sector # s

Miss(s) == \A p \in Pages : ~Holds(cacheEntries[p], s)

IsFree(p) == cacheEntries[p].sector = CACHE_FREE

(***************************************************************************)
(* The page a miss reuses: the first free page or, if there is none, the   *)
(* first page with the smallest last_access (page 0 when every last_access *)
(* is UINT_MAX, which is the first smallest then).                         *)
(***************************************************************************)
Victim(v) ==
    \/ /\ IsFree(v)
       /\ \A q \in Pages : q < v => ~IsFree(q)
    \/ /\ \A q \in Pages : ~IsFree(q)
       /\ \A q \in Pages :
            /\ cacheEntries[v].last_access <= cacheEntries[q].last_access
            /\ q < v => cacheEntries[v].last_access < cacheEntries[q].last_access

GetsPage(p, s) == Hit(p, s) \/ (Miss(s) /\ Victim(p))

Evicts(p, s) == Miss(s) /\ ~IsFree(p) /\ cacheEntries[p].dirty

(* Mutant: the last sector of a page is not written *)
WrittenSectorsButLast(e) == {s \in Sectors : Holds(e, s) /\ s + 1 < e.sector + e.count}

(* _FAT_disc_writeSectors of page e, of which the sectors in W arrive *)
WrittenSectors(e) == {s \in Sectors : Holds(e, s)}

WriteBack(e, W) ==
    [s \in Sectors |-> IF s \in W THEN e.cache[s - e.sector] ELSE disc[s]]

(* Mutant: the page is not written before it is reused *)
DiscAfterNoWrite(p, s) == disc

DiscAfter(p, s) ==
    IF Evicts(p, s) THEN WriteBack(cacheEntries[p], WrittenSectors(cacheEntries[p]))
                    ELSE disc

(* The page that sector s belongs to, aligned to the page size and cut off *)
(* at the end of the partition                                             *)
BaseSector(s) == (s \div SectorsPerPage) * SectorsPerPage

PageCount(b) == IF b + SectorsPerPage > EndOfPartition THEN EndOfPartition - b
                                                       ELSE SectorsPerPage

(* _FAT_disc_readSectors of the page at b, into its buffer *)
FilledSlots(b) == {i \in Slots : i < PageCount(b)}

ReadFrom(d, b) ==
    [i \in Slots |-> IF i \in FilledSlots(b) THEN d[b + i] ELSE Erased]

(* The page getPage returns for s, when page p is hit or reused *)
EntryAfter(p, s) ==
    LET e == cacheEntries[p]
        b == BaseSector(s)
    IN  IF Miss(s)
        THEN [sector      |-> b,
              count       |-> PageCount(b),
              last_access |-> AccessTime,
              dirty       |-> IF Evicts(p, s) THEN FALSE ELSE e.dirty,
              cache       |-> ReadFrom(DiscAfter(p, s), b)]
        ELSE [e EXCEPT !.last_access = AccessTime]

(* Mutants: the page is marked clean before the write has succeeded; it    *)
(* gets its new label before the read has                                  *)
EvictionFailsClean(s) ==
    \E v \in Pages :
        /\ Miss(s) /\ Victim(v) /\ Evicts(v, s)
        /\ UNCHANGED disc
        /\ cacheEntries' = [cacheEntries EXCEPT ![v].dirty = FALSE]

LoadFailsLabelled(s) ==
    \E v \in Pages :
        /\ Miss(s) /\ Victim(v)
        /\ disc' = DiscAfter(v, s)
        /\ cacheEntries' = [cacheEntries EXCEPT
              ![v].dirty = FALSE, ![v].sector = BaseSector(s), ![v].count = PageCount(BaseSector(s))]

(***************************************************************************)
(* getPage returns NULL: the write that would free the page failed, and    *)
(* the page stays as it was, or the read that would fill it failed, and    *)
(* the page keeps its old sector and count although it is clean by now and *)
(* its buffer may be overwritten in part.                                  *)
(***************************************************************************)
EvictionFails(s) ==
    \E v \in Pages :
        /\ Miss(s) /\ Victim(v) /\ Evicts(v, s)
        /\ \E W \in SUBSET WrittenSectors(cacheEntries[v]) :
              disc' = WriteBack(cacheEntries[v], W)
        /\ UNCHANGED cacheEntries

LoadFails(s) ==
    \E v \in Pages :
        /\ Miss(s) /\ Victim(v)
        /\ disc' = DiscAfter(v, s)
        /\ \E T \in IF TornReads THEN SUBSET FilledSlots(BaseSector(s)) ELSE {{}} :
              cacheEntries' = [cacheEntries EXCEPT
                  ![v].dirty = IF Evicts(v, s) THEN FALSE ELSE @,
                  ![v].cache = [i \in Slots |->
                      IF i \in T THEN disc'[BaseSector(s) + i] ELSE @[i]]]

-----------------------------------------------------------------------------
(* _FAT_cache_readSectors and _FAT_cache_writeSectors *)

Returned == call.result # "pending"

Start(op) ==
    /\ Returned
    /\ UNCHANGED <<disc, cacheEntries, accessCounter>>
    /\ \E s \in CallSectors, n \in 0 .. MaxTransfer, b \in Buffer :
         /\ s + n <= EndOfPartition
         /\ \A i \in 0 .. MaxTransfer - 1 :
              (op = "readSectors" \/ i >= n) => b[i] = Erased
         /\ call' = NewCall(op, s, n, b)

Running(op) == call.op = op /\ call.result = "pending"

(* The sector the loop has come to, and how many of the sectors still to   *)
(* be transferred its page e holds                                         *)
Current == call.sector + call.done

(* Mutants: the sectors left to transfer do not bound it; one too few *)
ChunkOfPage(e) == e.count - (Current - e.sector)

ChunkShort(e) ==
    LET left == call.numSectors - call.done
        here == e.count - (Current - e.sector) - 1
    IN  IF here > left THEN left ELSE here

Chunk(e) ==
    LET left == call.numSectors - call.done
        here == e.count - (Current - e.sector)
    IN  IF here > left THEN left ELSE here

(* The iteration of the loop that transfers, through the page p *)
ReadPage(p) ==
    LET e == EntryAfter(p, Current)
        n == Chunk(e)
    IN  /\ GetsPage(p, Current)
        /\ disc' = DiscAfter(p, Current)
        /\ cacheEntries' = [cacheEntries EXCEPT ![p] = e]
        /\ accessCounter' = AccessTime
        /\ call' = [call EXCEPT
              !.done = @ + n,
              !.buffer = [i \in DOMAIN @ |->
                  IF i >= call.done /\ i < call.done + n
                  THEN e.cache[call.sector + i - e.sector] ELSE @[i]]]

WritePage(p) ==
    LET e == EntryAfter(p, Current)
        n == Chunk(e)
        k == Current - e.sector
    IN  /\ GetsPage(p, Current)
        /\ disc' = DiscAfter(p, Current)
        /\ cacheEntries' = [cacheEntries EXCEPT ![p] =
              [e EXCEPT !.dirty = TRUE,
                        !.cache = [i \in Slots |->
                            IF i >= k /\ i < k + n THEN call.buffer[call.done + i - k]
                                                   ELSE e.cache[i]]]]
        /\ accessCounter' = AccessTime
        /\ call' = [call EXCEPT !.done = @ + n]

TransferReturns(op) ==
    /\ Running(op) /\ call.done = call.numSectors
    /\ Return("true")
    /\ UNCHANGED <<disc, cacheEntries, accessCounter>>

TransferFails(op) ==
    /\ Running(op) /\ call.done < call.numSectors
    /\ EvictionFails(Current) \/ LoadFails(Current)
    /\ Return("false")
    /\ UNCHANGED accessCounter

ReadSectors ==
    \/ Start("readSectors")
    \/ /\ Running("readSectors") /\ call.done < call.numSectors
       /\ \E p \in Pages : ReadPage(p)
    \/ TransferFails("readSectors")
    \/ TransferReturns("readSectors")

WriteSectors ==
    \/ Start("writeSectors")
    \/ /\ Running("writeSectors") /\ call.done < call.numSectors
       /\ \E p \in Pages : WritePage(p)
    \/ TransferFails("writeSectors")
    \/ TransferReturns("writeSectors")

-----------------------------------------------------------------------------
(***************************************************************************)
(* The calls on part of one sector.  Their data is a sector image c of     *)
(* which the first size bytes count.                                       *)
(***************************************************************************)

PartialCall(op, s, c, ok) ==
    [op |-> op, sector |-> s, numSectors |-> 0, done |-> 0,
     buffer |-> [NoData EXCEPT ![0] = c],
     result |-> IF ok THEN "true" ELSE "false"]

(* What the three of them have in common: the check of the arguments, and  *)
(* getPage, which fails or gives page p; the call makes it e.              *)
PartialFails(op, s, offset, size) ==
    /\ call' = PartialCall(op, 0, Erased, FALSE)
    /\ UNCHANGED accessCounter
    /\ IF offset + size > BytesPerSector
       THEN UNCHANGED <<disc, cacheEntries>>
       ELSE EvictionFails(s) \/ LoadFails(s)

Patched(old, c, offset, size) ==
    [o \in Offsets |-> IF o >= offset /\ o < offset + size THEN c[o - offset] ELSE old[o]]

PartialSucceeds(op, s, offset, size, p, e, c) ==
    /\ offset + size <= BytesPerSector
    /\ GetsPage(p, s)
    /\ disc' = DiscAfter(p, s)
    /\ cacheEntries' = [cacheEntries EXCEPT ![p] = e]
    /\ accessCounter' = AccessTime
    /\ call' = PartialCall(op, s, c, TRUE)

ReadPartialSector(s, offset, size) ==
    \E p \in Pages :
        LET e == EntryAfter(p, s)
        IN  PartialSucceeds("readPartialSector", s, offset, size, p, e,
              [o \in Offsets |-> IF o < size THEN e.cache[s - e.sector][offset + o] ELSE 0])

(* The page with the content x for sector s *)
PatchedPage(e, s, x) ==
    [e EXCEPT !.dirty = TRUE,
              !.cache = [i \in Slots |-> IF i = s - e.sector THEN x ELSE e.cache[i]]]

WritePartialSector(s, offset, size, c) ==
    \E p \in Pages :
        LET e == EntryAfter(p, s)
        IN  PartialSucceeds("writePartialSector", s, offset, size, p,
              PatchedPage(e, s, Patched(e.cache[s - e.sector], c, offset, size)), c)

EraseWritePartialSector(s, offset, size, c) ==
    \E p \in Pages :
        PartialSucceeds("eraseWritePartialSector", s, offset, size, p,
            PatchedPage(EntryAfter(p, s), s, Patched(Erased, c, offset, size)), c)

(* The bytes of a short write beyond its size do not count *)
PartialSector ==
    /\ Returned
    /\ \E s \in CallSectors, offset \in Offsets, size \in 1 .. BytesPerSector :
         \/ \E op \in PartialOps : PartialFails(op, s, offset, size)
         \/ ReadPartialSector(s, offset, size)
         \/ \E c \in Content :
              /\ \A o \in Offsets : o >= size => c[o] = 0
              /\ \/ WritePartialSector(s, offset, size, c)
                 \/ EraseWritePartialSector(s, offset, size, c)

-----------------------------------------------------------------------------
(***************************************************************************)
(* _FAT_cache_flush, and the two calls that flush, ignore whether that     *)
(* worked, and forget all pages: _FAT_cache_invalidate, and the destructor *)
(* (of an unmount) with the constructor of the next mount.                 *)
(***************************************************************************)

StartFlush ==
    /\ Returned
    /\ \E op \in FlushOps : call' = NewCall(op, 0, 0, NoData)
    /\ UNCHANGED <<disc, cacheEntries, accessCounter>>

FlushRunning == call.op \in FlushOps /\ call.result = "pending"

FlushPage ==
    LET p == call.done
    IN  /\ FlushRunning /\ p < NumberOfPages
        /\ disc' = IF cacheEntries[p].dirty
                   THEN WriteBack(cacheEntries[p], WrittenSectors(cacheEntries[p]))
                   ELSE disc
        /\ cacheEntries' = [cacheEntries EXCEPT ![p].dirty = FALSE]
        /\ call' = [call EXCEPT !.done = p + 1]
        /\ UNCHANGED accessCounter

(* flush itself returns false; its two callers go on to forget the pages *)
FlushFails ==
    LET p == call.done
    IN  /\ FlushRunning /\ p < NumberOfPages /\ cacheEntries[p].dirty
        /\ \E W \in SUBSET WrittenSectors(cacheEntries[p]) :
              disc' = WriteBack(cacheEntries[p], W)
        /\ IF call.op = "flush" THEN Return("false")
                                ELSE call' = [call EXCEPT !.done = NumberOfPages]
        /\ UNCHANGED <<cacheEntries, accessCounter>>

FlushReturns ==
    /\ Running("flush") /\ call.done = NumberOfPages
    /\ Return("true")
    /\ UNCHANGED <<disc, cacheEntries, accessCounter>>

Forget ==
    /\ FlushRunning /\ call.op # "flush" /\ call.done = NumberOfPages
    /\ cacheEntries' = [p \in Pages |-> FreePage]
    /\ Return("true")
    /\ UNCHANGED <<disc, accessCounter>>

Flush == StartFlush \/ FlushPage \/ FlushFails \/ FlushReturns \/ Forget

(* The power goes, at any moment, and the program starts again *)
Crash ==
    /\ cacheEntries' = [p \in Pages |-> FreePage]
    /\ accessCounter' = 0
    /\ call' = [NewCall("none", 0, 0, NoData) EXCEPT !.result = "true"]
    /\ UNCHANGED disc

Next == ReadSectors \/ WriteSectors \/ PartialSector \/ Flush \/ Crash

Spec == Init /\ [][Next]_vars

(* A call that has begun goes on until it returns *)
Progress == ~Returned /\ (ReadSectors \/ WriteSectors \/ Flush)

FairSpec == Spec /\ WF_vars(Progress)
=============================================================================
