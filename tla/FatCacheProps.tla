--------------------------- MODULE FatCacheProps ---------------------------
(***************************************************************************)
(* The properties of the sector cache, and its refinement of BlockStore.   *)
(***************************************************************************)
EXTENDS FatCache

(* What a read of the whole partition would return, with the disc d and    *)
(* the pages ce: the page that holds a sector, or the disc if none does.   *)
ViewOf(d, ce) == [s \in Sectors |->
    IF \E p \in Pages : Holds(ce[p], s)
    THEN LET e == ce[CHOOSE p \in Pages : Holds(ce[p], s)]
         IN  e.cache[s - e.sector]
    ELSE d[s]]

View == ViewOf(disc, cacheEntries)

(* Type correctness of the cache (struct CACHE, struct CACHE_ENTRY).  The  *)
(* done counter of a call stays within what its loop runs over.            *)
TypeOK ==
    /\ disc \in [Sectors -> Content]
    /\ cacheEntries \in [Pages -> CacheEntry]
    /\ accessCounter \in 0 .. AccessMax
    /\ call \in Call
    /\ call.sector + call.numSectors <= EndOfPartition
    /\ call.done <= IF call.op \in FlushOps THEN NumberOfPages ELSE call.numSectors

(* A page is free and clean, or it is one whole aligned page of the        *)
(* partition, and no two pages hold the same sectors: getPage may stop at  *)
(* the first hit.                                                          *)
PageIsFree(e) == e.sector = CACHE_FREE /\ e.count = 0 /\ ~e.dirty

PageIsLoaded(e) ==
    /\ e.sector \in Sectors
    /\ e.sector = BaseSector(e.sector)
    /\ e.count = PageCount(e.sector)

Disjoint(ce) ==
    /\ \A p \in Pages : PageIsFree(ce[p]) \/ PageIsLoaded(ce[p])
    /\ \A p, q \in Pages :
         p # q /\ ce[p].sector # CACHE_FREE => ce[p].sector # ce[q].sector

PagesDisjoint == Disjoint(cacheEntries)

(* A page without its dirty flag equals the disc, so that eviction may     *)
(* skip the write: no failed transfer on the way of a getPage or a flush   *)
(* leaves a page that is clean and different, if a failed read leaves its  *)
(* buffer alone.                                                           *)
CleanMatch(d, ce) ==
    \A p \in Pages, s \in Sectors :
        Holds(ce[p], s) /\ ~ce[p].dirty => ce[p].cache[s - ce[p].sector] = d[s]

CleanPagesMatchDisc == ~TornReads => CleanMatch(disc, cacheEntries)

(* Whatever pages a readSectors evicts on its way, the part of the buffer  *)
(* filled so far is what the sectors hold now; and whatever a writeSectors *)
(* evicts, the part written so far reads back.                             *)
TransfersAgree ==
    call.op \in {"readSectors", "writeSectors"} =>
        \A i \in 0 .. call.done - 1 : call.buffer[i] = View[call.sector + i]

(* After _FAT_cache_flush has returned true, and until the next call, the  *)
(* disc holds everything that was written.                                 *)
FlushedIsDurable ==
    call.op = "flush" /\ call.result = "true" => disc = View

(* The pages a flush has passed are clean: it never comes back to one.     *)
FlushProgress ==
    Running("flush") => \A p \in Pages : p < call.done => ~cacheEntries[p].dirty

(* The inductive invariant: with it every property above follows.          *)
IndInv ==
    /\ TypeOK
    /\ PagesDisjoint
    /\ CleanPagesMatchDisc
    /\ FlushProgress

(* How far a flush has come does not show *)
VisibleCall == IF call.op \in FlushOps THEN [call EXCEPT !.done = 0] ELSE call

(* The cache implements the store that BlockStore specifies: evictions,    *)
(* loads, failures of either and the replacement policy are invisible to   *)
(* the callers of cache.c but for the result of the call.                  *)
Abstract == INSTANCE BlockStore WITH
    store   <- View,
    durable <- disc,
    request <- VisibleCall

ImplementsBlockStore == Abstract!BSSpec

(* Every loop over pages ends: each page that getPage returns moves a      *)
(* transfer on by at least one sector.                                     *)
CallsReturn == ~Returned ~> Returned
=============================================================================
