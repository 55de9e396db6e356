--------------------------- MODULE FatCacheProofs ---------------------------
(***************************************************************************)
(* The properties of the sector cache hold for every number of pages, page *)
(* size, partition and length of a transfer, whatever disc transfers fail. *)
(*                                                                         *)
(* First what getPage, the copies and the write-backs do to the pages and  *)
(* to the view of the sectors, then one lemma per operation that its steps *)
(* keep the inductive invariant, then the theorems; last that every step   *)
(* of the cache is a step of BlockStore or leaves it alone, under the      *)
(* mapping that FatCacheProps declares.                                    *)
(***************************************************************************)
EXTENDS FatCacheProps, TLAPS

(* Division by a page size: the multiple below a number and the one above  *)
(* it.                                                                     *)
LEMMA DivMod ==
    ASSUME NEW s \in Nat, NEW k \in Nat \ {0}
    PROVE  /\ s \div k \in Nat
           /\ (s \div k) * k \in Nat
           /\ (s \div k) * k <= s
           /\ s < (s \div k) * k + k
BY Z3

(* There is only one multiple of k within k below a number.                *)
LEMMA DivUnique ==
    ASSUME NEW s \in Nat, NEW k \in Nat \ {0}, NEW q \in Nat,
           q * k <= s, s < q * k + k
    PROVE  s \div k = q
<1>1. s \div k \in Nat /\ (s \div k) * k <= s /\ s < (s \div k) * k + k
  BY DivMod
<1>2. CASE s \div k < q
  <2>1. s \div k + 1 <= q BY <1>1, <1>2
  <2>2. (s \div k + 1) * k <= q * k BY <1>1, <2>1, Z3
  <2>3. (s \div k + 1) * k = (s \div k) * k + k BY <1>1, Z3
  <2> QED BY <1>1, <2>2, <2>3, Z3
<1>3. CASE q < s \div k
  <2>1. q + 1 <= s \div k BY <1>1, <1>3
  <2>2. (q + 1) * k <= (s \div k) * k BY <1>1, <2>1, Z3
  <2>3. (q + 1) * k = q * k + k BY Z3
  <2> QED BY <1>1, <2>2, <2>3, Z3
<1> QED BY <1>1, <1>2, <1>3

(* The sectors that calls are made for lie in the partition.               *)
LEMMA CallSectorsInPartition == CallSectors \subseteq Sectors
BY CacheAssumption DEF Sectors

(* The page base that _FAT_cache_getPage computes for a sector is an       *)
(* aligned sector of the partition, at most a page below it.               *)
LEMMA BaseFacts ==
    ASSUME NEW s \in Sectors
    PROVE  /\ BaseSector(s) \in Sectors
           /\ BaseSector(s) <= s
           /\ s < BaseSector(s) + SectorsPerPage
           /\ BaseSector(BaseSector(s)) = BaseSector(s)
<1> DEFINE q == s \div SectorsPerPage
<1>0. s \in Nat /\ SectorsPerPage \in Nat \ {0} /\ EndOfPartition \in Nat
  BY CacheAssumption DEF Sectors
<1>1. /\ q \in Nat /\ q * SectorsPerPage \in Nat
      /\ q * SectorsPerPage <= s /\ s < q * SectorsPerPage + SectorsPerPage
  BY <1>0, DivMod
<1>2. q * SectorsPerPage < q * SectorsPerPage + SectorsPerPage
  BY <1>0, <1>1
<1>3. (q * SectorsPerPage) \div SectorsPerPage = q
  BY <1>0, <1>1, <1>2, DivUnique
<1> QED
  BY <1>0, <1>1, <1>3 DEF BaseSector, Sectors

(* An aligned base within a page below a sector is that sector's base.     *)
LEMMA BaseUnique ==
    ASSUME NEW s \in Sectors, NEW b \in Sectors, BaseSector(b) = b,
           b <= s, s < b + SectorsPerPage
    PROVE  BaseSector(s) = b
<1> DEFINE q == b \div SectorsPerPage
<1>0. s \in Nat /\ b \in Nat /\ SectorsPerPage \in Nat \ {0}
  BY CacheAssumption DEF Sectors
<1>1. q \in Nat /\ q * SectorsPerPage = b
  BY <1>0, DivMod DEF BaseSector
<1>2. q * SectorsPerPage <= s /\ s < q * SectorsPerPage + SectorsPerPage
  BY <1>1
<1>3. s \div SectorsPerPage = q
  <2> HIDE DEF q
  <2> QED BY <1>0, <1>1, <1>2, DivUnique
<1> QED
  BY <1>1, <1>3 DEF BaseSector

(* A page has a sector at least, fits its buffer and ends with the         *)
(* partition, and what is cut off it is behind the partition.              *)
LEMMA CountFacts ==
    ASSUME NEW b \in Sectors
    PROVE  /\ PageCount(b) \in 1 .. SectorsPerPage
           /\ b + PageCount(b) <= EndOfPartition
           /\ \A s \in Sectors : s < b + SectorsPerPage => s < b + PageCount(b)
BY CacheAssumption DEF PageCount, Sectors

(* A loaded page holds just the sectors with its base, and the buffer has  *)
(* room for them.                                                          *)
LEMMA HoldsIff ==
    ASSUME NEW e, PageIsLoaded(e), NEW s \in Sectors
    PROVE  /\ Holds(e, s) <=> e.sector = BaseSector(s)
           /\ Holds(e, s) => s - e.sector \in Slots /\ s - e.sector \in FilledSlots(e.sector)
<1>1. e.sector \in Sectors /\ BaseSector(e.sector) = e.sector /\ e.count = PageCount(e.sector)
  BY DEF PageIsLoaded
<1>2. ASSUME Holds(e, s) PROVE e.sector = BaseSector(s)
  <2>1. e.sector <= s /\ s < e.sector + SectorsPerPage
    BY <1>1, <1>2, CountFacts, CacheAssumption DEF Holds, Sectors
  <2> QED BY <1>1, <2>1, BaseUnique
<1>3. ASSUME e.sector = BaseSector(s) PROVE Holds(e, s)
  BY <1>1, <1>3, BaseFacts, CountFacts DEF Holds
<1>4. ASSUME Holds(e, s) PROVE s - e.sector \in Slots /\ s - e.sector \in FilledSlots(e.sector)
  BY <1>1, <1>4, CountFacts, CacheAssumption DEF Holds, Slots, FilledSlots, Sectors
<1> QED BY <1>2, <1>3, <1>4

(* The sector of a free page, CACHE_FREE, is behind every sector of the    *)
(* partition, so that the scan of getPage passes it.                       *)
LEMMA FreeHoldsNothing ==
    ASSUME NEW e, PageIsFree(e), NEW s \in Sectors
    PROVE  ~Holds(e, s)
BY CacheAssumption DEF PageIsFree, Holds, Sectors

(* The fields of a page have their types.                                  *)
LEMMA EntryTypes ==
    ASSUME NEW e \in CacheEntry
    PROVE  /\ e.sector \in Nat /\ e.count \in Nat /\ e.last_access \in 0 .. AccessMax
           /\ e.dirty \in BOOLEAN /\ e.cache \in [Slots -> Content]
BY DEF CacheEntry

(* A page made of fields of the right types is a page.                     *)
LEMMA EntryMade ==
    ASSUME NEW sec \in Nat, NEW cnt \in Nat, NEW la \in 0 .. AccessMax,
           NEW dy \in BOOLEAN, NEW c \in [Slots -> Content]
    PROVE  [sector |-> sec, count |-> cnt, last_access |-> la, dirty |-> dy, cache |-> c]
              \in CacheEntry
BY DEF CacheEntry

(* At most one page holds a sector, so any page that does decides the view *)
LEMMA OneHolder ==
    ASSUME NEW ce \in [Pages -> CacheEntry], Disjoint(ce), NEW s \in Sectors,
           NEW p \in Pages, Holds(ce[p], s), NEW q \in Pages, Holds(ce[q], s)
    PROVE  p = q
<1>1. \A r \in {p, q} : PageIsLoaded(ce[r])
  BY FreeHoldsNothing DEF Disjoint
<1>2. ce[p].sector = BaseSector(s) /\ ce[q].sector = BaseSector(s)
  BY <1>1, HoldsIff
<1>3. ce[p].sector # CACHE_FREE
  BY <1>1, CacheAssumption DEF PageIsLoaded, Sectors
<1> QED BY <1>2, <1>3 DEF Disjoint

(* The view of a sector is what the page that holds it holds, or the disc. *)
LEMMA ViewChar ==
    ASSUME NEW d, NEW ce \in [Pages -> CacheEntry], Disjoint(ce), NEW s \in Sectors
    PROVE  /\ \A p \in Pages : Holds(ce[p], s) =>
                 ViewOf(d, ce)[s] = ce[p].cache[s - ce[p].sector]
           /\ (\A p \in Pages : ~Holds(ce[p], s)) => ViewOf(d, ce)[s] = d[s]
<1>1. ASSUME NEW p \in Pages, Holds(ce[p], s)
      PROVE  ViewOf(d, ce)[s] = ce[p].cache[s - ce[p].sector]
  <2> DEFINE q == CHOOSE r \in Pages : Holds(ce[r], s)
  <2>1. q \in Pages /\ Holds(ce[q], s) BY <1>1
  <2>2. q = p BY <1>1, <2>1, OneHolder
  <2> QED BY <1>1, <2>2 DEF ViewOf
<1>2. ASSUME \A p \in Pages : ~Holds(ce[p], s) PROVE ViewOf(d, ce)[s] = d[s]
  BY <1>2 DEF ViewOf
<1> QED BY <1>1, <1>2

(* What the callers can read is a function from sectors to contents.       *)
LEMMA ViewType ==
    ASSUME NEW d \in [Sectors -> Content], NEW ce \in [Pages -> CacheEntry], Disjoint(ce)
    PROVE  ViewOf(d, ce) \in [Sectors -> Content]
<1>1. ASSUME NEW s \in Sectors PROVE ViewOf(d, ce)[s] \in Content
  <2>1. CASE \A p \in Pages : ~Holds(ce[p], s)
    BY <2>1, ViewChar
  <2>2. ASSUME NEW p \in Pages, Holds(ce[p], s) PROVE ViewOf(d, ce)[s] \in Content
    <3>1. PageIsLoaded(ce[p]) BY <2>2, FreeHoldsNothing DEF Disjoint
    <3>2. s - ce[p].sector \in Slots BY <2>2, <3>1, HoldsIff
    <3> QED BY <2>2, <3>2, ViewChar, EntryTypes
  <2> QED BY <2>1, <2>2
<1> QED BY <1>1 DEF ViewOf

(* Writing sectors of a page to the disc changes no sector's data, and     *)
(* once all of them are written the page may be marked clean.              *)
LEMMA WriteBackFacts ==
    ASSUME TypeOK, PagesDisjoint,
           NEW v \in Pages, NEW W \in SUBSET WrittenSectors(cacheEntries[v])
    PROVE  LET d == WriteBack(cacheEntries[v], W) IN
           /\ d \in [Sectors -> Content]
           /\ ViewOf(d, cacheEntries) = View
           /\ CleanMatch(disc, cacheEntries) => CleanMatch(d, cacheEntries)
           /\ \A s \in Sectors : d[s] \in {disc[s], View[s]}
           /\ \A s \in W : d[s] = View[s]
<1> DEFINE d == WriteBack(cacheEntries[v], W)
<1>0. cacheEntries \in [Pages -> CacheEntry] /\ Disjoint(cacheEntries)
      /\ disc \in [Sectors -> Content] /\ W \subseteq Sectors
  BY DEF TypeOK, PagesDisjoint, WrittenSectors
<1>1. ASSUME NEW s \in W
      PROVE  s \in Sectors /\ Holds(cacheEntries[v], s) /\ d[s] = View[s]
  <2>1. s \in Sectors /\ Holds(cacheEntries[v], s) BY DEF WrittenSectors
  <2> QED BY <2>1, <1>0, ViewChar DEF WriteBack, View
<1>2. \A s \in Sectors \ W : d[s] = disc[s] BY DEF WriteBack
<1>3. View \in [Sectors -> Content] BY <1>0, ViewType DEF View
<1>4. d \in [Sectors -> Content]
  <2>1. \A s \in Sectors : d[s] \in Content BY <1>0, <1>1, <1>2, <1>3
  <2> QED BY <2>1 DEF WriteBack
<1>5. CleanMatch(disc, cacheEntries) => CleanMatch(d, cacheEntries)
  <2> SUFFICES ASSUME CleanMatch(disc, cacheEntries), NEW p \in Pages, NEW s \in Sectors, Holds(cacheEntries[p], s),
                      ~cacheEntries[p].dirty
               PROVE  cacheEntries[p].cache[s - cacheEntries[p].sector] = d[s]
    BY DEF CleanMatch
  <2>1. CASE s \in W BY <2>1, <1>0, <1>1, ViewChar DEF View
  <2>2. CASE s \notin W BY <2>2, <1>2 DEF CleanMatch
  <2> QED BY <2>1, <2>2
<1>6. ViewOf(d, cacheEntries) = View
  <2>1. ASSUME NEW s \in Sectors PROVE ViewOf(d, cacheEntries)[s] = View[s]
    <3>1. CASE \A p \in Pages : ~Holds(cacheEntries[p], s)
      <4>1. s \notin W BY <1>1, <3>1
      <4> QED BY <3>1, <4>1, <1>0, <1>2, ViewChar DEF View
    <3>2. CASE \E p \in Pages : Holds(cacheEntries[p], s)
      BY <3>2, <1>0, ViewChar DEF View
    <3> QED BY <3>1, <3>2
  <2> QED BY <2>1 DEF View, ViewOf
<1> QED BY <1>0, <1>1, <1>2, <1>4, <1>5, <1>6

(* A page may be replaced by one whose sectors no other page holds.        *)
LEMMA ReplacePage ==
    ASSUME NEW ce \in [Pages -> CacheEntry], Disjoint(ce), NEW p \in Pages,
           NEW e \in CacheEntry, PageIsLoaded(e),
           \A q \in Pages : q # p => ce[q].sector # e.sector
    PROVE  /\ [ce EXCEPT ![p] = e] \in [Pages -> CacheEntry]
           /\ Disjoint([ce EXCEPT ![p] = e])
BY DEF Disjoint

(* The page that _FAT_cache_getPage returns for sector s *)
LEMMA GetPageTypes ==
    ASSUME TypeOK, PagesDisjoint, NEW s \in Sectors, NEW p \in Pages, GetsPage(p, s)
    PROVE  /\ DiscAfter(p, s) \in [Sectors -> Content]
           /\ AccessTime \in 0 .. AccessMax
           /\ EntryAfter(p, s) \in CacheEntry
           /\ PageIsLoaded(EntryAfter(p, s))
           /\ Holds(EntryAfter(p, s), s)
           /\ \A q \in Pages : q # p => cacheEntries[q].sector # EntryAfter(p, s).sector
<1> DEFINE e  == cacheEntries[p]
           e2 == EntryAfter(p, s)
           b  == BaseSector(s)
<1>0. cacheEntries \in [Pages -> CacheEntry] /\ Disjoint(cacheEntries)
      /\ disc \in [Sectors -> Content] /\ e \in CacheEntry
  BY DEF TypeOK, PagesDisjoint
<1>1. DiscAfter(p, s) \in [Sectors -> Content]
  BY <1>0, WriteBackFacts DEF DiscAfter
<1>2. AccessTime \in 0 .. AccessMax
  BY CacheAssumption DEF AccessTime, TypeOK
<1>3. CASE ~Miss(s)
  <2>1. Holds(e, s) BY <1>3 DEF GetsPage, Hit
  <2>2. e2 = [e EXCEPT !.last_access = AccessTime] BY <1>3 DEF EntryAfter
  <2>3. e2 \in CacheEntry /\ e2.sector = e.sector /\ e2.count = e.count
    BY <1>0, <1>2, <2>2 DEF CacheEntry
  <2>4. PageIsLoaded(e) BY <1>0, <2>1, FreeHoldsNothing DEF Disjoint
  <2>5. e.sector # CACHE_FREE BY <2>4, CacheAssumption DEF PageIsLoaded, Sectors
  <2>6. \A q \in Pages : q # p => cacheEntries[q].sector # e2.sector
    BY <1>0, <2>3, <2>5 DEF Disjoint
  <2> QED BY <1>1, <1>2, <2>1, <2>3, <2>4, <2>6 DEF PageIsLoaded, Holds
<1>4. CASE Miss(s)
  <2>1. e2 = [sector |-> b, count |-> PageCount(b), last_access |-> AccessTime,
              dirty |-> IF Evicts(p, s) THEN FALSE ELSE e.dirty,
              cache |-> ReadFrom(DiscAfter(p, s), b)]
    BY <1>4 DEF EntryAfter
  <2>2. b \in Sectors /\ BaseSector(b) = b BY BaseFacts
  <2>3. PageCount(b) \in Nat BY <2>2, CountFacts, CacheAssumption
  <2>4. ReadFrom(DiscAfter(p, s), b) \in [Slots -> Content]
    <3>1. Erased \in Content BY CacheAssumption DEF Erased, Content
    <3>2. ASSUME NEW i \in FilledSlots(b) PROVE b + i \in Sectors
      BY <2>2, CountFacts, CacheAssumption DEF FilledSlots, Sectors, Slots
    <3> QED BY <1>1, <3>1, <3>2 DEF ReadFrom
  <2>5. (IF Evicts(p, s) THEN FALSE ELSE e.dirty) \in BOOLEAN
    BY <1>0, EntryTypes
  <2>6. e2 \in CacheEntry
    <3>1. b \in Nat BY <2>2 DEF Sectors
    <3> HIDE DEF e2, b, e
    <3> QED BY <1>2, <2>1, <2>3, <2>4, <2>5, <3>1, EntryMade, Zenon
  <2>7. PageIsLoaded(e2) BY <2>1, <2>2 DEF PageIsLoaded
  <2>8. Holds(e2, s) BY <2>1, <2>7, HoldsIff
  <2>9. ASSUME NEW q \in Pages PROVE cacheEntries[q].sector # b
    <3>1. CASE PageIsFree(cacheEntries[q])
      BY <3>1, <2>2, CacheAssumption DEF PageIsFree, Sectors
    <3>2. CASE PageIsLoaded(cacheEntries[q])
      BY <3>2, <1>4, HoldsIff DEF Miss
    <3> QED BY <1>0, <3>1, <3>2 DEF Disjoint
  <2> QED BY <1>1, <1>2, <2>1, <2>6, <2>7, <2>8, <2>9
<1> QED BY <1>3, <1>4

(* Evictions and loads change no sector's data *)
LEMMA GetPageFacts ==
    ASSUME TypeOK, PagesDisjoint, NEW s \in Sectors, NEW p \in Pages, GetsPage(p, s)
    PROVE  LET ce2 == [cacheEntries EXCEPT ![p] = EntryAfter(p, s)]
               d2  == DiscAfter(p, s)
           IN  /\ ce2 \in [Pages -> CacheEntry]
               /\ Disjoint(ce2)
               /\ CleanMatch(disc, cacheEntries) =>
                     /\ CleanMatch(d2, ce2)
                     /\ ViewOf(d2, ce2) = View
                     /\ \A x \in Sectors : d2[x] \in {disc[x], View[x]}
<1> DEFINE e   == cacheEntries[p]
           e2  == EntryAfter(p, s)
           b   == BaseSector(s)
           d2  == DiscAfter(p, s)
           ce2 == [cacheEntries EXCEPT ![p] = e2]
<1>0. cacheEntries \in [Pages -> CacheEntry] /\ Disjoint(cacheEntries)
      /\ disc \in [Sectors -> Content] /\ e \in CacheEntry
  BY DEF TypeOK, PagesDisjoint
<1>1. /\ d2 \in [Sectors -> Content]
      /\ e2 \in CacheEntry /\ PageIsLoaded(e2) /\ Holds(e2, s)
      /\ \A q \in Pages : q # p => cacheEntries[q].sector # e2.sector
  BY GetPageTypes
<1>2. ce2 \in [Pages -> CacheEntry] /\ Disjoint(ce2)
  <2> HIDE DEF e2
  <2> QED BY <1>0, <1>1, ReplacePage
<1>3. ce2[p] = e2 /\ \A q \in Pages : q # p => ce2[q] = cacheEntries[q]
  BY <1>0
<1> SUFFICES ASSUME CleanMatch(disc, cacheEntries)
             PROVE  /\ CleanMatch(d2, ce2)
                    /\ ViewOf(d2, ce2) = View
                    /\ \A x \in Sectors : d2[x] \in {disc[x], View[x]}
  BY <1>2
<1>4. CASE ~Miss(s)
  <2>1. d2 = disc BY <1>4 DEF DiscAfter, Evicts
  <2>2. e2 = [e EXCEPT !.last_access = AccessTime] BY <1>4 DEF EntryAfter
  <2>3. e2.sector = e.sector /\ e2.count = e.count /\ e2.dirty = e.dirty /\ e2.cache = e.cache
    BY <1>0, <2>2 DEF CacheEntry
  <2>4. \A q \in Pages, x \in Sectors : Holds(ce2[q], x) <=> Holds(cacheEntries[q], x)
    BY <1>3, <2>3 DEF Holds
  <2>5. \A q \in Pages : /\ ce2[q].sector = cacheEntries[q].sector
                         /\ ce2[q].cache = cacheEntries[q].cache
                         /\ ~ce2[q].dirty => ~cacheEntries[q].dirty
    BY <1>3, <2>3
  <2>6. CleanMatch(d2, ce2)
    <3> HIDE DEF ce2, d2
    <3> QED BY <2>1, <2>4, <2>5 DEF CleanMatch
  <2>7. ASSUME NEW x \in Sectors PROVE ViewOf(d2, ce2)[x] = View[x]
    <3> HIDE DEF ce2, d2, e2
    <3>1. CASE \A q \in Pages : ~Holds(cacheEntries[q], x)
      BY <3>1, <1>0, <1>2, <2>1, <2>4, ViewChar DEF View
    <3>2. CASE \E q \in Pages : Holds(cacheEntries[q], x)
      <4>1. PICK q \in Pages : Holds(cacheEntries[q], x) BY <3>2
      <4>2. ViewOf(d2, ce2)[x] = ce2[q].cache[x - ce2[q].sector]
        BY <4>1, <1>2, <2>4, ViewChar
      <4>3. View[x] = cacheEntries[q].cache[x - cacheEntries[q].sector]
        BY <4>1, <1>0, ViewChar DEF View
      <4> QED BY <4>2, <4>3, <2>5
    <3> QED BY <3>1, <3>2
  <2>8. ViewOf(d2, ce2) = View BY <2>7 DEF View, ViewOf
  <2> QED BY <2>1, <2>6, <2>8
<1>5. CASE Miss(s)
  <2>1. /\ e2.sector = b
        /\ e2.cache = ReadFrom(d2, b)
    BY <1>5 DEF EntryAfter
  <2>2. \A x \in Sectors : /\ d2[x] \in {disc[x], View[x]}
                           /\ Holds(e, x) => d2[x] = View[x]
    <3>1. CASE Evicts(p, s)
      BY <3>1, WriteBackFacts DEF DiscAfter, WrittenSectors
    <3>2. CASE ~Evicts(p, s)
      <4>1. d2 = disc BY <3>2 DEF DiscAfter
      <4>2. ASSUME NEW x \in Sectors, Holds(e, x) PROVE disc[x] = View[x]
        <5>1. ~PageIsFree(e) BY <4>2, FreeHoldsNothing
        <5>2. PageIsLoaded(e) BY <5>1, <1>0 DEF Disjoint
        <5>3. ~IsFree(p) BY <5>2, CacheAssumption DEF PageIsLoaded, IsFree, Sectors
        <5>4. ~e.dirty BY <1>5, <3>2, <5>3 DEF Evicts
        <5> QED BY <4>2, <5>4, <1>0, ViewChar DEF CleanMatch, View
      <4> QED BY <4>1, <4>2
    <3> QED BY <3>1, <3>2
  <2>3. ASSUME NEW x \in Sectors, Holds(e2, x)
        PROVE  /\ \A q \in Pages : ~Holds(cacheEntries[q], x)
               /\ View[x] = disc[x] /\ d2[x] = View[x]
               /\ e2.cache[x - e2.sector] = d2[x]
    <3>1. BaseSector(x) = b BY <1>1, <2>1, <2>3, HoldsIff
    <3>2. ASSUME NEW q \in Pages PROVE ~Holds(cacheEntries[q], x)
      <4>1. CASE PageIsFree(cacheEntries[q]) BY <4>1, FreeHoldsNothing
      <4>2. CASE PageIsLoaded(cacheEntries[q])
        BY <4>2, <1>5, <3>1, HoldsIff DEF Miss
      <4> QED BY <1>0, <4>1, <4>2 DEF Disjoint
    <3>3. View[x] = disc[x] BY <3>2, <1>0, ViewChar DEF View
    <3>4. d2[x] = View[x] BY <2>2, <3>3
    <3>5. x - b \in Slots /\ x - b \in FilledSlots(b)
      BY <1>1, <2>1, <2>3, HoldsIff
    <3>6. b \in Nat /\ x \in Nat BY BaseFacts DEF Sectors
    <3>7. b + (x - b) = x BY <3>6
    <3> QED BY <2>1, <3>2, <3>3, <3>4, <3>5, <3>7 DEF ReadFrom
  <2>4. ASSUME NEW x \in Sectors PROVE ViewOf(d2, ce2)[x] = View[x]
    <3> HIDE DEF ce2, d2, e2
    <3>1. CASE Holds(e2, x)
      BY <3>1, <1>2, <1>3, <2>3, ViewChar
    <3>2. CASE ~Holds(e2, x) /\ \E q \in Pages : q # p /\ Holds(cacheEntries[q], x)
      <4>1. PICK q \in Pages : q # p /\ Holds(cacheEntries[q], x) BY <3>2
      <4>2. ViewOf(d2, ce2)[x] = ce2[q].cache[x - ce2[q].sector]
        BY <4>1, <1>2, <1>3, ViewChar
      <4> QED BY <4>1, <4>2, <1>0, <1>3, ViewChar DEF View
    <3>3. CASE ~Holds(e2, x) /\ \A q \in Pages : q # p => ~Holds(cacheEntries[q], x)
      <4>1. ViewOf(d2, ce2)[x] = d2[x] BY <3>3, <1>2, <1>3, ViewChar
      <4>2. CASE Holds(e, x) BY <4>1, <4>2, <2>2
      <4>3. CASE ~Holds(e, x)
        <5>1. View[x] = disc[x] BY <3>3, <4>3, <1>0, ViewChar DEF View
        <5> QED BY <4>1, <5>1, <2>2
      <4> QED BY <4>2, <4>3
    <3> QED BY <3>1, <3>2, <3>3
  <2>5. CleanMatch(d2, ce2)
    <3> SUFFICES ASSUME NEW q \in Pages, NEW x \in Sectors, Holds(ce2[q], x), ~ce2[q].dirty
                 PROVE  ce2[q].cache[x - ce2[q].sector] = d2[x]
      BY DEF CleanMatch
    <3>1. CASE q = p BY <3>1, <1>3, <2>3
    <3>2. CASE q # p
      <4>1. ce2[q] = cacheEntries[q] BY <3>2, <1>3
      <4>2. ce2[q].cache[x - ce2[q].sector] = disc[x] BY <4>1 DEF CleanMatch
      <4>3. View[x] = disc[x] BY <4>1, <4>2, <1>0, ViewChar DEF View
      <4> QED BY <4>2, <4>3, <2>2
    <3> QED BY <3>1, <3>2
  <2>6. ViewOf(d2, ce2) = View BY <2>4 DEF View, ViewOf
  <2> QED BY <2>2, <2>5, <2>6
<1> QED BY <1>4, <1>5

(* A copy into the buffer of a page changes the sectors copied over *)
LEMMA PutFacts ==
    ASSUME NEW d, NEW ce \in [Pages -> CacheEntry], Disjoint(ce),
           NEW p \in Pages, PageIsLoaded(ce[p]),
           NEW ce2 \in [Pages -> CacheEntry],
           \A q \in Pages : q # p => ce2[q] = ce[q],
           ce2[p].sector = ce[p].sector, ce2[p].count = ce[p].count, ce2[p].dirty
    PROVE  /\ Disjoint(ce2)
           /\ CleanMatch(d, ce) => CleanMatch(d, ce2)
           /\ \A x \in Sectors : ViewOf(d, ce2)[x] =
                 IF Holds(ce[p], x) THEN ce2[p].cache[x - ce[p].sector] ELSE ViewOf(d, ce)[x]
<1>1. \A q \in Pages : ce2[q].sector = ce[q].sector /\ ce2[q].count = ce[q].count
  OBVIOUS
<1>2. PageIsLoaded(ce2[p]) BY DEF PageIsLoaded
<1>5. Disjoint(ce2)
  BY <1>1, <1>2 DEF Disjoint
<1>7. \A q \in Pages, x \in Sectors : Holds(ce2[q], x) <=> Holds(ce[q], x)
  BY <1>1 DEF Holds
<1>8. CleanMatch(d, ce) => CleanMatch(d, ce2)
  BY DEF CleanMatch
<1>9. ASSUME NEW x \in Sectors
      PROVE  ViewOf(d, ce2)[x] =
                 IF Holds(ce[p], x) THEN ce2[p].cache[x - ce[p].sector] ELSE ViewOf(d, ce)[x]
  <2>1. CASE Holds(ce[p], x)
    <3>1. ViewOf(d, ce2)[x] = ce2[p].cache[x - ce2[p].sector]
      BY <2>1, <1>5, <1>7, ViewChar
    <3> QED BY <2>1, <3>1, <1>1
  <2>2. CASE \E q \in Pages : q # p /\ Holds(ce[q], x)
    <3>1. PICK q \in Pages : q # p /\ Holds(ce[q], x) BY <2>2
    <3>2. ViewOf(d, ce2)[x] = ce2[q].cache[x - ce2[q].sector]
      BY <3>1, <1>5, <1>7, ViewChar
    <3>3. ViewOf(d, ce)[x] = ce[q].cache[x - ce[q].sector] BY <3>1, ViewChar
    <3>4. ~Holds(ce[p], x) BY <3>1, OneHolder
    <3> QED BY <3>1, <3>2, <3>3, <3>4
  <2>3. CASE \A q \in Pages : ~Holds(ce[q], x)
    BY <2>3, <1>5, <1>7, ViewChar
  <2> QED BY <2>1, <2>2, <2>3
<1> QED BY <1>5, <1>8, <1>9

(* The dirty flags do not show in the view, and a page all of whose sectors *)
(* are as on the disc may lose its flag                                     *)
LEMMA CleanedPage ==
    ASSUME NEW d, NEW ce \in [Pages -> CacheEntry], Disjoint(ce), NEW v \in Pages,
           NEW ce2 \in [Pages -> CacheEntry],
           \A q \in Pages : q # v => ce2[q] = ce[q],
           ce2[v].sector = ce[v].sector, ce2[v].count = ce[v].count,
           ce2[v].cache = ce[v].cache, ce2[v].dirty => ce[v].dirty
    PROVE  /\ Disjoint(ce2)
           /\ ViewOf(d, ce2) = ViewOf(d, ce)
           /\ CleanMatch(d, ce) /\ (ce2[v].dirty = ce[v].dirty) => CleanMatch(d, ce2)
           /\ CleanMatch(d, ce) /\ (\A x \in Sectors : Holds(ce[v], x) => d[x] = ViewOf(d, ce)[x])
                => CleanMatch(d, ce2)
<1>1. \A q \in Pages : /\ ce2[q].sector = ce[q].sector /\ ce2[q].count = ce[q].count
                       /\ ce2[q].cache = ce[q].cache /\ (ce2[q].dirty => ce[q].dirty)
  OBVIOUS
<1>2. \A q \in Pages, x \in Sectors : Holds(ce2[q], x) <=> Holds(ce[q], x)
  BY <1>1 DEF Holds
<1>3. Disjoint(ce2)
  BY <1>1 DEF Disjoint, PageIsFree, PageIsLoaded
<1>4. ASSUME NEW x \in Sectors PROVE ViewOf(d, ce2)[x] = ViewOf(d, ce)[x]
  <2>1. CASE \A q \in Pages : ~Holds(ce[q], x)
    BY <2>1, <1>2, <1>3, ViewChar
  <2>2. CASE \E q \in Pages : Holds(ce[q], x)
    <3>1. PICK q \in Pages : Holds(ce[q], x) BY <2>2
    <3>2. ViewOf(d, ce2)[x] = ce2[q].cache[x - ce2[q].sector]
      BY <3>1, <1>2, <1>3, ViewChar
    <3>3. ViewOf(d, ce)[x] = ce[q].cache[x - ce[q].sector] BY <3>1, ViewChar
    <3> QED BY <3>2, <3>3, <1>1
  <2> QED BY <2>1, <2>2
<1>5. ViewOf(d, ce2) = ViewOf(d, ce) BY <1>4 DEF ViewOf
<1>6. CleanMatch(d, ce) /\ (ce2[v].dirty = ce[v].dirty) => CleanMatch(d, ce2)
  BY <1>1, <1>2 DEF CleanMatch
<1>7. ASSUME CleanMatch(d, ce), \A x \in Sectors : Holds(ce[v], x) => d[x] = ViewOf(d, ce)[x]
      PROVE  CleanMatch(d, ce2)
  <2> SUFFICES ASSUME NEW q \in Pages, NEW x \in Sectors, Holds(ce2[q], x), ~ce2[q].dirty
               PROVE  ce2[q].cache[x - ce2[q].sector] = d[x]
    BY DEF CleanMatch
  <2>1. Holds(ce[q], x) BY <1>2
  <2>2. CASE q = v
    <3>1. d[x] = ce[v].cache[x - ce[v].sector] BY <2>1, <2>2, <1>7, ViewChar
    <3> QED BY <3>1, <2>2
  <2>3. CASE q # v BY <2>1, <2>3, <1>7 DEF CleanMatch
  <2> QED BY <2>2, <2>3
<1> QED BY <1>3, <1>5, <1>6, <1>7

-----------------------------------------------------------------------------
(* What a step of the cache may do to the pages and the disc without the   *)
(* callers noticing: the invariant is kept, no sector's data changes, and  *)
(* the disc only catches up.                                               *)
PagesKept(d, ce) ==
    /\ d \in [Sectors -> Content]
    /\ ce \in [Pages -> CacheEntry]
    /\ Disjoint(ce)
    /\ ~TornReads /\ CleanMatch(disc, cacheEntries) =>
         /\ CleanMatch(d, ce)
         /\ ViewOf(d, ce) = View
         /\ \A x \in Sectors : d[x] \in {disc[x], View[x]}

(* The write that would free a page fails in part: no sector's data        *)
(* changes, because the page stays dirty.                                  *)
LEMMA EvictionFailsFacts ==
    ASSUME TypeOK, PagesDisjoint, NEW s \in Sectors, EvictionFails(s)
    PROVE  PagesKept(disc', cacheEntries')
<1>1. PICK v \in Pages : \E W \in SUBSET WrittenSectors(cacheEntries[v]) :
          disc' = WriteBack(cacheEntries[v], W)
  BY DEF EvictionFails
<1>2. PICK W \in SUBSET WrittenSectors(cacheEntries[v]) :
          disc' = WriteBack(cacheEntries[v], W)
  BY <1>1
<1>3. cacheEntries' = cacheEntries BY DEF EvictionFails
<1> QED BY <1>2, <1>3, WriteBackFacts DEF PagesKept, TypeOK, PagesDisjoint

(* The read that would fill a page fails: the page keeps the sectors it    *)
(* held, which are on the disc by now, and they keep their data if the     *)
(* buffer was left alone.                                                  *)
LEMMA LoadFailsFacts ==
    ASSUME TypeOK, PagesDisjoint, NEW s \in Sectors, LoadFails(s)
    PROVE  PagesKept(disc', cacheEntries')
<1>0. cacheEntries \in [Pages -> CacheEntry] /\ Disjoint(cacheEntries)
      /\ disc \in [Sectors -> Content]
  BY DEF TypeOK, PagesDisjoint
<1> DEFINE b == BaseSector(s)
<1>1. PICK v \in Pages :
        /\ Miss(s) /\ Victim(v) /\ disc' = DiscAfter(v, s)
        /\ \E T \in IF TornReads THEN SUBSET FilledSlots(b) ELSE {{}} :
              cacheEntries' = [cacheEntries EXCEPT
                  ![v].dirty = IF Evicts(v, s) THEN FALSE ELSE @,
                  ![v].cache = [i \in Slots |-> IF i \in T THEN disc'[b + i] ELSE @[i]]]
  BY DEF LoadFails
<1>2. PICK T \in IF TornReads THEN SUBSET FilledSlots(b) ELSE {{}} :
        cacheEntries' = [cacheEntries EXCEPT
            ![v].dirty = IF Evicts(v, s) THEN FALSE ELSE @,
            ![v].cache = [i \in Slots |-> IF i \in T THEN disc'[b + i] ELSE @[i]]]
  BY <1>1
<1> DEFINE e  == cacheEntries[v]
           dy == IF Evicts(v, s) THEN FALSE ELSE e.dirty
           c  == [i \in Slots |-> IF i \in T THEN disc'[b + i] ELSE e.cache[i]]
           e2 == [e EXCEPT !.dirty = dy, !.cache = c]
<1>3. e \in CacheEntry BY <1>0
<1>4. cacheEntries' = [cacheEntries EXCEPT ![v] = e2] BY <1>0, <1>2
<1>5. disc' \in [Sectors -> Content] BY <1>0, <1>1, WriteBackFacts DEF DiscAfter
<1>6. c \in [Slots -> Content]
  <2>1. T \subseteq FilledSlots(b) BY <1>2
  <2>2. b \in Sectors BY BaseFacts
  <2>3. ASSUME NEW i \in T PROVE b + i \in Sectors
    BY <2>1, <2>2, CountFacts, CacheAssumption DEF FilledSlots, Sectors, Slots
  <2>4. e.cache \in [Slots -> Content] BY <1>3, EntryTypes
  <2> QED BY <1>5, <2>3, <2>4
<1>7. dy \in BOOLEAN BY <1>3, EntryTypes
<1>8. /\ e2 \in CacheEntry /\ e2.sector = e.sector /\ e2.count = e.count
      /\ e2.dirty = dy /\ e2.cache = c
  <2> HIDE DEF dy, c, e
  <2> QED BY <1>3, <1>6, <1>7 DEF CacheEntry
<1>9. dy => e.dirty OBVIOUS
<1>10. /\ cacheEntries' \in [Pages -> CacheEntry]
       /\ cacheEntries'[v] = e2
       /\ \A q \in Pages : q # v => cacheEntries'[q] = cacheEntries[q]
  <2> HIDE DEF e2
  <2> QED BY <1>0, <1>4, <1>8
<1>11. Disjoint(cacheEntries')
  <2> HIDE DEF e2, dy, c
  <2>1. \A q \in Pages : /\ cacheEntries'[q].sector = cacheEntries[q].sector
                         /\ cacheEntries'[q].count = cacheEntries[q].count
                         /\ cacheEntries'[q].dirty => cacheEntries[q].dirty
    BY <1>8, <1>9, <1>10
  <2> QED BY <1>0, <2>1 DEF Disjoint, PageIsFree, PageIsLoaded
<1>12. ASSUME ~TornReads, CleanMatch(disc, cacheEntries)
       PROVE  /\ CleanMatch(disc', cacheEntries')
              /\ ViewOf(disc', cacheEntries') = View
              /\ \A x \in Sectors : disc'[x] \in {disc[x], View[x]}
  <2>1. c = e.cache
    <3>1. T = {} BY <1>2, <1>12
    <3>2. e.cache \in [Slots -> Content] BY <1>3, EntryTypes
    <3> QED BY <3>1, <3>2
  <2>2. CASE Evicts(v, s)
    <3> DEFINE W == WrittenSectors(cacheEntries[v])
    <3>1. disc' = WriteBack(cacheEntries[v], W) BY <1>1, <2>2 DEF DiscAfter
    <3>2. /\ ViewOf(disc', cacheEntries) = View
          /\ CleanMatch(disc', cacheEntries)
          /\ \A x \in Sectors : disc'[x] \in {disc[x], View[x]}
          /\ \A x \in W : disc'[x] = View[x]
      BY <1>12, <3>1, WriteBackFacts
    <3>3. \A x \in Sectors : Holds(e, x) => disc'[x] = ViewOf(disc', cacheEntries)[x]
      BY <3>2 DEF WrittenSectors
    <3> HIDE DEF e2, dy, c, W
    <3> QED BY <1>0, <1>8, <1>9, <1>10, <2>1, <3>2, <3>3, CleanedPage
  <2>3. CASE ~Evicts(v, s)
    <3>1. disc' = disc BY <1>1, <2>3 DEF DiscAfter
    <3>2. dy = e.dirty BY <2>3
    <3> HIDE DEF e2, dy, c
    <3> QED BY <1>0, <1>8, <1>9, <1>10, <1>12, <2>1, <3>1, <3>2, CleanedPage DEF View
  <2> QED BY <2>2, <2>3
<1> QED BY <1>5, <1>10, <1>11, <1>12 DEF PagesKept

(* A flush writes a page and marks it clean: no sector's data changes, and *)
(* the page is as on the disc.                                             *)
LEMMA FlushPageFacts ==
    ASSUME TypeOK, PagesDisjoint, FlushPage
    PROVE  /\ PagesKept(disc', cacheEntries')
           /\ call.done \in Pages
           /\ ~cacheEntries'[call.done].dirty
           /\ \A q \in Pages : q # call.done => cacheEntries'[q] = cacheEntries[q]
<1> DEFINE v  == call.done
           e  == cacheEntries[v]
           W  == WrittenSectors(e)
           e2 == [e EXCEPT !.dirty = FALSE]
<1>0. /\ cacheEntries \in [Pages -> CacheEntry] /\ Disjoint(cacheEntries)
      /\ disc \in [Sectors -> Content] /\ v \in Pages
  BY CacheAssumption DEF TypeOK, PagesDisjoint, FlushPage, Call, Pages
<1>1. e \in CacheEntry BY <1>0
<1>2. /\ e2 \in CacheEntry /\ e2.sector = e.sector /\ e2.count = e.count
      /\ ~e2.dirty /\ e2.cache = e.cache
  BY <1>1 DEF CacheEntry
<1>3. cacheEntries' = [cacheEntries EXCEPT ![v] = e2]
  BY <1>0 DEF FlushPage
<1>4. /\ cacheEntries' \in [Pages -> CacheEntry]
      /\ cacheEntries'[v] = e2
      /\ \A q \in Pages : q # v => cacheEntries'[q] = cacheEntries[q]
  <2> HIDE DEF e2, v
  <2> QED BY <1>0, <1>2, <1>3
<1>5. ASSUME e.dirty PROVE PagesKept(disc', cacheEntries')
  <2>1. disc' = WriteBack(e, W) BY <1>5 DEF FlushPage
  <2>2. /\ disc' \in [Sectors -> Content]
        /\ ViewOf(disc', cacheEntries) = View
        /\ CleanMatch(disc, cacheEntries) => CleanMatch(disc', cacheEntries)
        /\ \A x \in Sectors : disc'[x] \in {disc[x], View[x]}
        /\ \A x \in W : disc'[x] = View[x]
    BY <1>0, <2>1, WriteBackFacts
  <2>3. \A x \in Sectors : Holds(e, x) => disc'[x] = ViewOf(disc', cacheEntries)[x]
    BY <2>2 DEF WrittenSectors
  <2>4. /\ cacheEntries'[v].sector = cacheEntries[v].sector
        /\ cacheEntries'[v].count = cacheEntries[v].count
        /\ cacheEntries'[v].cache = cacheEntries[v].cache
        /\ cacheEntries'[v].dirty => cacheEntries[v].dirty
    BY <1>2, <1>4
  <2> HIDE DEF e2, v, W
  <2>5. /\ Disjoint(cacheEntries')
        /\ ViewOf(disc', cacheEntries') = ViewOf(disc', cacheEntries)
        /\ CleanMatch(disc', cacheEntries) => CleanMatch(disc', cacheEntries')
    BY <1>0, <1>4, <2>3, <2>4, CleanedPage
  <2> QED BY <1>4, <2>2, <2>5 DEF PagesKept
<1>6. ASSUME ~e.dirty PROVE PagesKept(disc', cacheEntries')
  <2>1. disc' = disc BY <1>6 DEF FlushPage
  <2>2. View \in [Sectors -> Content] BY <1>0, ViewType DEF View
  <2>3. e2.dirty = e.dirty BY <1>1, <1>2, <1>6, EntryTypes
  <2>4. /\ cacheEntries'[v].sector = cacheEntries[v].sector
        /\ cacheEntries'[v].count = cacheEntries[v].count
        /\ cacheEntries'[v].cache = cacheEntries[v].cache
        /\ cacheEntries'[v].dirty = cacheEntries[v].dirty
    BY <1>2, <1>4, <2>3
  <2> HIDE DEF e2, v
  <2>5. /\ Disjoint(cacheEntries')
        /\ ViewOf(disc, cacheEntries') = ViewOf(disc, cacheEntries)
        /\ CleanMatch(disc, cacheEntries) => CleanMatch(disc, cacheEntries')
    BY <1>0, <1>4, <2>4, CleanedPage
  <2> QED BY <1>0, <1>4, <2>1, <2>5 DEF PagesKept, View
<1> QED BY <1>0, <1>2, <1>4, <1>5, <1>6

(* invalidate frees every page: what is left is the disc.                  *)
LEMMA FreePageFacts ==
    /\ [p \in Pages |-> FreePage] \in [Pages -> CacheEntry]
    /\ Disjoint([p \in Pages |-> FreePage])
    /\ \A d : CleanMatch(d, [p \in Pages |-> FreePage])
    /\ \A d \in [Sectors -> Content] : ViewOf(d, [p \in Pages |-> FreePage]) = d
<1> DEFINE ce == [p \in Pages |-> FreePage]
<1>1. FreePage \in CacheEntry
  <2>1. Erased \in Content BY CacheAssumption DEF Erased, Content
  <2>2. [i \in Slots |-> Erased] \in [Slots -> Content] BY <2>1
  <2>3. CACHE_FREE \in Nat /\ 0 \in Nat /\ 0 \in 0 .. AccessMax BY CacheAssumption
  <2> QED BY <2>2, <2>3, EntryMade, Zenon DEF FreePage
<1>2. ce \in [Pages -> CacheEntry] BY <1>1
<1>3. \A p \in Pages : PageIsFree(ce[p]) /\ ce[p].sector = CACHE_FREE
  BY DEF PageIsFree, FreePage
<1>4. Disjoint(ce) BY <1>3 DEF Disjoint
<1>5. \A p \in Pages, x \in Sectors : ~Holds(ce[p], x) BY <1>3, FreeHoldsNothing
<1>6. \A d : CleanMatch(d, ce) BY <1>5 DEF CleanMatch
<1>7. \A d \in [Sectors -> Content] : ViewOf(d, ce) = d
  <2> HIDE DEF ce
  <2> QED BY <1>5 DEF ViewOf
<1> QED BY <1>2, <1>4, <1>6, <1>7

-----------------------------------------------------------------------------
(* The same without the view: what a write keeps *)
PagesOK(d, ce) ==
    /\ d \in [Sectors -> Content]
    /\ ce \in [Pages -> CacheEntry]
    /\ Disjoint(ce)
    /\ ~TornReads /\ CleanMatch(disc, cacheEntries) => CleanMatch(d, ce)

CallOK(c) ==
    /\ c \in Call
    /\ c.sector + c.numSectors <= EndOfPartition
    /\ c.done <= IF c.op \in FlushOps THEN NumberOfPages ELSE c.numSectors

(* The parts of the invariant, put together.                               *)
LEMMA InvKept ==
    ASSUME IndInv, PagesOK(disc', cacheEntries'), accessCounter' \in 0 .. AccessMax,
           CallOK(call'), FlushProgress'
    PROVE  IndInv'
<1>1. TypeOK' BY DEF TypeOK, PagesOK, CallOK
<1>2. PagesDisjoint' BY DEF PagesDisjoint, PagesOK
<1>3. CleanPagesMatchDisc' BY DEF CleanPagesMatchDisc, PagesOK, IndInv
<1> QED BY <1>1, <1>2, <1>3 DEF IndInv

(* A step that leaves the disc and the pages alone keeps what is known of  *)
(* them.                                                                   *)
LEMMA PagesUnchanged ==
    ASSUME IndInv, UNCHANGED <<disc, cacheEntries>>
    PROVE  PagesOK(disc', cacheEntries') /\ PagesKept(disc', cacheEntries')
BY DEF IndInv, TypeOK, PagesDisjoint, PagesOK, PagesKept, View

(* The arguments and the progress of a call have their types and bounds.   *)
LEMMA CallTypes ==
    ASSUME IndInv
    PROVE  /\ call.op \in Ops /\ call.sector \in Sectors /\ call.sector \in Nat
           /\ call.numSectors \in 0 .. MaxTransfer /\ call.numSectors \in Nat
           /\ call.done \in Nat /\ call.buffer \in Buffer
           /\ call.result \in {"pending", "true", "false"}
           /\ CallOK(call)
BY CacheAssumption DEF IndInv, TypeOK, Call, CallOK, Sectors

(* A zeroed sector is a content, and a buffer of them a buffer.            *)
LEMMA ErasedTypes == Erased \in Content /\ NoData \in Buffer
<1>1. Erased \in Content BY CacheAssumption DEF Erased, Content
<1> QED BY <1>1 DEF NoData, Buffer

(* A call that has just been made is within its bounds.                    *)
LEMMA NewCallOK ==
    ASSUME NEW op \in Ops, NEW s \in Sectors, NEW n \in 0 .. MaxTransfer,
           NEW b \in Buffer, NEW r \in {"pending", "true", "false"}, s + n <= EndOfPartition
    PROVE  /\ NewCall(op, s, n, b) \in Call
           /\ CallOK(NewCall(op, s, n, b))
           /\ CallOK([NewCall(op, s, n, b) EXCEPT !.result = r])
           /\ [NewCall(op, s, n, b) EXCEPT !.result = r] =
                [op |-> op, sector |-> s, numSectors |-> n, done |-> 0, buffer |-> b,
                 result |-> r]
BY CacheAssumption DEF NewCall, CallOK, Call

(* So is what is left of a call that has returned.                         *)
LEMMA ReturnOK ==
    ASSUME IndInv, NEW r \in {"true", "false"}, Return(r)
    PROVE  CallOK(call') /\ call'.result = r /\ call'.op = call.op /\ call'.done = 0
<1>1. 0 \in Sectors /\ 0 \in 0 .. MaxTransfer /\ 0 + 0 <= EndOfPartition
  BY CacheAssumption DEF Sectors
<1>2. call.op \in Ops /\ NoData \in Buffer BY CallTypes, ErasedTypes
<1>3. CallOK([NewCall(call.op, 0, 0, NoData) EXCEPT !.result = r])
  BY <1>1, <1>2, NewCallOK
<1> QED BY <1>3 DEF Return, NewCall

(* The constructor's cache satisfies the invariant.                        *)
LEMMA InitInv == Init => IndInv
<1> SUFFICES ASSUME Init PROVE IndInv OBVIOUS
<1>1. 0 \in Sectors /\ 0 \in 0 .. MaxTransfer /\ 0 + 0 <= EndOfPartition /\ "none" \in Ops
  BY CacheAssumption DEF Sectors, Ops
<1>2. CallOK(call) /\ call.op = "none"
  BY <1>1, ErasedTypes, NewCallOK DEF Init, NewCall
<1>3. TypeOK BY <1>2, FreePageFacts, CacheAssumption DEF TypeOK, Init, CallOK, Content
<1>4. PagesDisjoint BY FreePageFacts DEF Init, PagesDisjoint
<1>5. CleanPagesMatchDisc BY FreePageFacts DEF Init, CleanPagesMatchDisc
<1>6. FlushProgress BY <1>2 DEF FlushProgress, Running
<1> QED BY <1>3, <1>4, <1>5, <1>6 DEF IndInv

(* One iteration of a transfer moves it on, within its bounds *)
LEMMA ChunkFacts ==
    ASSUME IndInv, call.op \in {"readSectors", "writeSectors"},
           call.done < call.numSectors, NEW p \in Pages, GetsPage(p, Current)
    PROVE  LET e == EntryAfter(p, Current) IN
           /\ Current \in Sectors
           /\ e.sector \in Nat /\ e.sector <= Current
           /\ Chunk(e) \in Nat /\ Chunk(e) >= 1
           /\ call.done + Chunk(e) <= call.numSectors
           /\ Current - e.sector + Chunk(e) <= e.count
           /\ e.count <= SectorsPerPage
<1>1. Current \in Sectors
  BY CallTypes, CacheAssumption DEF Current, CallOK, Sectors
<1> DEFINE e == EntryAfter(p, Current)
<1>2. e \in CacheEntry /\ PageIsLoaded(e) /\ Holds(e, Current)
  BY <1>1, GetPageTypes DEF IndInv
<1>3. e.sector \in Nat /\ e.count \in Nat BY <1>2, EntryTypes
<1>4. e.count <= SectorsPerPage
  BY <1>2, CountFacts, CacheAssumption DEF PageIsLoaded
<1> HIDE DEF e
<1>5. e.sector <= Current /\ Current < e.sector + e.count BY <1>2 DEF Holds
<1>6. Current \in Nat BY <1>1 DEF Sectors
<1>7. call.numSectors - call.done \in Nat \ {0} BY CallTypes
<1>8. e.count - (Current - e.sector) \in Nat \ {0} BY <1>3, <1>5, <1>6
<1>9. \/ Chunk(e) = e.count - (Current - e.sector) /\ Chunk(e) <= call.numSectors - call.done
      \/ Chunk(e) = call.numSectors - call.done /\ Chunk(e) <= e.count - (Current - e.sector)
  BY <1>7, <1>8 DEF Chunk
<1>10. Chunk(e) \in Nat /\ Chunk(e) >= 1 BY <1>7, <1>8, <1>9
<1>11. call.done + Chunk(e) <= call.numSectors BY <1>7, <1>9, <1>10, CallTypes
<1>12. Current - e.sector + Chunk(e) <= e.count BY <1>3, <1>5, <1>6, <1>8, <1>9, <1>10
<1> QED BY <1>1, <1>3, <1>4, <1>5, <1>10, <1>11, <1>12 DEF e

(* One iteration of _FAT_cache_readSectors keeps the invariant and changes *)
(* no sector's data.                                                       *)
LEMMA ReadPageInv ==
    ASSUME IndInv, Running("readSectors"), call.done < call.numSectors,
           NEW p \in Pages, ReadPage(p)
    PROVE  IndInv' /\ PagesKept(disc', cacheEntries')
<1> DEFINE e == EntryAfter(p, Current)
           n == Chunk(e)
           c == [i \in 0 .. MaxTransfer - 1 |->
                   IF i >= call.done /\ i < call.done + n
                   THEN e.cache[call.sector + i - e.sector] ELSE call.buffer[i]]
<1>0. call.op = "readSectors" /\ GetsPage(p, Current) BY DEF Running, ReadPage
<1>1. /\ Current \in Sectors /\ e.sector \in Nat /\ e.sector <= Current
      /\ n \in Nat /\ n >= 1 /\ call.done + n <= call.numSectors
      /\ Current - e.sector + n <= e.count /\ e.count <= SectorsPerPage
  BY <1>0, ChunkFacts
<1>2. e \in CacheEntry /\ AccessTime \in 0 .. AccessMax
      /\ DiscAfter(p, Current) \in [Sectors -> Content]
  BY <1>0, <1>1, GetPageTypes DEF IndInv
<1>3. PagesKept(disc', cacheEntries') /\ PagesOK(disc', cacheEntries')
  BY <1>0, <1>1, <1>2, GetPageFacts DEF ReadPage, IndInv, PagesKept, PagesOK
<1>4. call' = [call EXCEPT !.done = call.done + n, !.buffer = c]
  <2>1. DOMAIN call.buffer = 0 .. MaxTransfer - 1 BY CallTypes DEF Buffer
  <2> QED BY <2>1 DEF ReadPage
<1>5. c \in Buffer
  <2>1. e.cache \in [Slots -> Content] BY <1>2, EntryTypes
  <2>0. e.count \in Nat BY <1>2, EntryTypes
  <2> HIDE DEF e, n
  <2>2. ASSUME NEW i \in 0 .. MaxTransfer - 1, i >= call.done, i < call.done + n
        PROVE  e.cache[call.sector + i - e.sector] \in Content
    <3>1. call.sector + i - e.sector \in Slots
      BY <1>1, <2>0, <2>2, CallTypes, CacheAssumption DEF Slots, Current, Sectors
    <3> QED BY <2>1, <3>1
  <2>3. call.buffer \in [0 .. MaxTransfer - 1 -> Content] BY CallTypes DEF Buffer
  <2>4. \A i \in 0 .. MaxTransfer - 1 : c[i] \in Content BY <2>2, <2>3
  <2> QED BY <2>4 DEF Buffer
<1>6. CallOK(call') /\ call'.op = "readSectors"
  <2> HIDE DEF c, n
  <2>1. call.done + n \in Nat BY <1>1, CallTypes
  <2>2. call \in Call BY CallTypes DEF CallOK
  <2> QED BY <1>0, <1>1, <1>4, <1>5, <2>1, <2>2, CallTypes DEF CallOK, Call, FlushOps
<1>7. FlushProgress' BY <1>6 DEF FlushProgress, Running
<1>8. accessCounter' \in 0 .. AccessMax BY <1>2 DEF ReadPage
<1> QED BY <1>3, <1>6, <1>7, <1>8, InvKept

(* A write through a page in hand: the page getPage returned, patched *)
LEMMA PutIntoGotPage ==
    ASSUME IndInv, NEW s \in Sectors, NEW p \in Pages, GetsPage(p, s),
           NEW e2 \in CacheEntry, e2.sector = EntryAfter(p, s).sector,
           e2.count = EntryAfter(p, s).count, e2.dirty = TRUE,
           disc' = DiscAfter(p, s), cacheEntries' = [cacheEntries EXCEPT ![p] = e2]
    PROVE  /\ PagesOK(disc', cacheEntries')
           /\ ~TornReads =>
                /\ \A x \in Sectors : disc'[x] \in {disc[x], View[x]}
                /\ \A x \in Sectors : View'[x] =
                     IF Holds(EntryAfter(p, s), x)
                     THEN e2.cache[x - EntryAfter(p, s).sector] ELSE View[x]
<1> DEFINE e   == EntryAfter(p, s)
           ce  == [cacheEntries EXCEPT ![p] = e]
           ce2 == [ce EXCEPT ![p] = e2]
           d   == DiscAfter(p, s)
<1>1. /\ ce \in [Pages -> CacheEntry] /\ Disjoint(ce)
      /\ CleanMatch(disc, cacheEntries) =>
            /\ CleanMatch(d, ce)
            /\ ViewOf(d, ce) = View
            /\ \A x \in Sectors : d[x] \in {disc[x], View[x]}
  BY GetPageFacts DEF IndInv
<1>2. e \in CacheEntry /\ PageIsLoaded(e) /\ d \in [Sectors -> Content]
  BY GetPageTypes DEF IndInv
<1>3. ce[p] = e /\ cacheEntries' = ce2
  <2>1. cacheEntries \in [Pages -> CacheEntry] BY DEF IndInv, TypeOK
  <2> HIDE DEF e
  <2> QED BY <2>1
<1> HIDE DEF ce, e, d
<1>4. /\ ce2 \in [Pages -> CacheEntry] /\ ce2[p] = e2
      /\ \A q \in Pages : q # p => ce2[q] = ce[q]
  BY <1>1
<1> HIDE DEF ce2
<1>5. /\ Disjoint(ce2)
      /\ CleanMatch(d, ce) => CleanMatch(d, ce2)
      /\ \A x \in Sectors : ViewOf(d, ce2)[x] =
            IF Holds(ce[p], x) THEN ce2[p].cache[x - ce[p].sector] ELSE ViewOf(d, ce)[x]
  <2>1. /\ PageIsLoaded(ce[p]) /\ ce2[p].dirty
        /\ ce2[p].sector = ce[p].sector /\ ce2[p].count = ce[p].count
    BY <1>2, <1>3, <1>4 DEF e
  <2>2. /\ ce \in [Pages -> CacheEntry] /\ Disjoint(ce) BY <1>1
  <2>3. /\ ce2 \in [Pages -> CacheEntry]
        /\ \A q \in Pages : q # p => ce2[q] = ce[q]
    BY <1>4
  <2> QED BY ONLY p \in Pages, <2>1, <2>2, <2>3, PutFacts
<1>6. disc' = d BY DEF d
<1>7. PagesOK(disc', cacheEntries') BY <1>1, <1>2, <1>3, <1>4, <1>5, <1>6 DEF PagesOK
<1>8. View' = ViewOf(d, ce2) BY <1>3, <1>6 DEF View
<1>9. ~TornReads => CleanMatch(disc, cacheEntries) BY DEF IndInv, CleanPagesMatchDisc
<1> QED BY <1>1, <1>3, <1>4, <1>5, <1>6, <1>7, <1>8, <1>9 DEF e

(* One iteration of _FAT_cache_writeSectors keeps the invariant and        *)
(* changes the data of the sectors it copies, of no others.                *)
LEMMA WritePageInv ==
    ASSUME IndInv, Running("writeSectors"), call.done < call.numSectors,
           NEW p \in Pages, WritePage(p)
    PROVE  /\ IndInv'
           /\ LET n == Chunk(EntryAfter(p, Current)) IN
              /\ n \in 1 .. call.numSectors - call.done
              /\ call' = [call EXCEPT !.done = call.done + n]
              /\ ~TornReads =>
                   /\ \A x \in Sectors : disc'[x] \in {disc[x], View[x]}
                   /\ \A x \in Sectors : View'[x] =
                        IF x >= Current /\ x < Current + n
                        THEN call.buffer[x - call.sector] ELSE View[x]
<1> DEFINE e == EntryAfter(p, Current)
           n == Chunk(e)
           k == Current - e.sector
           c == [i \in Slots |-> IF i >= k /\ i < k + n THEN call.buffer[call.done + i - k]
                                                       ELSE e.cache[i]]
<1>0. call.op = "writeSectors" /\ GetsPage(p, Current) BY DEF Running, WritePage
<1>1. /\ Current \in Sectors /\ e.sector \in Nat /\ e.sector <= Current
      /\ n \in Nat /\ n >= 1 /\ call.done + n <= call.numSectors
      /\ k + n <= e.count /\ e.count <= SectorsPerPage
  BY <1>0, ChunkFacts
<1>2. e \in CacheEntry /\ AccessTime \in 0 .. AccessMax /\ PageIsLoaded(e)
  BY <1>0, <1>1, GetPageTypes DEF IndInv
<1>3. e.cache \in [Slots -> Content] /\ e.count \in Nat BY <1>2, EntryTypes
<1>4. call.buffer \in [0 .. MaxTransfer - 1 -> Content] BY CallTypes DEF Buffer
<1>5. k \in Nat /\ Current \in Nat BY <1>1 DEF Sectors
<1>6. c \in [Slots -> Content]
  <2> HIDE DEF e, n, k
  <2>1. ASSUME NEW i \in Slots, i >= k, i < k + n
        PROVE  call.done + i - k \in 0 .. MaxTransfer - 1
    BY <1>1, <1>5, <2>1, CallTypes, CacheAssumption DEF Slots
  <2>2. \A i \in Slots : c[i] \in Content BY <1>3, <1>4, <2>1
  <2> QED BY <2>2
<1>7. /\ disc' = DiscAfter(p, Current)
      /\ cacheEntries' = [cacheEntries EXCEPT ![p] = [e EXCEPT !.dirty = TRUE, !.cache = c]]
      /\ accessCounter' = AccessTime
      /\ call' = [call EXCEPT !.done = call.done + n]
  BY DEF WritePage
<1>8. /\ PagesOK(disc', cacheEntries')
      /\ ~TornReads =>
           /\ \A x \in Sectors : disc'[x] \in {disc[x], View[x]}
           /\ \A x \in Sectors : View'[x] =
                IF Holds(e, x) THEN c[x - e.sector] ELSE View[x]
  <2> DEFINE e2 == [e EXCEPT !.dirty = TRUE, !.cache = c]
  <2>1. /\ e2 \in CacheEntry /\ e2.sector = e.sector /\ e2.count = e.count
        /\ e2.dirty = TRUE /\ e2.cache = c
    <3> HIDE DEF c, e
    <3> QED BY <1>2, <1>6 DEF CacheEntry
  <2>2. cacheEntries' = [cacheEntries EXCEPT ![p] = e2] BY <1>7
  <2> HIDE DEF c, e2
  <2> QED BY <1>0, <1>1, <1>7, <2>1, <2>2, PutIntoGotPage
<1>9. CallOK(call') /\ call'.op = "writeSectors"
  <2> HIDE DEF n
  <2>1. call.done + n \in Nat BY <1>1, CallTypes
  <2>2. call \in Call BY CallTypes DEF CallOK
  <2> QED BY <1>0, <1>1, <1>7, <2>1, <2>2, CallTypes DEF CallOK, Call, FlushOps
<1>10. FlushProgress' BY <1>9 DEF FlushProgress, Running
<1>11. accessCounter' \in 0 .. AccessMax BY <1>2, <1>7
<1>12. IndInv' BY <1>8, <1>9, <1>10, <1>11, InvKept
<1>13. n \in 1 .. call.numSectors - call.done
  <2> HIDE DEF n
  <2> QED BY <1>1, CallTypes
<1>14. ASSUME ~TornReads, NEW x \in Sectors
       PROVE  View'[x] = IF x >= Current /\ x < Current + n
                         THEN call.buffer[x - call.sector] ELSE View[x]
  <2>1. x \in Nat BY DEF Sectors
  <2>2. CASE x >= Current /\ x < Current + n
    <3> HIDE DEF e, n
    <3>1. Holds(e, x) BY <1>1, <1>3, <1>5, <2>1, <2>2 DEF Holds, k
    <3>2. /\ x - e.sector \in Slots
          /\ x - e.sector >= k /\ x - e.sector < k + n
          /\ call.done + (x - e.sector) - k = x - call.sector
      <4>1. x - e.sector >= k /\ x - e.sector < k + n
        BY <1>1, <1>5, <2>1, <2>2 DEF k
      <4>2. x - e.sector \in Slots BY <1>2, <3>1, HoldsIff
      <4>3. call.done + (x - e.sector) - ((call.sector + call.done) - e.sector) = x - call.sector
        BY <1>1, <2>1, CallTypes
      <4>4. k = (call.sector + call.done) - e.sector BY DEF k, Current
      <4> HIDE DEF k
      <4> QED BY <4>1, <4>2, <4>3, <4>4
    <3>3. c[x - e.sector] = call.buffer[x - call.sector]
      <4> HIDE DEF k
      <4> QED BY <3>2
    <3> QED BY <1>8, <1>14, <2>2, <3>1, <3>3
  <2>3. CASE ~(x >= Current /\ x < Current + n) /\ ~Holds(e, x)
    BY <1>8, <1>14, <2>3
  <2>4. CASE ~(x >= Current /\ x < Current + n) /\ Holds(e, x)
    <3>1. View[x] = e.cache[x - e.sector]
      <4> DEFINE ce == [cacheEntries EXCEPT ![p] = e]
      <4>1. CleanMatch(disc, cacheEntries) BY <1>14 DEF IndInv, CleanPagesMatchDisc
      <4>2. /\ ce \in [Pages -> CacheEntry] /\ Disjoint(ce)
            /\ ViewOf(DiscAfter(p, Current), ce) = View
        BY <1>0, <1>1, <4>1, GetPageFacts DEF IndInv
      <4>3. ce[p] = e BY DEF IndInv, TypeOK
      <4> HIDE DEF ce, e
      <4>4. Holds(ce[p], x) BY <2>4, <4>3
      <4> QED BY <4>2, <4>3, <4>4, ViewChar
    <3>2. x - e.sector \in Slots /\ ~(x - e.sector >= k /\ x - e.sector < k + n)
      <4>1. x - e.sector \in Slots BY <1>2, <2>4, HoldsIff
      <4> HIDE DEF e, n
      <4> QED BY <1>1, <1>5, <2>1, <2>4, <4>1 DEF k
    <3>3. c[x - e.sector] = e.cache[x - e.sector]
      <4> HIDE DEF k, e, n
      <4> QED BY <3>2
    <3> HIDE DEF c, e, n
    <3> QED BY <1>8, <1>14, <2>4, <3>1, <3>3
  <2> QED BY <2>2, <2>3, <2>4
<1> HIDE DEF n, e
<1> QED BY <1>7, <1>8, <1>12, <1>13, <1>14 DEF n, e

(* The page in hand shows what the sectors hold *)
LEMMA GotPageShowsView ==
    ASSUME IndInv, ~TornReads, NEW s \in Sectors, NEW p \in Pages, GetsPage(p, s),
           NEW x \in Sectors, Holds(EntryAfter(p, s), x)
    PROVE  View[x] = EntryAfter(p, s).cache[x - EntryAfter(p, s).sector]
<1> DEFINE e  == EntryAfter(p, s)
           ce == [cacheEntries EXCEPT ![p] = e]
<1>1. CleanMatch(disc, cacheEntries) BY DEF IndInv, CleanPagesMatchDisc
<1>2. /\ ce \in [Pages -> CacheEntry] /\ Disjoint(ce)
      /\ ViewOf(DiscAfter(p, s), ce) = View
  BY <1>1, GetPageFacts DEF IndInv
<1>3. ce[p] = e BY DEF IndInv, TypeOK
<1>4. Holds(ce[p], x) BY <1>3
<1> HIDE DEF ce, e
<1> QED BY <1>2, <1>3, <1>4, ViewChar DEF e

(* A sector with some of its bytes written over is a sector.               *)
LEMMA PatchedType ==
    ASSUME NEW old \in Content, NEW c \in Content, NEW offset \in Offsets,
           NEW size \in 1 .. BytesPerSector
    PROVE  Patched(old, c, offset, size) \in Content
<1>1. ASSUME NEW o \in Offsets, o >= offset, o < offset + size PROVE o - offset \in Offsets
  BY <1>1, CacheAssumption DEF Offsets
<1> QED BY <1>1 DEF Patched, Content

(* A write of a part of one sector changes the data of that sector only.   *)
LEMMA PartialWriteFacts ==
    ASSUME IndInv, NEW s \in Sectors, NEW p \in Pages, GetsPage(p, s), NEW new \in Content,
           disc' = DiscAfter(p, s),
           cacheEntries' = [cacheEntries EXCEPT ![p] = PatchedPage(EntryAfter(p, s), s, new)]
    PROVE  /\ PagesOK(disc', cacheEntries')
           /\ ~TornReads =>
                /\ \A x \in Sectors : disc'[x] \in {disc[x], View[x]}
                /\ View' = [View EXCEPT ![s] = new]
<1> DEFINE e  == EntryAfter(p, s)
           e2 == PatchedPage(e, s, new)
           cc == [i \in Slots |-> IF i = s - e.sector THEN new ELSE e.cache[i]]
<1>1. e \in CacheEntry /\ PageIsLoaded(e) /\ Holds(e, s) BY GetPageTypes DEF IndInv
<1>2. e.cache \in [Slots -> Content] BY <1>1, EntryTypes
<1>4. cc \in [Slots -> Content]
  <2> HIDE DEF e
  <2> QED BY <1>2
<1>5. /\ e2 \in CacheEntry /\ e2.sector = e.sector /\ e2.count = e.count
      /\ e2.dirty = TRUE /\ e2.cache = cc
  <2>1. e2 = [e EXCEPT !.dirty = TRUE, !.cache = cc] BY DEF PatchedPage
  <2> HIDE DEF cc, e2, e
  <2> QED BY <1>1, <1>4, <2>1 DEF CacheEntry
<1>6. /\ PagesOK(disc', cacheEntries')
      /\ ~TornReads =>
           /\ \A x \in Sectors : disc'[x] \in {disc[x], View[x]}
           /\ \A x \in Sectors : View'[x] = IF Holds(e, x) THEN cc[x - e.sector] ELSE View[x]
  <2> HIDE DEF cc, e2
  <2>1. cacheEntries' = [cacheEntries EXCEPT ![p] = e2] BY DEF e2
  <2> QED BY <1>5, <2>1, PutIntoGotPage
<1>7. ASSUME ~TornReads
      PROVE  View' = [View EXCEPT ![s] = new]
  <2>1. ASSUME NEW x \in Sectors
        PROVE  View'[x] = IF x = s THEN new ELSE View[x]
    <3>1. CASE ~Holds(e, x) BY <1>1, <1>6, <1>7, <3>1
    <3>2. CASE Holds(e, x)
      <4>1. View[x] = e.cache[x - e.sector] BY <1>7, <3>2, GotPageShowsView
      <4>2. x - e.sector \in Slots BY <1>1, <3>2, HoldsIff
      <4>3. (x - e.sector = s - e.sector) <=> x = s
        <5>1. e.sector \in Nat /\ x \in Nat /\ s \in Nat BY <1>1, EntryTypes DEF Sectors
        <5> QED BY <5>1
      <4>4. View'[x] = cc[x - e.sector] BY <1>6, <1>7, <3>2
      <4>5. cc[x - e.sector] = IF x = s THEN new ELSE e.cache[x - e.sector]
        <5> HIDE DEF e
        <5> QED BY <4>2, <4>3
      <4> HIDE DEF cc, e
      <4> QED BY <4>1, <4>4, <4>5
    <3> QED BY <3>1, <3>2
  <2>2. View' = [x \in Sectors |-> View'[x]] /\ View = [x \in Sectors |-> View[x]]
    BY DEF View, ViewOf
  <2> QED BY <2>1, <2>2
<1> QED BY <1>6, <1>7

(* What the two writes put into the sector is sector content *)
LEMMA PatchTypes ==
    ASSUME IndInv, NEW s \in Sectors, NEW p \in Pages, GetsPage(p, s),
           NEW offset \in Offsets, NEW size \in 1 .. BytesPerSector, NEW c \in Content
    PROVE  /\ Patched(Erased, c, offset, size) \in Content
           /\ Patched(EntryAfter(p, s).cache[s - EntryAfter(p, s).sector], c, offset, size)
                \in Content
<1> DEFINE e == EntryAfter(p, s)
<1>1. e \in CacheEntry /\ PageIsLoaded(e) /\ Holds(e, s) BY GetPageTypes DEF IndInv
<1>2. e.cache[s - e.sector] \in Content BY <1>1, EntryTypes, HoldsIff
<1> QED BY <1>2, ErasedTypes, PatchedType

(* A call on part of a sector has returned when it is seen, within its     *)
(* bounds.                                                                 *)
LEMMA PartialCallOK ==
    ASSUME NEW op \in Ops, NEW s \in Sectors, NEW c \in Content, NEW ok \in BOOLEAN
    PROVE  CallOK(PartialCall(op, s, c, ok)) /\ PartialCall(op, s, c, ok).op = op
<1>1. [NoData EXCEPT ![0] = c] \in Buffer BY ErasedTypes DEF Buffer
<1>2. s + 0 <= EndOfPartition BY CacheAssumption DEF Sectors
<1> QED BY <1>1, <1>2, CacheAssumption DEF PartialCall, CallOK, Call

-----------------------------------------------------------------------------
(* Pages that show the same data are in order.                             *)
LEMMA KeptIsOK ==
    ASSUME NEW d, NEW ce, PagesKept(d, ce) PROVE PagesOK(d, ce)
BY DEF PagesKept, PagesOK

(* However getPage fails, no sector's data changes.                        *)
LEMMA GetPageFailsFacts ==
    ASSUME IndInv, NEW s \in Sectors, EvictionFails(s) \/ LoadFails(s)
    PROVE  PagesKept(disc', cacheEntries')
BY EvictionFailsFacts, LoadFailsFacts DEF IndInv

(* The three operations on part of a sector keep the invariant.            *)
LEMMA PartialSectorInv ==
    ASSUME IndInv, PartialSector PROVE IndInv'
<1>1. PICK s \in Sectors, offset \in Offsets, size \in 1 .. BytesPerSector :
        \/ \E op \in PartialOps : PartialFails(op, s, offset, size)
        \/ ReadPartialSector(s, offset, size)
        \/ \E c \in Content : WritePartialSector(s, offset, size, c)
        \/ \E c \in Content : EraseWritePartialSector(s, offset, size, c)
  BY CallSectorsInPartition DEF PartialSector
<1>2. \A op \in PartialOps : op \in Ops /\ op # "flush"
  BY DEF Ops, PartialOps
<1>0. 0 \in Sectors BY CacheAssumption DEF Sectors
<1>3. ASSUME NEW op \in PartialOps, NEW t \in Sectors, NEW c \in Content, NEW ok \in BOOLEAN,
             call' = PartialCall(op, t, c, ok), PagesOK(disc', cacheEntries'),
             accessCounter' \in 0 .. AccessMax
      PROVE  IndInv'
  <2>1. CallOK(call') /\ call'.op = op BY <1>2, <1>3, PartialCallOK
  <2>2. FlushProgress' BY <1>2, <2>1 DEF FlushProgress, Running
  <2> QED BY <1>3, <2>1, <2>2, InvKept
<1>4. ASSUME NEW op \in PartialOps, PartialFails(op, s, offset, size) PROVE IndInv'
  <2>1. PagesOK(disc', cacheEntries')
    BY <1>4, PagesUnchanged, GetPageFailsFacts, KeptIsOK DEF PartialFails
  <2>2. accessCounter' \in 0 .. AccessMax BY <1>4 DEF PartialFails, IndInv, TypeOK
  <2>3. call' = PartialCall(op, 0, Erased, FALSE) BY <1>4 DEF PartialFails
  <2> QED BY <1>0, <1>3, <2>1, <2>2, <2>3, ErasedTypes
<1>5. ASSUME NEW op \in PartialOps, NEW c \in Content, NEW p \in Pages, NEW new \in Content,
             PartialSucceeds(op, s, offset, size, p, PatchedPage(EntryAfter(p, s), s, new), c)
      PROVE  IndInv'
  <2>1. PagesOK(disc', cacheEntries') BY <1>5, PartialWriteFacts DEF PartialSucceeds
  <2>2. accessCounter' \in 0 .. AccessMax
    BY <1>5, GetPageTypes DEF PartialSucceeds, IndInv
  <2>3. call' = PartialCall(op, s, c, TRUE) BY <1>5 DEF PartialSucceeds
  <2> QED BY <1>3, <2>1, <2>2, <2>3
<1>6. CASE ReadPartialSector(s, offset, size)
  <2>1. ASSUME NEW p \in Pages, NEW e, e = EntryAfter(p, s),
               PartialSucceeds("readPartialSector", s, offset, size, p, e,
                 [o \in Offsets |-> IF o < size THEN e.cache[s - e.sector][offset + o] ELSE 0])
        PROVE  IndInv'
    <3> DEFINE c == [o \in Offsets |-> IF o < size THEN e.cache[s - e.sector][offset + o] ELSE 0]
    <3>1. GetsPage(p, s) /\ offset + size <= BytesPerSector BY <2>1 DEF PartialSucceeds
    <3>2. e \in CacheEntry /\ PageIsLoaded(e) /\ Holds(e, s)
          /\ AccessTime \in 0 .. AccessMax /\ DiscAfter(p, s) \in [Sectors -> Content]
      BY <2>1, <3>1, GetPageTypes DEF IndInv
    <3>3. PagesOK(disc', cacheEntries')
      BY <2>1, <3>1, <3>2, GetPageFacts DEF PartialSucceeds, PagesOK, IndInv
    <3>4. e.cache[s - e.sector] \in Content BY <3>2, EntryTypes, HoldsIff
    <3>5. c \in Content
      <4>1. ASSUME NEW o \in Offsets, o < size PROVE offset + o \in Offsets
        BY <3>1, <4>1, CacheAssumption DEF Offsets
      <4> QED BY <3>4, <4>1, CacheAssumption DEF Content
    <3>6. call' = PartialCall("readPartialSector", s, c, TRUE) BY <2>1 DEF PartialSucceeds
    <3>7. accessCounter' \in 0 .. AccessMax BY <2>1, <3>2 DEF PartialSucceeds
    <3> HIDE DEF c
    <3>8. "readPartialSector" \in PartialOps BY DEF PartialOps
    <3> QED BY <1>3, <3>3, <3>5, <3>6, <3>7, <3>8
  <2> QED BY <1>6, <2>1 DEF ReadPartialSector
<1>7. ASSUME NEW c \in Content, WritePartialSector(s, offset, size, c) PROVE IndInv'
  BY <1>5, <1>7, PatchTypes DEF WritePartialSector, PartialSucceeds, PartialOps
<1>8. ASSUME NEW c \in Content, EraseWritePartialSector(s, offset, size, c) PROVE IndInv'
  BY <1>5, <1>8, PatchTypes DEF EraseWritePartialSector, PartialSucceeds, PartialOps
<1> QED BY <1>1, <1>4, <1>6, <1>7, <1>8

(* A loss of power leaves the disc and an empty cache.                     *)
LEMMA CrashInv == ASSUME IndInv, Crash PROVE IndInv'
<1>1. PagesOK(disc', cacheEntries')
  BY FreePageFacts DEF Crash, PagesOK, IndInv, TypeOK
<1>2. 0 \in Sectors /\ 0 \in 0 .. MaxTransfer /\ 0 + 0 <= EndOfPartition /\ "none" \in Ops
  BY CacheAssumption DEF Sectors, Ops
<1>3. CallOK(call') /\ call'.op = "none"
  BY <1>2, ErasedTypes, NewCallOK DEF Crash, NewCall
<1>4. FlushProgress' BY <1>3 DEF FlushProgress, Running
<1>5. accessCounter' \in 0 .. AccessMax BY CacheAssumption DEF Crash
<1> QED BY <1>1, <1>3, <1>4, <1>5, InvKept

(* Every step of flush, invalidate and the destructor keeps the invariant. *)
LEMMA FlushInv == ASSUME IndInv, Flush PROVE IndInv'
<1>0. accessCounter' \in 0 .. AccessMax
  BY DEF Flush, StartFlush, FlushPage, FlushFails, FlushReturns, Forget, IndInv, TypeOK
<1>1. CASE StartFlush
  <2>1. PICK op \in FlushOps : call' = NewCall(op, 0, 0, NoData) BY <1>1 DEF StartFlush
  <2>2. 0 \in Sectors /\ 0 \in 0 .. MaxTransfer /\ 0 + 0 <= EndOfPartition /\ op \in Ops
    BY CacheAssumption DEF Sectors, Ops
  <2>3. CallOK(call') /\ call'.done = 0
    BY <2>1, <2>2, ErasedTypes, NewCallOK DEF NewCall
  <2>4. FlushProgress' BY <2>3 DEF FlushProgress, Pages
  <2> QED BY <1>0, <1>1, <2>3, <2>4, PagesUnchanged, InvKept DEF StartFlush
<1>2. CASE FlushPage
  <2>1. /\ PagesKept(disc', cacheEntries') /\ call.done \in Pages
        /\ ~cacheEntries'[call.done].dirty
        /\ \A q \in Pages : q # call.done => cacheEntries'[q] = cacheEntries[q]
    BY <1>2, FlushPageFacts DEF IndInv
  <2>2. call' = [call EXCEPT !.done = call.done + 1] BY <1>2 DEF FlushPage
  <2>3. CallOK(call') /\ call'.done = call.done + 1 /\ (Running("flush")' => Running("flush"))
    <3>1. call.done + 1 \in Nat /\ call.done + 1 <= NumberOfPages
      BY <2>1, CacheAssumption DEF Pages
    <3>2. call.op \in FlushOps BY <1>2 DEF FlushPage, FlushRunning
    <3>3. call \in Call BY CallTypes DEF CallOK
    <3> QED BY <2>2, <3>1, <3>2, <3>3, CallTypes DEF CallOK, Call, Running
  <2>4. FlushProgress'
    <3> SUFFICES ASSUME Running("flush"), NEW q \in Pages, q < call.done + 1
                 PROVE  ~cacheEntries'[q].dirty
      BY <2>3 DEF FlushProgress
    <3>1. CASE q = call.done BY <2>1, <3>1
    <3>2. CASE q # call.done
      <4>1. q < call.done BY <2>1, <3>2 DEF Pages
      <4> QED BY <2>1, <3>2, <4>1 DEF IndInv, FlushProgress
    <3> QED BY <3>1, <3>2
  <2> QED BY <1>0, <2>1, <2>3, <2>4, KeptIsOK, InvKept
<1>3. CASE FlushFails
  <2>1. call.done \in Pages BY <1>3, CallTypes, CacheAssumption DEF FlushFails, Pages
  <2>2. PagesOK(disc', cacheEntries')
    BY <1>3, <2>1, WriteBackFacts DEF FlushFails, PagesOK, IndInv, TypeOK, PagesDisjoint
  <2>3. CASE call.op = "flush"
    <3>1. CallOK(call') /\ call'.result = "false" BY <1>3, <2>3, ReturnOK DEF FlushFails
    <3>2. FlushProgress' BY <3>1 DEF FlushProgress, Running
    <3> QED BY <1>0, <2>2, <3>1, <3>2, InvKept
  <2>4. CASE call.op # "flush"
    <3>1. call' = [call EXCEPT !.done = NumberOfPages] BY <1>3, <2>4 DEF FlushFails
    <3>2. call \in Call /\ call.op \in FlushOps
      BY <1>3, CallTypes DEF CallOK, FlushFails, FlushRunning
    <3>3. CallOK(call') /\ call'.op # "flush"
      BY <2>4, <3>1, <3>2, CallTypes, CacheAssumption DEF CallOK, Call
    <3>4. FlushProgress' BY <3>3 DEF FlushProgress, Running
    <3> QED BY <1>0, <2>2, <3>3, <3>4, InvKept
  <2> QED BY <2>3, <2>4
<1>4. CASE FlushReturns
  <2>1. CallOK(call') /\ call'.result = "true" BY <1>4, ReturnOK DEF FlushReturns
  <2>2. FlushProgress' BY <2>1 DEF FlushProgress, Running
  <2> QED BY <1>0, <1>4, <2>1, <2>2, PagesUnchanged, InvKept DEF FlushReturns
<1>5. CASE Forget
  <2>1. CallOK(call') /\ call'.result = "true" BY <1>5, ReturnOK DEF Forget
  <2>2. FlushProgress' BY <2>1 DEF FlushProgress, Running
  <2>3. PagesOK(disc', cacheEntries')
    BY <1>5, FreePageFacts DEF Forget, PagesOK, IndInv, TypeOK
  <2> QED BY <1>0, <2>1, <2>2, <2>3, InvKept
<1> QED BY <1>1, <1>2, <1>3, <1>4, <1>5 DEF Flush

(* Making a call keeps the invariant.                                      *)
LEMMA StartInv ==
    ASSUME IndInv, NEW op \in {"readSectors", "writeSectors"}, Start(op)
    PROVE  IndInv' /\ call'.done = 0 /\ call'.op = op
<1>1. PICK s \in Sectors, n \in 0 .. MaxTransfer, b \in Buffer :
        s + n <= EndOfPartition /\ call' = NewCall(op, s, n, b)
  BY CallSectorsInPartition DEF Start
<1>2. op \in Ops BY DEF Ops
<1>3. CallOK(call') /\ call'.op = op /\ call'.done = 0
  BY <1>1, <1>2, NewCallOK DEF NewCall
<1>4. FlushProgress' BY <1>3 DEF FlushProgress, Running
<1>5. accessCounter' \in 0 .. AccessMax BY DEF Start, IndInv, TypeOK
<1> QED BY <1>3, <1>4, <1>5, PagesUnchanged, InvKept DEF Start

(* A call on several sectors that fails on the way keeps the invariant.    *)
LEMMA TransferFailsInv ==
    ASSUME IndInv, NEW op \in {"readSectors", "writeSectors"}, TransferFails(op)
    PROVE  IndInv' /\ PagesKept(disc', cacheEntries') /\ call'.done = 0
<1>1. Current \in Sectors
  BY CallTypes, CacheAssumption DEF TransferFails, Running, Current, CallOK, Sectors
<1>2. PagesKept(disc', cacheEntries') BY <1>1, GetPageFailsFacts DEF TransferFails
<1>3. CallOK(call') /\ call'.result = "false" /\ call'.done = 0
  BY ReturnOK DEF TransferFails
<1>4. FlushProgress' BY <1>3 DEF FlushProgress, Running
<1>5. accessCounter' \in 0 .. AccessMax BY DEF TransferFails, IndInv, TypeOK
<1> QED BY <1>2, <1>3, <1>4, <1>5, KeptIsOK, InvKept

(* So does one that returns.                                               *)
LEMMA TransferReturnsInv ==
    ASSUME IndInv, NEW op \in {"readSectors", "writeSectors"}, TransferReturns(op)
    PROVE  IndInv' /\ call'.done = 0
<1>1. CallOK(call') /\ call'.result = "true" /\ call'.done = 0
  BY ReturnOK DEF TransferReturns
<1>2. FlushProgress' BY <1>1 DEF FlushProgress, Running
<1>3. accessCounter' \in 0 .. AccessMax BY DEF TransferReturns, IndInv, TypeOK
<1> QED BY <1>1, <1>2, <1>3, PagesUnchanged, InvKept DEF TransferReturns

(* So does a step that changes nothing.                                    *)
LEMMA StutterInv == ASSUME IndInv, UNCHANGED vars PROVE IndInv'
<1>1. CallOK(call') BY CallTypes DEF vars
<1>2. FlushProgress' BY DEF FlushProgress, Running, vars, IndInv
<1>3. accessCounter' \in 0 .. AccessMax BY DEF vars, IndInv, TypeOK
<1> QED BY <1>1, <1>2, <1>3, PagesUnchanged, InvKept DEF vars

(* Every step of the cache keeps the invariant *)
LEMMA StepInv == IndInv /\ [Next]_vars => IndInv'
<1> SUFFICES ASSUME IndInv, [Next]_vars PROVE IndInv' OBVIOUS
<1>1. CASE ReadSectors
  BY <1>1, StartInv, ReadPageInv, TransferFailsInv, TransferReturnsInv DEF ReadSectors
<1>2. CASE WriteSectors
  BY <1>2, StartInv, WritePageInv, TransferFailsInv, TransferReturnsInv DEF WriteSectors
<1>3. CASE PartialSector BY <1>3, PartialSectorInv
<1>4. CASE Flush BY <1>4, FlushInv
<1>5. CASE Crash BY <1>5, CrashInv
<1>6. CASE UNCHANGED vars BY <1>6, StutterInv
<1> QED BY <1>1, <1>2, <1>3, <1>4, <1>5, <1>6 DEF Next

(* The inductive invariant holds in every state of cache.c, for every size *)
(* of the cache, the pages, the partition and the transfers.               *)
THEOREM Invariance == Spec => []IndInv
<1>1. Init => IndInv BY InitInv
<1>2. IndInv /\ [Next]_vars => IndInv' BY StepInv
<1> QED BY <1>1, <1>2, PTL DEF Spec

(* The struct fields keep their types, and no loop of cache.c runs past    *)
(* its arguments, whatever transfers fail and whenever the power goes.     *)
THEOREM TypeCorrect == Spec => []TypeOK
<1>1. IndInv => TypeOK BY DEF IndInv
<1> QED BY <1>1, Invariance, PTL

(* No sequence of hits, misses, evictions, failures and invalidations      *)
(* makes two pages hold the same sector.                                   *)
THEOREM PagesStayDisjoint == Spec => []PagesDisjoint
<1>1. IndInv => PagesDisjoint BY DEF IndInv
<1> QED BY <1>1, Invariance, PTL

(* A page that getPage would drop without writing equals the disc, if a    *)
(* failed disc read leaves the buffer alone.                               *)
THEOREM CleanPagesStayClean == Spec => []CleanPagesMatchDisc
<1>1. IndInv => CleanPagesMatchDisc BY DEF IndInv
<1> QED BY <1>1, Invariance, PTL

-----------------------------------------------------------------------------
(* If no page is dirty, the disc holds what the callers can read.          *)
LEMMA AllCleanIsDurable ==
    ASSUME IndInv, ~TornReads, \A p \in Pages : ~cacheEntries[p].dirty
    PROVE  disc = View
<1>1. disc \in [Sectors -> Content] /\ cacheEntries \in [Pages -> CacheEntry]
      /\ Disjoint(cacheEntries) /\ CleanMatch(disc, cacheEntries)
  BY DEF IndInv, TypeOK, PagesDisjoint, CleanPagesMatchDisc
<1>2. ASSUME NEW s \in Sectors PROVE disc[s] = View[s]
  <2>1. CASE \A p \in Pages : ~Holds(cacheEntries[p], s)
    BY <2>1, <1>1, ViewChar DEF View
  <2>2. CASE \E p \in Pages : Holds(cacheEntries[p], s)
    BY <2>2, <1>1, ViewChar DEF View, CleanMatch
  <2> QED BY <2>1, <2>2
<1>3. View \in [Sectors -> Content] BY <1>1, ViewType DEF View
<1> QED BY <1>1, <1>2, <1>3

(* The operation a step belongs to, and when it has a result *)
LEMMA PartialSectorOp ==
    ASSUME PartialSector PROVE call'.op \in PartialOps
<1>1. ASSUME NEW op \in PartialOps, NEW s, NEW offset, NEW size, NEW p, NEW e, NEW c,
             PartialFails(op, s, offset, size) \/ PartialSucceeds(op, s, offset, size, p, e, c)
      PROVE  call'.op \in PartialOps
  BY <1>1 DEF PartialFails, PartialSucceeds, PartialCall
<1>2. PICK s \in Sectors, offset \in Offsets, size \in 1 .. BytesPerSector :
        \/ \E op \in PartialOps : PartialFails(op, s, offset, size)
        \/ ReadPartialSector(s, offset, size)
        \/ \E c \in Content : WritePartialSector(s, offset, size, c)
        \/ \E c \in Content : EraseWritePartialSector(s, offset, size, c)
  BY CallSectorsInPartition DEF PartialSector
<1>0. /\ "readPartialSector" \in PartialOps /\ "writePartialSector" \in PartialOps
      /\ "eraseWritePartialSector" \in PartialOps
  BY DEF PartialOps
<1>6. CASE \E op \in PartialOps : PartialFails(op, s, offset, size)
  BY <1>1, <1>6, Zenon
<1>3. CASE ReadPartialSector(s, offset, size) BY <1>0, <1>1, <1>3, Zenon DEF ReadPartialSector
<1>4. CASE \E c \in Content : WritePartialSector(s, offset, size, c)
  BY <1>0, <1>1, <1>4, Zenon DEF WritePartialSector
<1>5. CASE \E c \in Content : EraseWritePartialSector(s, offset, size, c)
  BY <1>0, <1>1, <1>5, Zenon DEF EraseWritePartialSector
<1> QED BY <1>2, <1>3, <1>4, <1>5, <1>6

(* The operation a step of a transfer belongs to.                          *)
LEMMA TransferOp ==
    ASSUME IndInv, NEW op \in {"readSectors", "writeSectors"},
           \/ Start(op) \/ TransferFails(op) \/ TransferReturns(op)
           \/ Running(op) /\ \E p \in Pages : ReadPage(p)
           \/ Running(op) /\ \E p \in Pages : WritePage(p)
    PROVE  call'.op = op
<1>1. call \in Call BY CallTypes DEF CallOK
<1>2. CASE Start(op) BY <1>2 DEF Start, NewCall
<1>3. CASE TransferFails(op) \/ TransferReturns(op)
  BY <1>3, ReturnOK DEF TransferFails, TransferReturns, Running
<1>4. ASSUME NEW p \in Pages, Running(op), ReadPage(p) PROVE call'.op = op
  BY <1>1, <1>4 DEF ReadPage, Running, Call
<1>5. ASSUME NEW p \in Pages, Running(op), WritePage(p) PROVE call'.op = op
  BY <1>1, <1>5 DEF WritePage, Running, Call
<1> QED BY <1>2, <1>3, <1>4, <1>5

(* Every step keeps FlushedIsDurable: a flush returns true only behind its *)
(* last page, when all of them are clean.                                  *)
LEMMA FlushedIsDurableStep ==
    ASSUME ~TornReads
    PROVE  IndInv /\ FlushedIsDurable /\ [Next]_vars => FlushedIsDurable'
<1> SUFFICES ASSUME IndInv, FlushedIsDurable, [Next]_vars, call'.op = "flush",
                    call'.result = "true"
             PROVE  disc' = View'
  BY DEF FlushedIsDurable
<1>0. call \in Call BY CallTypes DEF CallOK
<1>1. CASE ReadSectors BY <1>1, TransferOp DEF ReadSectors
<1>2. CASE WriteSectors BY <1>2, TransferOp DEF WriteSectors
<1>3. CASE PartialSector BY <1>3, PartialSectorOp DEF PartialOps
<1>4. CASE StartFlush BY <1>4 DEF StartFlush, NewCall
<1>5. CASE FlushPage BY <1>0, <1>5 DEF FlushPage, FlushRunning, Call
<1>6. CASE FlushFails
  <2>1. CASE call.op = "flush" BY <1>6, <2>1, ReturnOK DEF FlushFails
  <2>2. CASE call.op # "flush" BY <1>0, <1>6, <2>2 DEF FlushFails, Call
  <2> QED BY <2>1, <2>2
<1>7. CASE FlushReturns
  <2>1. \A p \in Pages : p < call.done
    BY <1>7, CacheAssumption DEF FlushReturns, Pages
  <2>2. \A p \in Pages : ~cacheEntries[p].dirty
    BY <1>7, <2>1 DEF FlushReturns, IndInv, FlushProgress
  <2>3. disc = View BY <2>2, AllCleanIsDurable
  <2> QED BY <1>7, <2>3 DEF FlushReturns, View
<1>8. CASE Forget BY <1>8, ReturnOK DEF Forget
<1>9. CASE Crash BY <1>9 DEF Crash, NewCall
<1>10. CASE UNCHANGED vars BY <1>10 DEF vars, FlushedIsDurable, View
<1> QED BY <1>1, <1>2, <1>3, <1>4, <1>5, <1>6, <1>7, <1>8, <1>9, <1>10 DEF Next, Flush

(* After _FAT_cache_flush has returned true, the disc holds everything     *)
(* that was written, if a failed disc read leaves the buffer alone.        *)
THEOREM FlushIsDurable == ~TornReads => (Spec => []FlushedIsDurable)
<1> SUFFICES ASSUME ~TornReads PROVE Spec => []FlushedIsDurable OBVIOUS
<1>1. Init => FlushedIsDurable BY DEF Init, FlushedIsDurable, NewCall
<1>2. IndInv /\ FlushedIsDurable /\ [Next]_vars => FlushedIsDurable'
  BY FlushedIsDurableStep
<1> QED BY <1>1, <1>2, Invariance, PTL DEF Spec

(* An iteration of readSectors keeps TransfersAgree: the pages it evicts   *)
(* show the same data from the disc.                                       *)
LEMMA TransfersAgreeRead ==
    ASSUME IndInv, ~TornReads, TransfersAgree, Running("readSectors"),
           call.done < call.numSectors, NEW p \in Pages, ReadPage(p)
    PROVE  TransfersAgree'
<1> DEFINE e == EntryAfter(p, Current)
           n == Chunk(e)
<1>0. call.op = "readSectors" /\ GetsPage(p, Current) /\ call \in Call
  BY CallTypes DEF Running, ReadPage, CallOK
<1>1. /\ Current \in Sectors /\ e.sector \in Nat /\ e.sector <= Current
      /\ n \in Nat /\ n >= 1 /\ call.done + n <= call.numSectors
      /\ Current - e.sector + n <= e.count
  BY <1>0, ChunkFacts
<1>2. View' = View
  BY ReadPageInv DEF PagesKept, IndInv, CleanPagesMatchDisc, View
<1>3. e \in CacheEntry BY <1>0, <1>1, GetPageTypes DEF IndInv
<1>4. e.count \in Nat BY <1>3, EntryTypes
<1>5. /\ call'.done = call.done + n /\ call'.sector = call.sector
      /\ \A i \in 0 .. MaxTransfer - 1 : call'.buffer[i] =
            IF i >= call.done /\ i < call.done + n
            THEN e.cache[call.sector + i - e.sector] ELSE call.buffer[i]
  <2>1. DOMAIN call.buffer = 0 .. MaxTransfer - 1 BY CallTypes DEF Buffer
  <2> HIDE DEF e, n
  <2> QED BY <1>0, <2>1 DEF ReadPage, Call, e, n
<1>6. ASSUME NEW i \in 0 .. (call.done + n) - 1
      PROVE  call'.buffer[i] = View[call.sector + i]
  <2>1. i \in 0 .. MaxTransfer - 1
    <3> HIDE DEF n
    <3> QED BY <1>1, CallTypes, CacheAssumption
  <2>2. CASE i < call.done
    <3>1. call.buffer[i] = View[call.sector + i]
      BY <1>0, <2>2, CallTypes DEF TransfersAgree
    <3> QED BY <1>5, <2>1, <2>2, <3>1, CallTypes
  <2>3. CASE ~(i < call.done)
    <3> DEFINE x == call.sector + i
    <3>1. i >= call.done /\ i < call.done + n
      <4> HIDE DEF n
      <4> QED BY <1>1, <2>3, CallTypes
    <3>2. x \in Sectors /\ Holds(e, x)
      <4> HIDE DEF e, n
      <4> QED BY <1>1, <1>4, <3>1, CallTypes, CacheAssumption DEF Sectors, Holds, Current, CallOK
    <3>3. View[x] = e.cache[x - e.sector]
      BY <1>0, <1>1, <3>2, GotPageShowsView
    <3>4. x - e.sector = call.sector + i - e.sector
      <4> HIDE DEF e
      <4> QED BY <1>1, CallTypes
    <3> HIDE DEF e, n
    <3> QED BY <1>5, <2>1, <3>1, <3>3, <3>4
  <2> QED BY <2>2, <2>3
<1> HIDE DEF e, n
<1> QED BY <1>2, <1>5, <1>6 DEF TransfersAgree

(* So does one of writeSectors: it changes the sectors of its own page     *)
(* only.                                                                   *)
LEMMA TransfersAgreeWrite ==
    ASSUME IndInv, ~TornReads, TransfersAgree, Running("writeSectors"),
           call.done < call.numSectors, NEW p \in Pages, WritePage(p)
    PROVE  TransfersAgree'
<1> DEFINE n == Chunk(EntryAfter(p, Current))
<1>0. call.op = "writeSectors" /\ call \in Call BY CallTypes DEF Running, CallOK
<1>1. /\ n \in 1 .. call.numSectors - call.done
      /\ call' = [call EXCEPT !.done = call.done + n]
      /\ \A x \in Sectors : View'[x] =
           IF x >= Current /\ x < Current + n THEN call.buffer[x - call.sector] ELSE View[x]
  BY WritePageInv
<1> HIDE DEF n
<1>2. /\ call'.done = call.done + n /\ call'.sector = call.sector
      /\ call'.buffer = call.buffer
  BY <1>0, <1>1 DEF Call
<1>3. ASSUME NEW i \in 0 .. (call.done + n) - 1
      PROVE  call.buffer[i] = View'[call.sector + i]
  <2>1. call.sector + i \in Sectors /\ (call.sector + i) - call.sector = i
    BY <1>1, CallTypes, CacheAssumption DEF CallOK, Sectors
  <2>2. CASE i < call.done
    <3>1. call.buffer[i] = View[call.sector + i]
      BY <1>0, <2>2, CallTypes DEF TransfersAgree
    <3>2. call.sector + i < Current BY <2>2, CallTypes DEF Current
    <3>3. ~(call.sector + i >= Current) BY <3>2, CallTypes DEF Current
    <3> QED BY <1>1, <2>1, <3>1, <3>3
  <2>3. CASE ~(i < call.done)
    <3>1. call.sector + i >= Current /\ call.sector + i < Current + n
      BY <1>1, <2>3, CallTypes DEF Current
    <3> QED BY <1>1, <2>1, <3>1
  <2> QED BY <2>2, <2>3
<1> QED BY <1>2, <1>3 DEF TransfersAgree

(* Every step keeps TransfersAgree.                                        *)
LEMMA TransfersAgreeStep ==
    ASSUME ~TornReads
    PROVE  IndInv /\ TransfersAgree /\ [Next]_vars => TransfersAgree'
<1> SUFFICES ASSUME IndInv, TransfersAgree, [Next]_vars PROVE TransfersAgree' OBVIOUS
<1>0. ASSUME call'.done = 0 PROVE TransfersAgree' BY <1>0 DEF TransfersAgree
<1>1. CASE ReadSectors
  BY <1>0, <1>1, StartInv, TransferFailsInv, TransferReturnsInv, TransfersAgreeRead
     DEF ReadSectors
<1>2. CASE WriteSectors
  BY <1>0, <1>2, StartInv, TransferFailsInv, TransferReturnsInv, TransfersAgreeWrite
     DEF WriteSectors
<1>3. CASE PartialSector BY <1>3, PartialSectorOp DEF TransfersAgree, PartialOps
<1>4. CASE Flush
  <2>1. CASE StartFlush BY <1>0, <2>1 DEF StartFlush, NewCall
  <2>2. CASE FlushReturns \/ Forget BY <1>0, <2>2, ReturnOK DEF FlushReturns, Forget
  <2>3. CASE FlushPage \/ FlushFails
    <3>1. call \in Call BY CallTypes DEF CallOK
    <3>2. call'.op = call.op
      BY <2>3, <3>1, ReturnOK DEF FlushPage, FlushFails, Call
    <3>3. call.op \in FlushOps BY <2>3 DEF FlushPage, FlushFails, FlushRunning
    <3> QED BY <3>2, <3>3 DEF TransfersAgree, FlushOps
  <2> QED BY <1>4, <2>1, <2>2, <2>3 DEF Flush
<1>5. CASE Crash BY <1>0, <1>5 DEF Crash, NewCall
<1>6. CASE UNCHANGED vars BY <1>6 DEF vars, TransfersAgree, View
<1> QED BY <1>1, <1>2, <1>3, <1>4, <1>5, <1>6 DEF Next

(* What a transfer of several sectors has read is what the sectors hold,   *)
(* and what it has written reads back, although later pages of the same    *)
(* transfer evict the earlier ones.                                        *)
THEOREM TransfersStayRight == ~TornReads => (Spec => []TransfersAgree)
<1> SUFFICES ASSUME ~TornReads PROVE Spec => []TransfersAgree OBVIOUS
<1>1. Init => TransfersAgree BY DEF Init, TransfersAgree, NewCall
<1>2. IndInv /\ TransfersAgree /\ [Next]_vars => TransfersAgree'
  BY TransfersAgreeStep
<1> QED BY <1>1, <1>2, Invariance, PTL DEF Spec

-----------------------------------------------------------------------------
(* The one array of sectors that the cache implements *)

(* The sets of the two specifications are the same.                        *)
LEMMA SameSets ==
    /\ Abstract!Sectors = Sectors
    /\ Abstract!Offsets = Offsets
    /\ Abstract!Content = Content
    /\ Abstract!Zeroes = Erased
    /\ Abstract!Empty = NoData
BY DEF Abstract!Sectors, Abstract!Offsets, Abstract!Content, Abstract!Zeroes, Abstract!Empty,
       Sectors, Offsets, Content, Erased, NoData

(* A step that changes no sector's data brings the disc closer to it at    *)
(* most: the store may catch up at any time.                               *)
LEMMA KeptCatchesUp ==
    ASSUME IndInv, ~TornReads, PagesKept(disc', cacheEntries')
    PROVE  Abstract!CatchUp /\ View' = View
<1>1. CleanMatch(disc, cacheEntries) BY DEF IndInv, CleanPagesMatchDisc
<1>2. View' = View BY <1>1 DEF PagesKept, View
<1>3. /\ disc' \in [Sectors -> Content]
      /\ \A x \in Sectors : disc'[x] \in {disc[x], View[x]}
  BY <1>1 DEF PagesKept
<1> QED BY <1>2, <1>3, SameSets DEF Abstract!CatchUp

(* A transfer is visible as it is.                                         *)
LEMMA VisibleTransfer ==
    ASSUME call.op \notin FlushOps PROVE VisibleCall = call
BY DEF VisibleCall

(* Making a call makes the request.                                        *)
LEMMA StartRefines ==
    ASSUME IndInv, NEW op \in {"readSectors", "writeSectors"}, Start(op)
    PROVE  Abstract!Request
<1>1. PICK s \in Sectors, n \in 0 .. MaxTransfer, b \in Buffer :
        call' = NewCall(op, s, n, b)
  BY CallSectorsInPartition DEF Start
<1>2. call'.op = op BY <1>1 DEF NewCall
<1>3. VisibleCall' = NewCall(op, s, n, b)
  BY <1>1, <1>2 DEF VisibleCall, FlushOps
<1>4. View' = View /\ disc' = disc BY DEF Start, View
<1>5. call \in Call BY CallTypes DEF CallOK
<1>6. VisibleCall.result = call.result BY <1>5 DEF VisibleCall, Call
<1>7. Abstract!Answered BY <1>6 DEF Start, Returned, Abstract!Answered
<1>8. VisibleCall' \in
         [op : {"readSectors", "writeSectors", "flush", "invalidate", "destructor"},
          sector : Abstract!Sectors, numSectors : 0 .. MaxTransfer, done : {0},
          buffer : [0 .. MaxTransfer - 1 -> Abstract!Content], result : {"pending"}]
  BY <1>3, SameSets DEF NewCall, Buffer
<1> QED BY <1>4, <1>7, <1>8 DEF Abstract!Request

(* An iteration of readSectors reads some sectors of the store.            *)
LEMMA ReadPageRefines ==
    ASSUME IndInv, ~TornReads, Running("readSectors"), call.done < call.numSectors,
           NEW p \in Pages, ReadPage(p)
    PROVE  Abstract!ReadSome
<1> DEFINE e == EntryAfter(p, Current)
           n == Chunk(e)
           c == [i \in 0 .. MaxTransfer - 1 |->
                   IF i >= call.done /\ i < call.done + n
                   THEN View[call.sector + i] ELSE call.buffer[i]]
<1>0. call.op = "readSectors" /\ call.result = "pending" /\ GetsPage(p, Current) /\ call \in Call
  BY CallTypes DEF Running, ReadPage, CallOK
<1>1. /\ Current \in Sectors /\ e.sector \in Nat /\ e.sector <= Current
      /\ n \in Nat /\ n >= 1 /\ call.done + n <= call.numSectors
      /\ Current - e.sector + n <= e.count
  BY <1>0, ChunkFacts
<1>2. Abstract!CatchUp /\ View' = View BY ReadPageInv, KeptCatchesUp
<1>3. e \in CacheEntry BY <1>0, <1>1, GetPageTypes DEF IndInv
<1>4. e.count \in Nat BY <1>3, EntryTypes
<1>5. ASSUME NEW i \in 0 .. MaxTransfer - 1, i >= call.done, i < call.done + n
      PROVE  e.cache[call.sector + i - e.sector] = View[call.sector + i]
  <2> DEFINE x == call.sector + i
  <2>1. x \in Sectors /\ Holds(e, x)
    <3> HIDE DEF e, n
    <3> QED BY <1>1, <1>4, <1>5, CallTypes, CacheAssumption
            DEF Sectors, Holds, Current, CallOK
  <2>2. View[x] = e.cache[x - e.sector] BY <1>0, <1>1, <2>1, GotPageShowsView
  <2>3. x - e.sector = call.sector + i - e.sector
    <3> HIDE DEF e
    <3> QED BY <1>1, CallTypes
  <2> QED BY <2>2, <2>3
<1>6. call' = [call EXCEPT !.done = call.done + n, !.buffer = c]
  <2> DEFINE c2 == [i \in 0 .. MaxTransfer - 1 |->
                   IF i >= call.done /\ i < call.done + n
                   THEN e.cache[call.sector + i - e.sector] ELSE call.buffer[i]]
  <2>1. DOMAIN call.buffer = 0 .. MaxTransfer - 1 BY CallTypes DEF Buffer
  <2>2. call' = [call EXCEPT !.done = call.done + n, !.buffer = c2] BY <2>1 DEF ReadPage
  <2>3. c2 = c
    <3> HIDE DEF e, n
    <3> QED BY <1>5
  <2> HIDE DEF c, c2, n
  <2> QED BY <2>2, <2>3
<1>7. VisibleCall = call /\ VisibleCall' = call'
  <2>1. call'.op = call.op
    <3> HIDE DEF c, n
    <3> QED BY <1>0, <1>6 DEF Call
  <2> QED BY <1>0, <2>1 DEF VisibleCall, FlushOps
<1>8. n \in 1 .. VisibleCall.numSectors - VisibleCall.done
  <2> HIDE DEF n
  <2> QED BY <1>1, <1>7, CallTypes
<1>9. Abstract!Pending("readSectors") BY <1>0, <1>7 DEF Abstract!Pending
<1> HIDE DEF n
<1> QED BY <1>2, <1>6, <1>7, <1>8, <1>9 DEF Abstract!ReadSome

(* An iteration of writeSectors writes some sectors of the store.          *)
LEMMA WritePageRefines ==
    ASSUME IndInv, ~TornReads, Running("writeSectors"), call.done < call.numSectors,
           NEW p \in Pages, WritePage(p)
    PROVE  Abstract!WriteSome
<1> DEFINE n == Chunk(EntryAfter(p, Current))
<1>0. call.op = "writeSectors" /\ call.result = "pending" /\ call \in Call
  BY CallTypes DEF Running, CallOK
<1>1. /\ n \in 1 .. call.numSectors - call.done
      /\ call' = [call EXCEPT !.done = call.done + n]
      /\ \A x \in Sectors : disc'[x] \in {disc[x], View[x]}
      /\ \A x \in Sectors : View'[x] =
           IF x >= Current /\ x < Current + n THEN call.buffer[x - call.sector] ELSE View[x]
      /\ IndInv'
  BY WritePageInv
<1> HIDE DEF n
<1>2. VisibleCall = call /\ VisibleCall' = call'
  <2>1. call'.op = call.op BY <1>0, <1>1 DEF Call
  <2> QED BY <1>0, <2>1 DEF VisibleCall, FlushOps
<1>3. disc' \in [Sectors -> Content] BY <1>1 DEF IndInv, TypeOK
<1>4. Abstract!CatchUp BY <1>1, <1>3, SameSets DEF Abstract!CatchUp
<1>5. View' = [s \in Sectors |->
        IF s >= call.sector + call.done /\ s < call.sector + call.done + n
        THEN call.buffer[s - call.sector] ELSE View[s]]
  <2>1. View' = [s \in Sectors |-> View'[s]] BY DEF View, ViewOf
  <2> QED BY <1>1, <2>1, CallTypes DEF Current
<1>6. Abstract!Pending("writeSectors") BY <1>0, <1>2 DEF Abstract!Pending
<1> QED BY <1>1, <1>2, <1>4, <1>5, <1>6, SameSets DEF Abstract!WriteSome

(* A call on several sectors or pages that returns r *)
LEMMA ReturnRefines ==
    ASSUME IndInv, NEW r \in {"true", "false"}, Return(r)
    PROVE  Abstract!Answer(r)
<1>1. call.op \in Ops /\ call \in Call BY CallTypes DEF CallOK
<1>2. call' = [op |-> call.op, sector |-> 0, numSectors |-> 0, done |-> 0,
               buffer |-> NoData, result |-> r]
  BY DEF Return, NewCall
<1>3. VisibleCall' = call' BY <1>2 DEF VisibleCall
<1>4. VisibleCall.op = call.op BY <1>1 DEF VisibleCall, Call
<1> QED BY <1>2, <1>3, <1>4, SameSets DEF Abstract!Answer, Abstract!Settled

(* A transfer that returns true has done all of the request.               *)
LEMMA TransferReturnsRefines ==
    ASSUME IndInv, NEW op \in {"readSectors", "writeSectors"}, TransferReturns(op)
    PROVE  Abstract!TransferAnswers
<1>1. call.op = op /\ call.result = "pending" /\ call.done = call.numSectors
  BY DEF TransferReturns, Running
<1>2. VisibleCall = call BY <1>1, VisibleTransfer DEF FlushOps
<1>3. View' = View /\ disc' = disc BY DEF TransferReturns, View
<1>4. Abstract!Answer("true") BY ReturnRefines DEF TransferReturns
<1> QED BY <1>1, <1>2, <1>3, <1>4 DEF Abstract!TransferAnswers, Abstract!Pending

(* A transfer that returns false leaves the request half done.             *)
LEMMA TransferFailsRefines ==
    ASSUME IndInv, ~TornReads, NEW op \in {"readSectors", "writeSectors"}, TransferFails(op)
    PROVE  Abstract!TransferAnswers
<1>1. call.op = op /\ call.result = "pending" /\ call.done < call.numSectors
  BY DEF TransferFails, Running
<1>2. VisibleCall = call BY <1>1, VisibleTransfer DEF FlushOps
<1>3. Abstract!CatchUp /\ View' = View BY TransferFailsInv, KeptCatchesUp
<1>4. Abstract!Answer("false") BY ReturnRefines DEF TransferFails
<1> QED BY <1>1, <1>2, <1>3, <1>4 DEF Abstract!TransferAnswers, Abstract!Pending

-----------------------------------------------------------------------------
(* A call on part of a sector is visible as it is.                         *)
LEMMA VisiblePartial ==
    ASSUME NEW op \in PartialOps,
           NEW s, NEW c, NEW ok \in BOOLEAN, call' = PartialCall(op, s, c, ok)
    PROVE  /\ VisibleCall' = call'
           /\ VisibleCall'.op \in Abstract!PartialOps
           /\ Abstract!PartialAnswer(op, s, c, IF ok THEN "true" ELSE "false")
<1>1. call'.op = op BY DEF PartialCall
<1>2. VisibleCall' = call' BY <1>1 DEF VisibleCall, FlushOps, PartialOps
<1> QED BY <1>1, <1>2, SameSets DEF PartialOps, Abstract!PartialOps, Abstract!PartialAnswer, PartialCall

(* The bytes written over are the same.                                    *)
LEMMA SameOverlay ==
    \A old, c, offset, size :
        Abstract!Overlay(old, c, offset, size) = Patched(old, c, offset, size)
BY SameSets DEF Abstract!Overlay, Patched

(* A call that has returned is an answered request.                        *)
LEMMA AnsweredWhenReturned ==
    ASSUME IndInv, Returned PROVE Abstract!Answered
<1>1. call \in Call BY CallTypes DEF CallOK
<1>2. VisibleCall.result = call.result BY <1>1 DEF VisibleCall, Call
<1> QED BY <1>2 DEF Returned, Abstract!Answered

(* A partial access that fails changes nothing in the store.               *)
LEMMA PartialFailsRefines ==
    ASSUME IndInv, ~TornReads, Returned, NEW s \in Sectors, NEW offset \in Offsets,
           NEW size \in 1 .. BytesPerSector,
           NEW op \in PartialOps,
           PartialFails(op, s, offset, size)
    PROVE  Abstract!PartialRequest
<1>1. PagesKept(disc', cacheEntries')
  BY PagesUnchanged, GetPageFailsFacts DEF PartialFails
<1>2. Abstract!CatchUp /\ View' = View BY <1>1, KeptCatchesUp
<1>3. call' = PartialCall(op, 0, Erased, FALSE) BY DEF PartialFails
<1>4. /\ VisibleCall'.op \in Abstract!PartialOps
      /\ Abstract!PartialAnswer(op, 0, Abstract!Zeroes, "false")
  BY <1>3, VisiblePartial, SameSets
<1>5. op \in Abstract!PartialOps BY DEF PartialOps, Abstract!PartialOps
<1>6. Abstract!Answered BY AnsweredWhenReturned
<1>7. s \in Abstract!Sectors /\ offset \in Abstract!Offsets BY SameSets
<1> QED BY <1>2, <1>4, <1>5, <1>6, <1>7 DEF Abstract!PartialRequest

(* readPartialSector returns the bytes of the store.                       *)
LEMMA ReadPartialRefines ==
    ASSUME IndInv, ~TornReads, Returned, NEW s \in Sectors, NEW offset \in Offsets,
           NEW size \in 1 .. BytesPerSector, NEW p \in Pages, NEW e, e = EntryAfter(p, s),
           PartialSucceeds("readPartialSector", s, offset, size, p, e,
             [o \in Offsets |-> IF o < size THEN e.cache[s - e.sector][offset + o] ELSE 0])
    PROVE  Abstract!PartialRequest
<1> DEFINE c == [o \in Offsets |-> IF o < size THEN View[s][offset + o] ELSE 0]
<1>1. GetsPage(p, s) /\ offset + size <= BytesPerSector BY DEF PartialSucceeds
<1>2. Holds(e, s) /\ DiscAfter(p, s) \in [Sectors -> Content]
  BY <1>1, GetPageTypes DEF IndInv
<1>3. View[s] = e.cache[s - e.sector] BY <1>1, <1>2, GotPageShowsView
<1>4. call' = PartialCall("readPartialSector", s, c, TRUE)
  BY <1>3 DEF PartialSucceeds
<1>5. PagesKept(disc', cacheEntries')
  BY <1>1, <1>2, GetPageFacts DEF PartialSucceeds, PagesKept, IndInv
<1>6. Abstract!CatchUp /\ View' = View BY <1>5, KeptCatchesUp
<1>7. Abstract!Answered BY AnsweredWhenReturned
<1>8. s \in Abstract!Sectors /\ offset \in Abstract!Offsets BY SameSets
<1>9. /\ VisibleCall'.op \in Abstract!PartialOps
      /\ Abstract!PartialAnswer("readPartialSector", s, c, "true")
  <2> HIDE DEF c
  <2> QED BY <1>4, VisiblePartial DEF PartialOps
<1>10. c = [o \in Abstract!Offsets |-> IF o < size THEN View[s][offset + o] ELSE 0]
  BY SameSets
<1> HIDE DEF c
<1> QED BY <1>1, <1>6, <1>7, <1>8, <1>9, <1>10 DEF Abstract!PartialRequest

(* writePartialSector changes those bytes of the store.                    *)
LEMMA WritePartialRefines ==
    ASSUME IndInv, ~TornReads, Returned, NEW s \in Sectors, NEW offset \in Offsets,
           NEW size \in 1 .. BytesPerSector, NEW c \in Content, NEW p \in Pages,
           PartialSucceeds("writePartialSector", s, offset, size, p,
             PatchedPage(EntryAfter(p, s), s,
               Patched(EntryAfter(p, s).cache[s - EntryAfter(p, s).sector], c, offset, size)), c)
    PROVE  Abstract!PartialRequest
<1> DEFINE e   == EntryAfter(p, s)
           new == Patched(e.cache[s - e.sector], c, offset, size)
<1>0. GetsPage(p, s) BY DEF PartialSucceeds
<1>1. offset + size <= BytesPerSector /\ call' = PartialCall("writePartialSector", s, c, TRUE)
  BY DEF PartialSucceeds
<1>2. /\ PagesOK(disc', cacheEntries')
      /\ \A x \in Sectors : disc'[x] \in {disc[x], View[x]}
      /\ View' = [View EXCEPT ![s] = Patched(View[s], c, offset, size)]
  <2>1. new \in Content BY <1>0, PatchTypes
  <2>2. Holds(e, s) BY <1>0, GetPageTypes DEF IndInv
  <2>3. View[s] = e.cache[s - e.sector] BY <1>0, <2>2, GotPageShowsView
  <2>4. new = Patched(View[s], c, offset, size) BY <2>3
  <2>5. /\ disc' = DiscAfter(p, s)
        /\ cacheEntries' = [cacheEntries EXCEPT ![p] = PatchedPage(EntryAfter(p, s), s, new)]
    BY DEF PartialSucceeds
  <2> HIDE DEF new, e
  <2> QED BY <1>0, <2>1, <2>4, <2>5, PartialWriteFacts
<1>3. Abstract!CatchUp BY <1>2, SameSets DEF Abstract!CatchUp, PagesOK
<1>4. Abstract!Answered BY AnsweredWhenReturned
<1>5. s \in Abstract!Sectors /\ offset \in Abstract!Offsets /\ c \in Abstract!Content
  BY SameSets
<1>6. /\ VisibleCall'.op \in Abstract!PartialOps
      /\ Abstract!PartialAnswer("writePartialSector", s, c, "true")
  BY <1>1, VisiblePartial DEF PartialOps
<1>7. View' = [View EXCEPT ![s] = Abstract!Overlay(View[s], c, offset, size)]
  BY <1>2, SameOverlay
<1> QED BY <1>1, <1>3, <1>4, <1>5, <1>6, <1>7 DEF Abstract!PartialRequest

(* eraseWritePartialSector zeroes the others.                              *)
LEMMA EraseWritePartialRefines ==
    ASSUME IndInv, ~TornReads, Returned, NEW s \in Sectors, NEW offset \in Offsets,
           NEW size \in 1 .. BytesPerSector, NEW c \in Content, NEW p \in Pages,
           PartialSucceeds("eraseWritePartialSector", s, offset, size, p,
             PatchedPage(EntryAfter(p, s), s, Patched(Erased, c, offset, size)), c)
    PROVE  Abstract!PartialRequest
<1>0. GetsPage(p, s) BY DEF PartialSucceeds
<1>1. offset + size <= BytesPerSector
      /\ call' = PartialCall("eraseWritePartialSector", s, c, TRUE)
  BY DEF PartialSucceeds
<1>2. /\ PagesOK(disc', cacheEntries')
      /\ \A x \in Sectors : disc'[x] \in {disc[x], View[x]}
      /\ View' = [View EXCEPT ![s] = Patched(Erased, c, offset, size)]
  <2> DEFINE new == Patched(Erased, c, offset, size)
  <2>1. new \in Content BY <1>0, PatchTypes
  <2>2. /\ disc' = DiscAfter(p, s)
        /\ cacheEntries' = [cacheEntries EXCEPT ![p] = PatchedPage(EntryAfter(p, s), s, new)]
    BY DEF PartialSucceeds
  <2> HIDE DEF new
  <2> QED BY <1>0, <2>1, <2>2, PartialWriteFacts DEF new
<1>3. Abstract!CatchUp BY <1>2, SameSets DEF Abstract!CatchUp, PagesOK
<1>4. Abstract!Answered BY AnsweredWhenReturned
<1>5. s \in Abstract!Sectors /\ offset \in Abstract!Offsets /\ c \in Abstract!Content
  BY SameSets
<1>6. /\ VisibleCall'.op \in Abstract!PartialOps
      /\ Abstract!PartialAnswer("eraseWritePartialSector", s, c, "true")
  BY <1>1, VisiblePartial DEF PartialOps
<1>7. View' = [View EXCEPT ![s] = Abstract!Overlay(Abstract!Zeroes, c, offset, size)]
  BY <1>2, SameSets, SameOverlay
<1> QED BY <1>1, <1>3, <1>4, <1>5, <1>6, <1>7 DEF Abstract!PartialRequest

(* The three of them together.                                             *)
LEMMA PartialSectorRefines ==
    ASSUME IndInv, ~TornReads, PartialSector PROVE Abstract!PartialRequest
<1>1. PICK s \in Sectors, offset \in Offsets, size \in 1 .. BytesPerSector :
        \/ \E op \in PartialOps : PartialFails(op, s, offset, size)
        \/ ReadPartialSector(s, offset, size)
        \/ \E c \in Content : WritePartialSector(s, offset, size, c)
        \/ \E c \in Content : EraseWritePartialSector(s, offset, size, c)
  BY CallSectorsInPartition DEF PartialSector
<1>2. Returned BY DEF PartialSector
<1>6. CASE \E op \in PartialOps : PartialFails(op, s, offset, size)
  BY <1>2, <1>6, PartialFailsRefines
<1>3. CASE ReadPartialSector(s, offset, size)
  BY <1>2, <1>3, ReadPartialRefines DEF ReadPartialSector
<1>4. ASSUME NEW c \in Content, WritePartialSector(s, offset, size, c)
      PROVE  Abstract!PartialRequest
  BY <1>2, <1>4, WritePartialRefines DEF WritePartialSector
<1>5. ASSUME NEW c \in Content, EraseWritePartialSector(s, offset, size, c)
      PROVE  Abstract!PartialRequest
  BY <1>2, <1>5, EraseWritePartialRefines DEF EraseWritePartialSector
<1> QED BY <1>1, <1>3, <1>4, <1>5, <1>6

-----------------------------------------------------------------------------
(* flush, invalidate and the destructor bring the disc up to date, or      *)
(* forget what it lacks.                                                   *)
LEMMA FlushRefines ==
    ASSUME IndInv, ~TornReads, Flush PROVE Abstract!BSNext
<1>0. call \in Call BY CallTypes DEF CallOK
<1>1. CASE StartFlush
  <2>1. PICK op \in FlushOps : call' = NewCall(op, 0, 0, NoData) BY <1>1 DEF StartFlush
  <2>2. VisibleCall' = NewCall(op, 0, 0, NoData)
    BY <2>1 DEF VisibleCall, NewCall
  <2>3. 0 \in Sectors /\ 0 \in 0 .. MaxTransfer BY CacheAssumption DEF Sectors
  <2>4. VisibleCall' \in
         [op : {"readSectors", "writeSectors", "flush", "invalidate", "destructor"},
          sector : Abstract!Sectors, numSectors : 0 .. MaxTransfer, done : {0},
          buffer : [0 .. MaxTransfer - 1 -> Abstract!Content], result : {"pending"}]
    BY <2>2, <2>3, SameSets, ErasedTypes DEF NewCall, Buffer, FlushOps
  <2>5. View' = View /\ disc' = disc BY <1>1 DEF StartFlush, View
  <2>6. Abstract!Answered BY <1>1, AnsweredWhenReturned DEF StartFlush
  <2>7. Abstract!Request BY <2>4, <2>5, <2>6 DEF Abstract!Request
  <2> QED BY <2>7 DEF Abstract!BSNext
<1>2. ASSUME FlushRunning
      PROVE  /\ call.op = "flush" \/ call.op = "invalidate" \/ call.op = "destructor"
             /\ VisibleCall.op = call.op /\ VisibleCall.result = "pending"
  BY <1>0, <1>2 DEF FlushRunning, FlushOps, VisibleCall, Call
<1>3. ASSUME FlushRunning, NEW n \in Nat, call' = [call EXCEPT !.done = n],
             Abstract!CatchUp, View' = View
      PROVE  Abstract!MakeDurable
  <2>1. VisibleCall' = VisibleCall
    BY <1>0, <1>3 DEF VisibleCall, Call, FlushRunning
  <2> QED BY <1>2, <1>3, <2>1 DEF Abstract!MakeDurable, Abstract!Pending
<1>4. CASE FlushPage
  <2>1. Abstract!CatchUp /\ View' = View
    BY <1>4, FlushPageFacts, KeptCatchesUp DEF IndInv
  <2>2. call.done + 1 \in Nat BY CallTypes
  <2>3. Abstract!MakeDurable BY <1>3, <1>4, <2>1, <2>2 DEF FlushPage
  <2> QED BY <2>3 DEF Abstract!BSNext
<1>5. CASE FlushFails
  <2>0. FlushRunning BY <1>5 DEF FlushFails
  <2>1. call.done \in Pages BY <1>5, CallTypes, CacheAssumption DEF FlushFails, Pages
  <2>2. PagesKept(disc', cacheEntries')
    BY <1>5, <2>1, WriteBackFacts DEF FlushFails, PagesKept, IndInv, TypeOK, PagesDisjoint
  <2>3. Abstract!CatchUp /\ View' = View BY <2>2, KeptCatchesUp
  <2>4. CASE call.op = "flush"
    <3>1. Abstract!Answer("false") BY <1>5, <2>4, ReturnRefines DEF FlushFails
    <3>2. Abstract!FlushAnswers
      BY <1>2, <2>0, <2>3, <2>4, <3>1 DEF Abstract!FlushAnswers, Abstract!Pending
    <3> QED BY <3>2 DEF Abstract!BSNext
  <2>5. CASE call.op # "flush"
    <3>1. call' = [call EXCEPT !.done = NumberOfPages] BY <1>5, <2>5 DEF FlushFails
    <3>2. Abstract!MakeDurable BY <1>3, <2>0, <2>3, <3>1, CacheAssumption
    <3> QED BY <3>2 DEF Abstract!BSNext
  <2> QED BY <2>4, <2>5
<1>6. CASE FlushReturns
  <2>1. \A p \in Pages : p < call.done
    BY <1>6, CacheAssumption DEF FlushReturns, Pages
  <2>2. \A p \in Pages : ~cacheEntries[p].dirty
    BY <1>6, <2>1 DEF FlushReturns, IndInv, FlushProgress
  <2>3. disc = View BY <2>2, AllCleanIsDurable
  <2>4. View' = View /\ disc' = disc BY <1>6 DEF FlushReturns, View
  <2>5. Abstract!Answer("true") BY <1>6, ReturnRefines DEF FlushReturns
  <2>6. FlushRunning /\ call.op = "flush"
    BY <1>6 DEF FlushReturns, Running, FlushRunning, FlushOps
  <2>7. Abstract!FlushAnswers
    BY <1>2, <2>3, <2>4, <2>5, <2>6 DEF Abstract!FlushAnswers, Abstract!Pending
  <2> QED BY <2>7 DEF Abstract!BSNext
<1>7. CASE Forget
  <2>1. View' = disc
    BY <1>7, FreePageFacts DEF Forget, View, IndInv, TypeOK
  <2>2. Abstract!Answer("true") BY <1>7, ReturnRefines DEF Forget
  <2>3. Abstract!GiveUp
    BY <1>2, <1>7, <2>1, <2>2 DEF Forget, Abstract!GiveUp, Abstract!Pending
  <2> QED BY <2>3 DEF Abstract!BSNext
<1> QED BY <1>1, <1>4, <1>5, <1>6, <1>7 DEF Flush

(* The call of a cache that has just been made is the idle request.        *)
LEMMA IdleCall ==
    LET c == [NewCall("none", 0, 0, NoData) EXCEPT !.result = "true"]
    IN  c = Abstract!Idle /\ c.op = "none"
BY SameSets DEF NewCall, Abstract!Idle, Abstract!Settled

(* A crash of the cache is a loss of power of the store.                   *)
LEMMA CrashRefines ==
    ASSUME IndInv, Crash PROVE Abstract!BSNext
<1>1. View' = disc /\ disc' = disc BY FreePageFacts DEF Crash, View, IndInv, TypeOK
<1>2. call' = Abstract!Idle /\ call'.op = "none" BY IdleCall DEF Crash
<1>3. VisibleCall' = call' BY <1>2 DEF VisibleCall, FlushOps
<1>4. Abstract!PowerLoss BY <1>1, <1>2, <1>3 DEF Abstract!PowerLoss
<1> QED BY <1>4 DEF Abstract!BSNext

(* The initial states are initial states of the store.                     *)
LEMMA InitRefines == Init => Abstract!BSInit
<1> SUFFICES ASSUME Init PROVE Abstract!BSInit OBVIOUS
<1>1. View = disc /\ disc \in [Sectors -> Content]
  BY FreePageFacts, CacheAssumption DEF Init, View, Content
<1>2. call = Abstract!Idle /\ call.op = "none" BY IdleCall DEF Init
<1>3. VisibleCall = call BY <1>2 DEF VisibleCall, FlushOps
<1> QED BY <1>1, <1>2, <1>3, SameSets DEF Abstract!BSInit

(* Every step of the cache is a step of the store or none.                 *)
LEMMA StepRefines ==
    ASSUME ~TornReads
    PROVE  IndInv /\ [Next]_vars => [Abstract!BSNext]_(Abstract!bsVars)
<1> SUFFICES ASSUME IndInv, [Next]_vars PROVE [Abstract!BSNext]_(Abstract!bsVars) OBVIOUS
<1>1. CASE ReadSectors
  <2>1. Abstract!Request \/ Abstract!ReadSome \/ Abstract!TransferAnswers
    BY <1>1, StartRefines, ReadPageRefines, TransferFailsRefines, TransferReturnsRefines
       DEF ReadSectors
  <2> QED BY <2>1 DEF Abstract!BSNext
<1>2. CASE WriteSectors
  <2>1. Abstract!Request \/ Abstract!WriteSome \/ Abstract!TransferAnswers
    BY <1>2, StartRefines, WritePageRefines, TransferFailsRefines, TransferReturnsRefines
       DEF WriteSectors
  <2> QED BY <2>1 DEF Abstract!BSNext
<1>3. CASE PartialSector BY <1>3, PartialSectorRefines DEF Abstract!BSNext
<1>4. CASE Flush BY <1>4, FlushRefines
<1>5. CASE Crash BY <1>5, CrashRefines
<1>6. CASE UNCHANGED vars
  <2>1. View' = View /\ disc' = disc /\ VisibleCall' = VisibleCall
    BY <1>6 DEF vars, View, VisibleCall
  <2> QED BY <2>1 DEF Abstract!bsVars
<1> QED BY <1>1, <1>2, <1>3, <1>4, <1>5, <1>6 DEF Next

(* The cache is a store that only a crash or a failed flush at its end can *)
(* make forget: if a failed disc read leaves the buffer alone, no eviction,*)
(* load or failure of either shows in what its callers read.               *)
THEOREM CacheImplementsStore == ~TornReads => (Spec => ImplementsBlockStore)
<1> SUFFICES ASSUME ~TornReads PROVE Spec => ImplementsBlockStore OBVIOUS
<1>1. Init => Abstract!BSInit BY InitRefines
<1>2. IndInv /\ [Next]_vars => [Abstract!BSNext]_(Abstract!bsVars) BY StepRefines
<1> QED BY <1>1, <1>2, Invariance, PTL DEF Spec, ImplementsBlockStore, Abstract!BSSpec
=============================================================================
