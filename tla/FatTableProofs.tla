--------------------------- MODULE FatTableProofs ---------------------------
(***************************************************************************)
(* Proofs that the allocation table keeps its order, for every number of   *)
(* clusters and files and every slack entry, while the cache does not fail,*)
(* and that it then implements the pool of clusters.                       *)
(***************************************************************************)
EXTENDS FatTableProps, FiniteSetTheorems, TLAPS, NaturalsInduction, WellFoundedInduction

(* The number of free clusters is a number, and at most that of clusters.  *)
LEMMA CountIsBounded ==
    ASSUME NEW T \in SUBSET Clusters
    PROVE  /\ IsFiniteSet(T)
           /\ Cardinality(T) \in 0 .. LastCluster - 1
           /\ Cardinality(T) = LastCluster - 1 => T = Clusters
<1>1. IsFiniteSet(Clusters) /\ Cardinality(Clusters) = LastCluster - 1
  BY FS_Interval, TableAssumption DEF Clusters, CLUSTER_FIRST
<1>2. /\ IsFiniteSet(T) /\ Cardinality(T) <= LastCluster - 1
      /\ Cardinality(T) = Cardinality(Clusters) => T = Clusters
  BY <1>1, FS_Subset
<1>3. Cardinality(T) \in Nat
  BY <1>2, FS_CardinalityType
<1> QED  BY <1>1, <1>2, <1>3, TableAssumption

(* The constants of the table are told apart.                              *)
LEMMA Constants ==
    /\ CLUSTER_FREE \in Entry /\ CLUSTER_EOF \in Entry /\ SlackEntry \in Entry
    /\ CLUSTER_FREE \notin Clusters /\ CLUSTER_EOF \notin Clusters
    /\ SlackEntry \notin Clusters /\ LastCluster + 1 \notin Clusters
    /\ LastCluster + 1 # CLUSTER_FREE /\ LastCluster + 1 # CLUSTER_EOF
    /\ CLUSTER_FREE # CLUSTER_EOF /\ CLUSTER_ERROR \notin Entry
    /\ Clusters \subseteq Entry /\ Entry \subseteq Nat /\ Results \subseteq Nat
    /\ \A c \in Clusters : c >= CLUSTER_FIRST /\ c <= LastCluster /\ c \in Nat
BY TableAssumption DEF Entry, Clusters, CLUSTER_FREE, CLUSTER_FIRST, Results

(* What a returned call leaves has the type of a call.                     *)
LEMMA ReturnedType ==
    ASSUME NEW op \in {"none", "unmounted", "linkFreeCluster", "statvfs"} \cup Loops,
           NEW r \in Nat
    PROVE  /\ Returned(op, r) \in Call
           /\ Returned(op, r).op = op /\ Returned(op, r).result = r
           /\ Returned(op, r).cluster = CLUSTER_FREE /\ Returned(op, r).last = CLUSTER_FREE
<1>1. (CHOOSE f \in Files : TRUE) \in Files
  BY TableAssumption
<1> QED  BY <1>1, Constants DEF Returned, Call, Entry

(* Reading an entry gives an entry.                                        *)
LEMMA NextClusterType ==
    ASSUME fat \in [Clusters -> Entry], NEW c
    PROVE  NextCluster(c) \in Entry
BY Constants DEF NextCluster

(* Writing entries keeps the table a table.                                *)
LEMMA WriteType ==
    ASSUME fat \in [Clusters -> Entry], NEW D \in SUBSET Clusters,
           NEW new \in [D -> Entry], WriteFatEntries(new)
    PROVE  fat' \in [Clusters -> Entry]
BY DEF WriteFatEntries

(* A dirty page is a copy, and the copy a count that has been there.       *)
PageOk == /\ copy \in {NoCopy, NoFSinfo, UnknownCount} \cup 0 .. TotalClusters
          /\ dirty \in BOOLEAN
          /\ dirty => copy # NoCopy

(* Writing entries keeps the page in order.                                *)
LEMMA PageType ==
    ASSUME TypeOK, NEW new, WriteFatEntries(new) \/ UNCHANGED page
    PROVE  PageOk'
<1>1. CASE UNCHANGED page
  BY <1>1 DEF page, TypeOK, PageOk
<1>2. CASE WriteFatEntries(new)
  <2>1. UNCHANGED page \/ (copy' = Copied /\ dirty' = TRUE)
    BY <1>2 DEF WriteFatEntries
  <2>2. fsinfo # NoCopy
    BY TableAssumption DEF TypeOK, NoCopy, NoFSinfo, UnknownCount
  <2>3. copy' \in {NoCopy, NoFSinfo, UnknownCount} \cup 0 .. TotalClusters
    BY <2>1 DEF page, TypeOK, Copied
  <2>4. dirty' \in BOOLEAN /\ (dirty' => copy' # NoCopy)
    <3>1. dirty \in BOOLEAN /\ (dirty => copy # NoCopy)
      BY DEF TypeOK
    <3>2. copy' = Copied => copy' # NoCopy
      BY <2>2 DEF Copied
    <3>3. (copy' = copy /\ dirty' = dirty) \/ (copy' = Copied /\ dirty' = TRUE)
      BY <2>1 DEF page
    <3>4. CASE copy' = copy /\ dirty' = dirty
      BY <3>1, <3>4, Zenon
    <3>5. CASE copy' = Copied /\ dirty' = TRUE
      BY <3>2, <3>5
    <3> QED  BY <3>3, <3>4, <3>5
  <2> QED  BY <2>3, <2>4 DEF PageOk
<1> QED  BY <1>1, <1>2

(* Without failures, writing entries changes just what it is told to.      *)
LEMMA WriteEffect ==
    ASSUME NEW D, NEW new, DOMAIN new = D, WriteFatEntries(new), ~IoErrors
    PROVE  fat' = [c \in Clusters |-> IF c \in D THEN new[c] ELSE fat[c]]
BY DEF WriteFatEntries
-----------------------------------------------------------------------------
(* linkFreeCluster keeps the types.                                        *)
LEMMA LinkType ==
    ASSUME TypeOK, NEW cluster \in Clusters \cup {CLUSTER_FREE}, NEW r \in Results,
           LinkFreeCluster(cluster, r)
    PROVE  /\ fat' \in [Clusters -> Entry]
           /\ firstFree' \in CLUSTER_FIRST .. LastCluster + 1
           /\ numberFreeCluster' \in 0 .. TotalClusters
           /\ PageOk'
<1>1. PICK curLink \in Entry : LinkFreeCluster(cluster, r)!(curLink)
  BY DEF LinkFreeCluster
<1>p. PageOk'
  <2>1. \/ UNCHANGED page
        \/ WriteFatEntries([c \in {cluster, r} \cap Clusters |-> IF c = r THEN CLUSTER_EOF ELSE r])
    BY <1>1 DEF page
  <2> DEFINE new == [c \in {cluster, r} \cap Clusters |-> IF c = r THEN CLUSTER_EOF ELSE r]
  <2> HIDE DEF new
  <2> QED  BY <2>1, PageType DEF new
<1> USE DEF TypeOK
<1>2. CASE UNCHANGED <<fat, firstFree, numberFreeCluster, page>>
  BY <1>2, <1>p
<1>3. CASE firstFree' = LastCluster + 1 /\ UNCHANGED <<fat, numberFreeCluster, page>>
  BY <1>3, <1>p, TableAssumption DEF CLUSTER_FIRST
<1>4. CASE /\ Finds(r) /\ firstFree' = r
           /\ numberFreeCluster' = numberFreeCluster - (IF numberFreeCluster > 0 THEN 1 ELSE 0)
           /\ WriteFatEntries([c \in {cluster, r} \cap Clusters |->
                                  IF c = r THEN CLUSTER_EOF ELSE r])
  <2>1. r \in CLUSTER_FIRST .. LastCluster + 1
    BY <1>4, TableAssumption
       DEF Finds, Searched, SearchStart, Clusters, CLUSTER_FIRST
  <2>2. r \in Entry
    BY <2>1, TableAssumption DEF Entry, Clusters, CLUSTER_FIRST
  <2>3. [c \in {cluster, r} \cap Clusters |-> IF c = r THEN CLUSTER_EOF ELSE r]
          \in [{cluster, r} \cap Clusters -> Entry]
    BY <2>2, Constants
  <2>4. fat' \in [Clusters -> Entry]
    <3> HIDE DEF TypeOK
    <3>1. fat \in [Clusters -> Entry]  BY DEF TypeOK
    <3> QED  BY <1>4, <2>3, <3>1, WriteType, {cluster, r} \cap Clusters \in SUBSET Clusters
  <2>5. numberFreeCluster' \in 0 .. TotalClusters
    BY <1>4, TableAssumption
  <2> QED  BY <1>4, <1>p, <2>1, <2>4, <2>5
<1> QED  BY <1>1, <1>2, <1>3, <1>4

(* The types are kept by every step, whatever the cache does.              *)
LEMMA TypeStep == TypeOK /\ [Next \/ Statvfs]_vars => TypeOK'
<1> SUFFICES ASSUME TypeOK, [Next \/ Statvfs]_vars PROVE TypeOK'
  OBVIOUS
<1>t. /\ fat \in [Clusters -> Entry]
      /\ firstFree \in CLUSTER_FIRST .. LastCluster + 1
      /\ numberFreeCluster \in 0 .. TotalClusters
      /\ fsinfo \in {NoFSinfo, UnknownCount} \cup 0 .. TotalClusters
      /\ PageOk /\ off \in BOOLEAN
      /\ start \in [Files -> Clusters \cup {CLUSTER_FREE}]
      /\ call \in Call
  BY DEF TypeOK, PageOk
<1>n. \A c : NextCluster(c) \in Entry /\ (\A v : Reads(c, v) => v \in Entry)
  BY <1>t, NextClusterType, Constants DEF Reads
<1>f. FreeClusterCount \in 0 .. LastCluster - 1
  BY CountIsBounded, FreeClusters \in SUBSET Clusters DEF FreeClusterCount, FreeClusters
<1>w. ASSUME NEW c \in Entry, NEW e \in Entry,
             WriteFatEntries([d \in {c} \cap Clusters |-> e])
      PROVE  /\ fat' \in [Clusters -> Entry]
             /\ PageOk'
  <2>1. [d \in {c} \cap Clusters |-> e] \in [{c} \cap Clusters -> Entry]
    OBVIOUS
  <2>2. fat' \in [Clusters -> Entry]
    BY <1>t, <1>w, <2>1, WriteType, {c} \cap Clusters \in SUBSET Clusters
  <2> QED  BY <1>w, <2>2, PageType
<1>1. ASSUME NEW f \in Files, StartChain(f) PROVE TypeOK'
  <2>1. PICK r \in Results :
           /\ LinkFreeCluster(CLUSTER_FREE, r)
           /\ start' = [start EXCEPT ![f] = IF r \in Clusters THEN r ELSE @]
           /\ call' = Returned("linkFreeCluster", r)
    BY <1>1 DEF StartChain
  <2>2. r \in Nat
    BY Constants
  <2>3. call' \in Call
    BY <2>1, <2>2, ReturnedType
  <2>4. start' \in [Files -> Clusters \cup {CLUSTER_FREE}]
    BY <2>1, <1>t
  <2> QED  BY <1>1, <2>1, <2>3, <2>4, LinkType, <1>t DEF PageOk, TypeOK, StartChain
<1>2. ASSUME NEW c \in Clusters, ExtendChain(c) PROVE TypeOK'
  <2>1. PICK r \in Results :
           /\ LinkFreeCluster(c, r)
           /\ call' = Returned("linkFreeCluster", r)
    BY <1>2 DEF ExtendChain
  <2>2. call' \in Call
    BY <2>1, ReturnedType, Constants
  <2> QED  BY <1>2, <2>1, <2>2, LinkType, <1>t DEF PageOk, TypeOK, ExtendChain
<1>s. ASSUME NEW f \in Files, NEW c \in Clusters, NEW l \in Entry, StartClearing(f, c, l)
      PROVE  firstFree' \in CLUSTER_FIRST .. LastCluster + 1 /\ call' \in Call
  <2>1. firstFree' \in CLUSTER_FIRST .. LastCluster + 1
    BY <1>s, <1>t, Constants, TableAssumption DEF StartClearing, CLUSTER_FIRST
  <2>2. call' \in Call
    <3>1. Returned("clear", 0) \in Call
      BY ReturnedType DEF Loops
    <3> QED  BY <1>s, <3>1, Constants DEF StartClearing, Call
  <2> QED  BY <2>1, <2>2
<1>3. ASSUME NEW f \in Files, DropChain(f) PROVE TypeOK'
  BY <1>3, <1>s, <1>t, Constants DEF PageOk, TypeOK, DropChain, page
<1>4. ASSUME NEW f \in Files, NEW n \in 1 .. LastCluster, TrimChain(f, n) PROVE TypeOK'
  <2>1. PICK next :
          /\ Reads(start[f], next)
          /\ call' = [Returned("walk", 0) EXCEPT !.file = f, !.last = start[f],
                        !.cluster = next, !.length = n - 1]
    BY <1>4, Zenon DEF TrimChain
  <2>6. next \in Entry
    BY <2>1, <1>n
  <2>2. start[f] \in Entry
    BY Constants, <1>t
  <2>3. n - 1 \in Nat
    BY TableAssumption
  <2>4. Returned("walk", 0) \in Call
    BY ReturnedType DEF Loops
  <2>5. call' \in Call
    BY <2>1, <2>2, <2>3, <2>4, <2>6 DEF Call
  <2> QED  BY <1>4, <2>5, <1>t DEF PageOk, TypeOK, TrimChain, page
<1>5. ASSUME Mount \/ Statvfs PROVE TypeOK'
  <2>1. /\ numberFreeCluster' \in 0 .. TotalClusters
        /\ fsinfo' \in {NoFSinfo, UnknownCount} \cup 0 .. TotalClusters
        /\ PageOk'
    <3>1. ReadFSinfo  BY <1>5 DEF Mount, Statvfs
    <3>2. CASE FilesysType = "FS_FAT32" /\ HasCount /\ numberFreeCluster' = fsinfo
                    /\ UNCHANGED <<fsinfo, page>>
      BY <3>2, <1>t DEF HasCount, page, PageOk
    <3>3. CASE /\ \E n \in 0 .. LastCluster : Counts(n) /\ numberFreeCluster' = n
               /\ copy' = (IF InfoPage = {} THEN copy ELSE Copied) /\ UNCHANGED dirty
               /\ \/ fsinfo' = numberFreeCluster'
                  \/ IoErrors /\ fsinfo' \in {fsinfo, Copied}
      <4>1. PICK n \in 0 .. LastCluster : Counts(n) /\ numberFreeCluster' = n
        BY <3>3
      <4>2. n \in 0 .. TotalClusters
        BY <4>1, <1>f, TableAssumption DEF Counts, CLUSTER_FIRST
      <4>3. Copied \in {NoFSinfo, UnknownCount} \cup 0 .. TotalClusters
        BY <1>t DEF Copied, PageOk
      <4> QED  BY <3>3, <4>1, <4>2, <4>3, <1>t DEF PageOk, NoCopy, NoFSinfo, UnknownCount
    <3>4. CASE UNCHANGED <<numberFreeCluster, fsinfo, page>>
      BY <3>4, <1>t DEF page, PageOk
    <3> QED  BY <3>1, <3>2, <3>3, <3>4 DEF ReadFSinfo
  <2>2. call' \in Call
    <3>1. CASE Mount  BY <3>1, ReturnedType DEF Mount
    <3>2. CASE Statvfs
      <4>1. (IF FilesysType = "FS_FAT32" THEN numberFreeCluster' ELSE FreeClusterCount) \in Nat
        BY <2>1, <1>f, TableAssumption
      <4> QED  BY <3>2, <4>1, ReturnedType DEF Statvfs
    <3> QED  BY <1>5, <3>1, <3>2
  <2>3. off' \in BOOLEAN
    BY <1>5, <1>t DEF Mount, Statvfs
  <2> QED  BY <1>5, <2>1, <2>2, <2>3, <1>t DEF PageOk, TypeOK, Mount, Statvfs
<1>6. ASSUME Unmount PROVE TypeOK'
  <2>1. call' \in Call
    BY <1>6, ReturnedType DEF Unmount
  <2>2. WrittenFSinfo \in {NoFSinfo, UnknownCount} \cup 0 .. TotalClusters
    BY <1>t DEF WrittenFSinfo
  <2>3. fsinfo' \in {NoFSinfo, UnknownCount} \cup 0 .. TotalClusters /\ off' \in BOOLEAN
    BY <1>6, <2>2, <1>t DEF Unmount, PageOk, NoCopy
  <2>4. firstFree' \in CLUSTER_FIRST .. LastCluster + 1 /\ numberFreeCluster' \in 0 .. TotalClusters
    BY <1>6, TableAssumption DEF Unmount, CLUSTER_FIRST
  <2> QED  BY <1>6, <2>1, <2>3, <2>4, <1>t DEF PageOk, TypeOK, Unmount
<1>7. ASSUME ClearLink PROVE TypeOK'
  <2>1. call' \in Call /\ call.cluster \in Entry
    BY <1>7, <1>t DEF ClearLink, Call
  <2>2. /\ fat' \in [Clusters -> Entry]
        /\ PageOk'
    BY <1>7, <1>w, <2>1, Constants DEF ClearLink
  <2>3. numberFreeCluster' \in 0 .. TotalClusters
    BY <1>7, <1>t, TableAssumption DEF ClearLink
  <2> QED  BY <1>7, <2>1, <2>2, <2>3, <1>t DEF PageOk, TypeOK, ClearLink
<1>8. ASSUME WalkOn PROVE TypeOK'
  <2>2. call.length - 1 \in Nat /\ call.cluster \in Entry
    BY <1>8, <1>t DEF WalkOn, Call
  <2>1. call' \in Call
    BY <1>8, <1>t, <2>2 DEF WalkOn, Call
  <2> QED  BY <1>8, <2>1, <1>t DEF PageOk, TypeOK, WalkOn, page
<1>9. ASSUME DropRest PROVE TypeOK'
  <2>1. call.file \in Files /\ call.last \in Entry
    BY <1>t DEF Call
  <2> QED  BY <1>9, <2>1, <1>s, <1>t DEF PageOk, TypeOK, DropRest, page
<1>10. ASSUME FinishChain PROVE TypeOK'
  <2>1. call.file \in Files /\ call.last \in Entry
    BY <1>t DEF Call
  <2>2. call' \in Call
    BY <1>10, ReturnedType DEF FinishChain
  <2>3. start' \in [Files -> Clusters \cup {CLUSTER_FREE}]
    BY <1>10, <1>t DEF FinishChain
  <2>4. /\ fat' \in [Clusters -> Entry]
        /\ PageOk'
    BY <1>10, <1>t, <1>w, <2>1, Constants DEF FinishChain, page, PageOk
  <2> QED  BY <1>10, <2>2, <2>3, <2>4, <1>t DEF PageOk, TypeOK, FinishChain
<1>11. ASSUME UNCHANGED vars PROVE TypeOK'
  BY <1>11, <1>t DEF PageOk, TypeOK, vars
<1>12. ASSUME CachePage PROVE TypeOK'
  <2>1. fsinfo' \in {NoFSinfo, UnknownCount} \cup 0 .. TotalClusters
    BY <1>12, <1>t DEF PageOk, NoCopy, CachePage, WriteBackPage, DropPage
  <2> QED  BY <1>12, <2>1, <1>t DEF PageOk, TypeOK, CachePage
<1> QED
  BY <1>1, <1>2, <1>3, <1>4, <1>5, <1>6, <1>7, <1>8, <1>9, <1>10, <1>11, <1>12
  DEF Next, Calls, Progress

(* The types hold in every initial state.                                  *)
LEMMA TypeInit == Init => TypeOK
<1> SUFFICES ASSUME Init PROVE TypeOK
  OBVIOUS
<1>1. call \in Call
  BY ReturnedType DEF Init
<1>2. FreeClusterCount \in 0 .. LastCluster - 1
  BY CountIsBounded, FreeClusters \in SUBSET Clusters DEF FreeClusterCount, FreeClusters
<1>3. fat \in [Clusters -> Entry] /\ start \in [Files -> Clusters \cup {CLUSTER_FREE}]
  BY DEF Init, Entry
<1>4. dirty \in BOOLEAN /\ (dirty => copy # NoCopy) /\ off \in BOOLEAN
  BY DEF Init
<1>5. copy \in {NoCopy, NoFSinfo, UnknownCount} \cup 0 .. TotalClusters
  BY DEF Init
<1>6. fsinfo \in {NoFSinfo, UnknownCount} \cup 0 .. TotalClusters
  BY <1>2, TableAssumption DEF Init
<1> QED  BY <1>1, <1>3, <1>4, <1>5, <1>6, TableAssumption DEF Init, TypeOK, CLUSTER_FIRST

(* Type correctness: the table, the hint, the counts and the state of the  *)
(* loops stay within their ranges, whatever the cache does and whether or  *)
(* not statvfs is called.                                                  *)
THEOREM TableTypeCorrect == StatSpec => []TypeOK
BY TypeInit, TypeStep, PTL DEF StatSpec
-----------------------------------------------------------------------------
(* The parts of the invariant, for a table fa, the start clusters st and a *)
(* call ca, to move between this state and the next.                       *)
PartsOf(fa, st, ca) ==
    /\ \A c, d \in Clusters : fa[c] \in Clusters /\ fa[c] = fa[d] => c = d
    /\ \A c \in Clusters :
         fa[c] \in Clusters /\ ~(ca.op = "clear" /\ c = ca.last) => fa[fa[c]] # CLUSTER_FREE
    /\ \A f \in Files :
         st[f] \in Clusters /\ ~(ca.op = "clear" /\ ca.last = CLUSTER_FREE /\ f = ca.file) =>
             /\ fa[st[f]] # CLUSTER_FREE
             /\ \A c \in Clusters : fa[c] # st[f]
             /\ \A g \in Files : st[g] = st[f] => g = f
    /\ ca.op = "clear" /\ ca.cluster \in Clusters =>
         /\ \A c \in Clusters : fa[c] = ca.cluster => c = ca.last
         /\ \A f \in Files : st[f] = ca.cluster => ca.last = CLUSTER_FREE /\ f = ca.file
    /\ ca.op = "walk" => /\ ca.last # CLUSTER_FREE
                         /\ ca.cluster = IF ca.last \in Clusters THEN fa[ca.last] ELSE SlackEntry

(* The parts are the invariant.                                            *)
LEMMA Parts == TableInv <=> TypeOK /\ PartsOf(fat, start, call)
BY Constants DEF TableInv, NoCrossLinks, SingleLinks, LinksAreUsed, HeadsAreHeads,
   KeptEnd, Dropping, ClearsUnlinked, WalksLinks, NextCluster, PartsOf

(* Linking a free cluster r behind a used one that ends its chain, or      *)
(* behind none, keeps the links in order.                                  *)
LEMMA LinkKeepsParts ==
    ASSUME TypeOK, PartsOf(fat, start, call), Ready, ~IoErrors,
           NEW cluster \in Clusters \cup {CLUSTER_FREE},
           cluster \in Clusters => fat[cluster] # CLUSTER_FREE,
           NEW r \in Results, LinkFreeCluster(cluster, r)
    PROVE  /\ \/ fat' = fat /\ (cluster = CLUSTER_FREE => r \notin Clusters)
              \/ /\ r \in Clusters \cup {LastCluster + 1}
                 /\ fat' = [c \in Clusters |-> IF c = r THEN CLUSTER_EOF
                                               ELSE IF c = cluster THEN r ELSE fat[c]]
                 /\ r \in Clusters => fat[r] = CLUSTER_FREE
                 /\ cluster \in Clusters => fat[cluster] \notin Clusters
<1>1. PICK curLink \in Entry : LinkFreeCluster(cluster, r)!(curLink)
  BY DEF LinkFreeCluster
<1>2. curLink = NextCluster(cluster)
  BY <1>1 DEF Reads
<1>3. CASE curLink \in Clusters /\ UNCHANGED <<fat, firstFree, numberFreeCluster, page>>
  BY <1>2, <1>3, Constants DEF NextCluster
<1>4. CASE r = CLUSTER_ERROR /\ UNCHANGED <<fat, numberFreeCluster, page>>
  BY <1>4, Constants
<1>5. CASE /\ curLink \notin Clusters /\ Finds(r)
           /\ WriteFatEntries([c \in {cluster, r} \cap Clusters |->
                                  IF c = r THEN CLUSTER_EOF ELSE r])
  <2>1. fat' = [c \in Clusters |-> IF c \in {cluster, r} \cap Clusters
                    THEN [d \in {cluster, r} \cap Clusters |->
                             IF d = r THEN CLUSTER_EOF ELSE r][c] ELSE fat[c]]
    BY <1>5, WriteEffect
  <2>2. fat' = [c \in Clusters |-> IF c = r THEN CLUSTER_EOF
                                   ELSE IF c = cluster THEN r ELSE fat[c]]
    BY <2>1
  <2>3. r \in Clusters => fat[r] = CLUSTER_FREE
    BY <1>5, Constants DEF Finds, NextCluster
  <2>4. cluster \in Clusters => fat[cluster] \notin Clusters
    BY <1>2, <1>5, Constants DEF NextCluster
  <2>5. r \in Clusters \cup {LastCluster + 1}
    BY <1>5, TableAssumption
       DEF Finds, Searched, SearchStart, TypeOK, Clusters, CLUSTER_FIRST
  <2> QED  BY <2>2, <2>3, <2>4, <2>5
<1> QED  BY <1>1, <1>3, <1>4, <1>5

(* Every step keeps the links in order.                                    *)
LEMMA PartsStep ==
    ASSUME TypeOK, PartsOf(fat, start, call), ~IoErrors, [Next \/ Statvfs]_vars
    PROVE  PartsOf(fat, start, call)'
<1>t. /\ fat \in [Clusters -> Entry]
      /\ start \in [Files -> Clusters \cup {CLUSTER_FREE}]
      /\ call \in Call
  BY DEF TypeOK
<1>e. /\ CLUSTER_FREE \notin Clusters /\ CLUSTER_EOF \notin Clusters
      /\ SlackEntry \notin Clusters /\ LastCluster + 1 \notin Clusters
      /\ CLUSTER_FREE # CLUSTER_EOF /\ LastCluster + 1 # CLUSTER_FREE
  BY Constants
<1>r. \A c, v : Reads(c, v) => v = NextCluster(c)
  BY DEF Reads
<1>1. ASSUME NEW f \in Files, StartChain(f) PROVE PartsOf(fat, start, call)'
  <2>1. PICK r \in Results :
           /\ LinkFreeCluster(CLUSTER_FREE, r)
           /\ start' = [start EXCEPT ![f] = IF r \in Clusters THEN r ELSE @]
           /\ call' = Returned("linkFreeCluster", r)
    BY <1>1 DEF StartChain
  <2>2. call'.op = "linkFreeCluster"
    BY <2>1, ReturnedType, Constants
  <2>3. start[f] = CLUSTER_FREE /\ Ready
    BY <1>1 DEF StartChain
  <2>4. \/ fat' = fat /\ r \notin Clusters
        \/ /\ r \in Clusters \cup {LastCluster + 1}
           /\ fat' = [c \in Clusters |-> IF c = r THEN CLUSTER_EOF
                                         ELSE IF c = CLUSTER_FREE THEN r ELSE fat[c]]
           /\ r \in Clusters => fat[r] = CLUSTER_FREE
    BY <2>1, <2>3, LinkKeepsParts, Constants
  <2>5. \/ r \notin Clusters /\ fat' = fat
        \/ /\ r \in Clusters /\ fat[r] = CLUSTER_FREE
           /\ fat' = [fat EXCEPT ![r] = CLUSTER_EOF]
    BY <2>4, <1>t, <1>e
  <2>6. CASE r \notin Clusters /\ fat' = fat
    BY <2>1, <2>2, <2>3, <2>6, <1>t DEF PartsOf, Ready, Loops
  <2>7. CASE /\ r \in Clusters /\ fat[r] = CLUSTER_FREE
             /\ fat' = [fat EXCEPT ![r] = CLUSTER_EOF]
    <3>1. start' = [start EXCEPT ![f] = r]
      BY <2>1, <2>7
    <3>2. \A c \in Clusters : fat[c] # r
      BY <2>3, <2>7, <1>t DEF PartsOf, Ready, Loops
    <3>3. \A g \in Files : start[g] # r
      BY <2>3, <2>7, <1>t DEF PartsOf, Ready, Loops
    <3> QED  BY <2>2, <2>3, <2>7, <3>1, <3>2, <3>3, <1>t, <1>e DEF PartsOf, Ready, Loops
  <2> QED  BY <2>5, <2>6, <2>7
<1>2. ASSUME NEW k \in Clusters, ExtendChain(k) PROVE PartsOf(fat, start, call)'
  <2>1. PICK r \in Results :
           /\ LinkFreeCluster(k, r)
           /\ call' = Returned("linkFreeCluster", r)
    BY <1>2 DEF ExtendChain
  <2>2. call'.op = "linkFreeCluster"
    BY <2>1, ReturnedType, Constants
  <2>3. fat[k] # CLUSTER_FREE /\ Ready /\ start' = start
    BY <1>2 DEF ExtendChain, FreeClusters
  <2>4. \/ fat' = fat
        \/ /\ r \in Clusters \cup {LastCluster + 1}
           /\ fat' = [c \in Clusters |-> IF c = r THEN CLUSTER_EOF
                                         ELSE IF c = k THEN r ELSE fat[c]]
           /\ r \in Clusters => fat[r] = CLUSTER_FREE
           /\ fat[k] \notin Clusters
    BY <2>1, <2>3, LinkKeepsParts, Constants
  <2>5. CASE fat' = fat
    BY <2>2, <2>3, <2>5, <1>t DEF PartsOf, Ready, Loops
  <2>6. CASE /\ r = LastCluster + 1
             /\ fat' = [c \in Clusters |-> IF c = r THEN CLUSTER_EOF
                                           ELSE IF c = k THEN r ELSE fat[c]]
    <3>1. fat' = [fat EXCEPT ![k] = LastCluster + 1]
      BY <2>6, <1>t, <1>e
    <3> QED  BY <2>2, <2>3, <3>1, <1>t, <1>e DEF PartsOf, Ready, Loops
  <2>7. CASE /\ r \in Clusters /\ fat[r] = CLUSTER_FREE /\ fat[k] \notin Clusters
             /\ fat' = [c \in Clusters |-> IF c = r THEN CLUSTER_EOF
                                           ELSE IF c = k THEN r ELSE fat[c]]
    <3>1. r # k
      BY <2>3, <2>7
    <3>2. \A c \in Clusters : fat[c] # r
      BY <2>3, <2>7, <1>t DEF PartsOf, Ready, Loops
    <3>3. \A g \in Files : start[g] # r
      BY <2>3, <2>7, <1>t DEF PartsOf, Ready, Loops
    <3>4. \A c \in Clusters : /\ c = r => fat'[c] = CLUSTER_EOF
                              /\ c = k => fat'[c] = r
                              /\ c # r /\ c # k => fat'[c] = fat[c]
      BY <2>7, <3>1
    <3>5. \A c, d \in Clusters : fat'[c] \in Clusters /\ fat'[c] = fat'[d] => c = d
      BY <3>2, <3>4, <1>e, <1>t DEF PartsOf
    <3>6. \A c \in Clusters : fat'[c] \in Clusters => fat'[fat'[c]] # CLUSTER_FREE
      BY <2>3, <2>7, <3>2, <3>4, <1>e, <1>t DEF PartsOf, Ready, Loops
    <3>7. \A f \in Files : start[f] \in Clusters =>
             /\ fat'[start[f]] # CLUSTER_FREE
             /\ \A c \in Clusters : fat'[c] # start[f]
             /\ \A g \in Files : start[g] = start[f] => g = f
      BY <2>3, <2>7, <3>3, <3>4, <1>e, <1>t DEF PartsOf, Ready, Loops
    <3> QED  BY <2>2, <2>3, <3>5, <3>6, <3>7 DEF PartsOf
  <2> QED  BY <2>4, <2>5, <2>6, <2>7
<1>c. \A f \in Files, c \in Clusters : \A l : StartClearing(f, c, l) =>
         /\ call'.op = "clear" /\ call'.file = f /\ call'.cluster = c /\ call'.last = l
  BY ReturnedType DEF StartClearing, Returned, Loops
<1>3. ASSUME NEW f \in Files, DropChain(f) PROVE PartsOf(fat, start, call)'
  <2>1. /\ call'.op = "clear" /\ call'.file = f
        /\ call'.cluster = start[f] /\ call'.last = CLUSTER_FREE
        /\ start[f] \in Clusters /\ Ready /\ UNCHANGED <<fat, start>>
    BY <1>3, <1>c DEF DropChain
  <2> QED  BY <2>1, <1>t, <1>e DEF PartsOf, Ready, Loops
<1>4. ASSUME NEW f \in Files, NEW n \in 1 .. LastCluster, TrimChain(f, n)
      PROVE  PartsOf(fat, start, call)'
  <2>1. /\ call'.op = "walk" /\ call'.last = start[f] /\ call'.cluster = NextCluster(start[f])
        /\ start[f] \in Clusters /\ Ready /\ UNCHANGED <<fat, start>>
    BY <1>4, <1>r DEF TrimChain, Returned
  <2> QED  BY <2>1, <1>t, <1>e DEF PartsOf, Ready, Loops, NextCluster
<1>5. ASSUME Mount \/ Unmount \/ Statvfs PROVE PartsOf(fat, start, call)'
  <2>1. call'.op \in {"none", "unmounted", "statvfs"} /\ UNCHANGED <<fat, start>>
    BY <1>5 DEF Mount, Unmount, Statvfs, Returned
  <2>2. call.op \notin {"clear", "walk"}
    BY <1>5 DEF Mount, Unmount, Statvfs, Ready, Loops
  <2> QED  BY <2>1, <2>2 DEF PartsOf
<1>6. ASSUME ClearLink PROVE PartsOf(fat, start, call)'
  <2>1. PICK next \in Entry : next = NextCluster(call.cluster) /\ call' = [call EXCEPT !.cluster = next]
    BY <1>6, <1>r DEF ClearLink
  <2>2. /\ call'.op = "clear" /\ call'.file = call.file /\ call'.last = call.last
        /\ call'.cluster = next /\ call.op = "clear" /\ start' = start
    BY <1>6, <2>1, <1>t DEF ClearLink, Call
  <2>3. fat' = [c \in Clusters |-> IF c \in {call.cluster} \cap Clusters
                   THEN [d \in {call.cluster} \cap Clusters |-> CLUSTER_FREE][c] ELSE fat[c]]
    BY <1>6, WriteEffect DEF ClearLink
  <2>4. \A c \in Clusters : fat'[c] = IF c = call.cluster THEN CLUSTER_FREE ELSE fat[c]
    BY <2>3
  <2>5. CASE call.cluster \notin Clusters
    <3>1. call.cluster # CLUSTER_FREE
      BY <1>6 DEF ClearLink
    <3>2. fat' = fat /\ next \notin Clusters
      BY <2>1, <2>3, <2>5, <3>1, <1>t, <1>e DEF NextCluster
    <3> QED  BY <2>2, <3>2 DEF PartsOf
  <2>6. CASE call.cluster \in Clusters
    <3>1. next = fat[call.cluster]
      BY <2>1, <2>6, <1>e DEF NextCluster
    <3>2. \A c, d \in Clusters : fat'[c] \in Clusters /\ fat'[c] = fat'[d] => c = d
      BY <2>4, <1>e DEF PartsOf
    <3>3. \A c \in Clusters : fat'[c] \in Clusters /\ c # call.last => fat'[fat'[c]] # CLUSTER_FREE
      BY <2>2, <2>4, <2>6, <1>e DEF PartsOf
    <3>4. ASSUME NEW f \in Files, start[f] \in Clusters,
                 ~(call.last = CLUSTER_FREE /\ f = call.file)
          PROVE  /\ fat'[start[f]] # CLUSTER_FREE
                 /\ \A c \in Clusters : fat'[c] # start[f]
                 /\ \A g \in Files : start[g] = start[f] => g = f
      <4>1. start[f] # call.cluster
        BY <2>2, <2>6, <3>4 DEF PartsOf
      <4>2. /\ fat[start[f]] # CLUSTER_FREE
            /\ \A c \in Clusters : fat[c] # start[f]
            /\ \A g \in Files : start[g] = start[f] => g = f
        BY <2>2, <3>4 DEF PartsOf
      <4>3. \A c \in Clusters : fat'[c] # start[f]
        BY <2>4, <3>4, <4>2, <1>e
      <4> QED  BY <2>4, <3>4, <4>1, <4>2, <4>3
    <3>5. next \in Clusters => \A c \in Clusters : fat'[c] # next
      BY <2>4, <2>6, <3>1, <1>e DEF PartsOf
    <3>6. next \in Clusters =>
             \A f \in Files : start[f] = next => call.last = CLUSTER_FREE /\ f = call.file
      BY <2>2, <2>6, <3>1 DEF PartsOf
    <3> QED  BY <2>2, <3>2, <3>3, <3>4, <3>5, <3>6 DEF PartsOf
  <2> QED  BY <2>5, <2>6
<1>7. ASSUME WalkOn PROVE PartsOf(fat, start, call)'
  <2>1. /\ call'.op = "walk" /\ call'.last = call.cluster
        /\ call'.cluster = NextCluster(call.cluster) /\ call.cluster # CLUSTER_FREE
        /\ call.op = "walk" /\ UNCHANGED <<fat, start>>
    BY <1>7, <1>r, <1>t DEF WalkOn, Call
  <2> QED  BY <2>1 DEF PartsOf, NextCluster
<1>8. ASSUME DropRest PROVE PartsOf(fat, start, call)'
  <2>1. call.op = "walk" /\ call.cluster \in Clusters /\ call.file \in Files
    BY <1>8, <1>t DEF DropRest, WalkEnds, Call
  <2>2. /\ call'.op = "clear" /\ call'.cluster = call.cluster /\ call'.last = call.last
        /\ UNCHANGED <<fat, start>>
    BY <1>8, <1>c, <2>1 DEF DropRest
  <2>3. call.last \in Clusters /\ fat[call.last] = call.cluster
    BY <2>1, <1>e DEF PartsOf
  <2> QED  BY <2>1, <2>2, <2>3, <1>e DEF PartsOf
<1>9. ASSUME FinishChain PROVE PartsOf(fat, start, call)'
  <2>1. call'.op = "none"
    BY <1>9 DEF FinishChain, Returned
  <2>2. call.op \in {"walk", "clear"}
    BY <1>9 DEF FinishChain, EndOfLoops, WalkEnds
  <2>3. CASE call.last = CLUSTER_FREE
    <3>1. call.op = "clear"
      BY <2>2, <2>3 DEF PartsOf
    <3>2. start' = [start EXCEPT ![call.file] = CLUSTER_FREE] /\ fat' = fat
      BY <1>9, <2>3 DEF FinishChain
    <3>3. call.file \in Files
      BY <1>t DEF Call
    <3> QED  BY <2>1, <2>3, <3>1, <3>2, <3>3, <1>t, <1>e DEF PartsOf
  <2>4. CASE call.last # CLUSTER_FREE
    <3>1. start' = start
      BY <1>9, <2>4 DEF FinishChain
    <3>2. fat' = [c \in Clusters |-> IF c \in {call.last} \cap Clusters
                   THEN [d \in {call.last} \cap Clusters |-> CLUSTER_EOF][c] ELSE fat[c]]
      BY <1>9, <2>4, WriteEffect DEF FinishChain
    <3>3. \A c \in Clusters : fat'[c] = IF c = call.last THEN CLUSTER_EOF ELSE fat[c]
      BY <3>2
    <3>4. \A c, d \in Clusters : fat'[c] \in Clusters /\ fat'[c] = fat'[d] => c = d
      BY <3>3, <1>e DEF PartsOf
    <3>5. \A c \in Clusters : fat'[c] \in Clusters => fat'[fat'[c]] # CLUSTER_FREE
      BY <2>4, <3>3, <1>e DEF PartsOf
    <3>6. \A f \in Files : start[f] \in Clusters =>
             /\ fat'[start[f]] # CLUSTER_FREE
             /\ \A c \in Clusters : fat'[c] # start[f]
             /\ \A g \in Files : start[g] = start[f] => g = f
      <4>1. \A f \in Files : start[f] \in Clusters =>
             /\ fat[start[f]] # CLUSTER_FREE
             /\ \A c \in Clusters : fat[c] # start[f]
             /\ \A g \in Files : start[g] = start[f] => g = f
        BY <2>4 DEF PartsOf
      <4> QED  BY <3>3, <4>1, <1>e
    <3> QED  BY <2>1, <3>1, <3>4, <3>5, <3>6 DEF PartsOf
  <2> QED  BY <2>3, <2>4
<1>10. ASSUME UNCHANGED vars PROVE PartsOf(fat, start, call)'
  BY <1>10 DEF PartsOf, vars
<1>11. ASSUME CachePage PROVE PartsOf(fat, start, call)'
  BY <1>11 DEF PartsOf, CachePage
<1> QED
  BY <1>1, <1>2, <1>3, <1>4, <1>5, <1>6, <1>7, <1>8, <1>9, <1>10, <1>11
  DEF Next, Calls, Progress

(* The inductive invariant, when the cache does not fail.                  *)
LEMMA TableInvariance == ~IoErrors => (StatSpec => []TableInv)
<1> SUFFICES ASSUME ~IoErrors PROVE StatSpec => []TableInv
  OBVIOUS
<1>1. Init => TableInv
  <2> SUFFICES ASSUME Init PROVE TableInv
    OBVIOUS
  <2>1. TypeOK
    BY TypeInit
  <2>2. call.op = "unmounted"
    BY DEF Init, Returned
  <2>3. PartsOf(fat, start, call)
    BY <2>2 DEF Init, InOrder, SingleLinks, PartsOf
  <2> QED  BY <2>1, <2>3, Parts
<1>2. TableInv /\ [Next \/ Statvfs]_vars => TableInv'
  <2> SUFFICES ASSUME TableInv, [Next \/ Statvfs]_vars PROVE TableInv'
    OBVIOUS
  <2>1. TypeOK /\ PartsOf(fat, start, call)
    BY Parts
  <2>2. TypeOK'
    BY <2>1, TypeStep
  <2>3. PartsOf(fat, start, call)'
    BY <2>1, PartsStep
  <2>4. (TypeOK /\ PartsOf(fat, start, call) => TableInv)'
    BY Parts, PTL
  <2> QED  BY <2>2, <2>3, <2>4
<1> QED  BY <1>1, <1>2, PTL DEF StatSpec

(* No cross-links: on every volume, with any number of clusters and files, *)
(* whatever the table holds behind its last entry, and at every step of    *)
(* clearLinks and trimChain, no two chains of the table meet and none runs *)
(* into a free cluster, as long as the cache can read and write it.        *)
THEOREM TablesStayInOrder == ~IoErrors => (StatSpec => []NoCrossLinks)
<1>1. TableInv => NoCrossLinks
  BY DEF TableInv
<1> QED  BY <1>1, TableInvariance, PTL
-----------------------------------------------------------------------------
(* linkFreeCluster gives up only after it has seen every cluster in use,   *)
(* and the hint goes behind the last cluster only then.                    *)
LEMMA RefusalStep ==
    TypeOK /\ HintInv /\ RefusedOnlyWhenFull /\ [Next \/ Statvfs]_vars =>
        HintInv' /\ RefusedOnlyWhenFull'
<1> SUFFICES ASSUME TypeOK, HintInv, RefusedOnlyWhenFull, [Next \/ Statvfs]_vars
             PROVE  HintInv' /\ RefusedOnlyWhenFull'
  OBVIOUS
<1>l. ASSUME NEW k \in Clusters \cup {CLUSTER_FREE}, NEW r \in Results,
             LinkFreeCluster(k, r), call' = Returned("linkFreeCluster", r)
      PROVE  HintInv' /\ RefusedOnlyWhenFull'
  <2>1. call'.result = r /\ call'.op = "linkFreeCluster"
    BY <1>l DEF Returned
  <2>2. PICK curLink \in Entry : LinkFreeCluster(k, r)!(curLink)
    BY <1>l DEF LinkFreeCluster
  <2>3. CASE r \in Clusters /\ UNCHANGED <<fat, firstFree>>
    BY <2>1, <2>3 DEF HintInv, RefusedOnlyWhenFull, FreeClusters
  <2>4. CASE FindsNone /\ UNCHANGED fat
    <3>1. FreeClusters' = {}
      BY <2>4, Constants DEF FindsNone, FreeClusters, NextCluster, Searched
    <3> QED  BY <2>1, <3>1 DEF HintInv, RefusedOnlyWhenFull
  <2>5. CASE /\ Finds(r) /\ firstFree' = r
             /\ WriteFatEntries([c \in {k, r} \cap Clusters |-> IF c = r THEN CLUSTER_EOF ELSE r])
    <3>1. r \in Clusters \/ (r = LastCluster + 1 /\ firstFree = LastCluster + 1)
      BY <2>5, TableAssumption DEF Finds, Searched, SearchStart, TypeOK, Clusters, CLUSTER_FIRST
    <3>2. CASE r \in Clusters
      BY <2>1, <2>5, <3>2, Constants DEF HintInv, RefusedOnlyWhenFull
    <3>3. CASE r = LastCluster + 1 /\ firstFree = LastCluster + 1
      <4>1. \A c \in Clusters : fat[c] # CLUSTER_FREE
        BY <3>3 DEF HintInv, FreeClusters
      <4>2. \A c \in Clusters : fat'[c] \in {fat[c], CLUSTER_EOF, r}
        BY <2>5 DEF WriteFatEntries
      <4>3. FreeClusters' = {}
        BY <3>3, <4>1, <4>2, Constants DEF FreeClusters
      <4> QED  BY <2>1, <4>3 DEF HintInv, RefusedOnlyWhenFull
    <3> QED  BY <3>1, <3>2, <3>3
  <2> QED  BY <2>2, <2>3, <2>4, <2>5
<1>1. ASSUME NEW f \in Files, StartChain(f) PROVE HintInv' /\ RefusedOnlyWhenFull'
  BY <1>1, <1>l DEF StartChain
<1>2. ASSUME NEW k \in Clusters, ExtendChain(k) PROVE HintInv' /\ RefusedOnlyWhenFull'
  BY <1>2, <1>l DEF ExtendChain
<1>3. ASSUME NEW f \in Files, NEW c \in Clusters, NEW l, StartClearing(f, c, l)
      PROVE  HintInv' /\ RefusedOnlyWhenFull'
  <2>1. call'.op = "clear"
    BY <1>3 DEF StartClearing, Returned
  <2>2. firstFree' # LastCluster + 1
    BY <1>3, Constants, TableAssumption DEF StartClearing, TypeOK, CLUSTER_FIRST
  <2> QED  BY <2>1, <2>2 DEF HintInv, RefusedOnlyWhenFull
<1>4. ASSUME NEW f \in Files, DropChain(f) PROVE HintInv' /\ RefusedOnlyWhenFull'
  BY <1>3, <1>4 DEF DropChain
<1>5. ASSUME DropRest PROVE HintInv' /\ RefusedOnlyWhenFull'
  <2>1. call.file \in Files
    BY DEF TypeOK, Call
  <2> QED  BY <1>3, <1>5, <2>1 DEF DropRest
<1>6. ASSUME NEW f \in Files, NEW n \in 1 .. LastCluster, TrimChain(f, n)
      PROVE  HintInv' /\ RefusedOnlyWhenFull'
  <2>1. call'.op = "walk"
    BY <1>6 DEF TrimChain, Returned
  <2> QED  BY <1>6, <2>1 DEF TrimChain, HintInv, RefusedOnlyWhenFull, FreeClusters
<1>7. ASSUME Mount \/ Statvfs PROVE HintInv' /\ RefusedOnlyWhenFull'
  <2>1. call'.op \in {"none", "statvfs"}
    BY <1>7 DEF Mount, Statvfs, Returned
  <2> QED  BY <1>7, <2>1 DEF Mount, Statvfs, HintInv, RefusedOnlyWhenFull, FreeClusters
<1>8. ASSUME Unmount PROVE HintInv' /\ RefusedOnlyWhenFull'
  <2>1. call'.op = "unmounted" /\ firstFree' # LastCluster + 1
    BY <1>8, TableAssumption DEF Unmount, Returned, CLUSTER_FIRST
  <2> QED  BY <2>1 DEF HintInv, RefusedOnlyWhenFull
<1>9. ASSUME ClearLink PROVE HintInv' /\ RefusedOnlyWhenFull'
  <2>1. call'.op = "clear" /\ call.op = "clear"
    BY <1>9 DEF ClearLink, TypeOK, Call
  <2> QED  BY <1>9, <2>1 DEF ClearLink, HintInv, RefusedOnlyWhenFull
<1>10. ASSUME WalkOn PROVE HintInv' /\ RefusedOnlyWhenFull'
  <2>1. call'.op = "walk"
    BY <1>10 DEF WalkOn, TypeOK, Call
  <2> QED  BY <1>10, <2>1 DEF WalkOn, HintInv, RefusedOnlyWhenFull, FreeClusters
<1>11. ASSUME FinishChain PROVE HintInv' /\ RefusedOnlyWhenFull'
  <2>1. call'.op = "none"
    BY <1>11 DEF FinishChain, Returned
  <2>2. \A c \in Clusters : fat'[c] \in {fat[c], CLUSTER_EOF}
    BY <1>11 DEF FinishChain, WriteFatEntries, TypeOK
  <2>3. FreeClusters' \subseteq FreeClusters
    BY <2>2, Constants DEF FreeClusters
  <2> QED  BY <1>11, <2>1, <2>3 DEF FinishChain, HintInv, RefusedOnlyWhenFull
<1>12. ASSUME CachePage PROVE HintInv' /\ RefusedOnlyWhenFull'
  BY <1>12 DEF CachePage, HintInv, RefusedOnlyWhenFull, FreeClusters
<1>13. ASSUME UNCHANGED vars PROVE HintInv' /\ RefusedOnlyWhenFull'
  BY <1>13 DEF HintInv, RefusedOnlyWhenFull, FreeClusters, vars
<1> QED
  BY <1>1, <1>2, <1>4, <1>5, <1>6, <1>7, <1>8, <1>9, <1>10, <1>11, <1>12, <1>13
  DEF Next, Calls, Progress

(* Where the hint stands, and when a cluster is refused, at every step.    *)
LEMMA RefusalInvariance == StatSpec => [](HintInv /\ RefusedOnlyWhenFull)
<1>1. Init => HintInv /\ RefusedOnlyWhenFull
  BY TableAssumption DEF Init, Returned, RefusedOnlyWhenFull, HintInv, CLUSTER_FIRST
<1> QED  BY <1>1, RefusalStep, TableTypeCorrect, PTL DEF StatSpec

(* A file is refused a cluster, by CLUSTER_ERROR or by the number behind   *)
(* the last cluster, only when none is free, wherever firstFree pointed    *)
(* before the search and even when the cache fails.                        *)
THEOREM RefusalMeansFull == StatSpec => []RefusedOnlyWhenFull
BY RefusalInvariance, PTL
-----------------------------------------------------------------------------
(* How the number of free clusters changes with one of them.               *)
LEMMA CountChanges ==
    ASSUME NEW c \in Clusters
    PROVE  /\ fat[c] = CLUSTER_FREE /\ FreeClusters' = FreeClusters \ {c} =>
                FreeClusterCount' = FreeClusterCount - 1
           /\ fat[c] # CLUSTER_FREE /\ FreeClusters' = FreeClusters \cup {c} =>
                FreeClusterCount' = FreeClusterCount + 1 /\ FreeClusterCount < LastCluster - 1
<1>1. FreeClusters \in SUBSET Clusters /\ (c \in FreeClusters <=> fat[c] = CLUSTER_FREE)
  BY DEF FreeClusters
<1>2. /\ IsFiniteSet(FreeClusters) /\ FreeClusterCount \in 0 .. LastCluster - 1
      /\ FreeClusterCount = LastCluster - 1 => FreeClusters = Clusters
  BY <1>1, CountIsBounded DEF FreeClusterCount
<1>3. /\ Cardinality(FreeClusters \ {c}) =
            IF c \in FreeClusters THEN Cardinality(FreeClusters) - 1 ELSE Cardinality(FreeClusters)
  BY <1>2, FS_RemoveElement
<1>4. /\ Cardinality(FreeClusters \cup {c}) =
            IF c \in FreeClusters THEN Cardinality(FreeClusters) ELSE Cardinality(FreeClusters) + 1
  BY <1>2, FS_AddElement
<1>5. FreeClusterCount' = Cardinality(FreeClusters') /\ FreeClusterCount = Cardinality(FreeClusters)
  BY DEF FreeClusterCount
<1>6. fat[c] # CLUSTER_FREE => FreeClusterCount < LastCluster - 1
  BY <1>1, <1>2, TableAssumption
<1> QED  BY <1>1, <1>3, <1>4, <1>5, <1>6

(* linkFreeCluster takes one free cluster and counts it, or none.          *)
LEMMA LinkCounts ==
    ASSUME TypeOK, PartsOf(fat, start, call), HintInv, CountInv, Ready, ~IoErrors,
           FilesysType = "FS_FAT32", UNCHANGED off,
           NEW k \in Clusters \cup {CLUSTER_FREE},
           k \in Clusters => fat[k] # CLUSTER_FREE,
           NEW r \in Results, LinkFreeCluster(k, r),
           call' = Returned("linkFreeCluster", r)
    PROVE  CountInv'
<1>o. call'.op = "linkFreeCluster"
  BY DEF Returned
<1>t. fat \in [Clusters -> Entry] /\ numberFreeCluster \in Nat /\ FreeClusterCount \in Nat
  <2>1. FreeClusterCount \in 0 .. LastCluster - 1
    BY CountIsBounded, FreeClusters \in SUBSET Clusters DEF FreeClusterCount, FreeClusters
  <2> QED  BY <2>1, TableAssumption DEF TypeOK
<1>e. ~off => numberFreeCluster = FreeClusterCount
  BY DEF CountInv, FreeCountIsExact, Ready
<1>u. CountInv' <=> /\ \E rank \in [Clusters -> Nat] :
                          \A c \in Clusters : fat'[c] \in Clusters => rank[c] < rank[fat'[c]]
                    /\ ~off => numberFreeCluster' = FreeClusterCount'
  BY <1>o DEF CountInv, FreeCountIsExact, LinksUpwards, Looping, Loops
<1>p. PICK rank \in [Clusters -> Nat] : LinksUpwards(rank)
  BY DEF CountInv
<1>1. CASE UNCHANGED <<fat, numberFreeCluster>>
  <2>1. FreeClusterCount' = FreeClusterCount
    BY <1>1 DEF FreeClusterCount, FreeClusters
  <2>2. \A c \in Clusters : fat[c] \in Clusters => rank[c] < rank[fat[c]]
    BY <1>p DEF LinksUpwards
  <2> QED  BY <1>1, <1>u, <1>e, <2>1, <2>2
<1>2. CASE /\ Finds(r)
           /\ numberFreeCluster' = numberFreeCluster - (IF numberFreeCluster > 0 THEN 1 ELSE 0)
           /\ WriteFatEntries([c \in {k, r} \cap Clusters |-> IF c = r THEN CLUSTER_EOF ELSE r])
           /\ NextCluster(k) \notin Clusters
  <2>1. NextCluster(r) = CLUSTER_FREE /\ r \in Clusters \cup {SearchStart}
    BY <1>2 DEF Finds, Searched
  <2>2. \/ r \in Clusters /\ fat[r] = CLUSTER_FREE
        \/ r = LastCluster + 1 /\ FreeClusters = {}
    BY <2>1, TableAssumption, Constants
       DEF NextCluster, SearchStart, TypeOK, HintInv, Clusters, CLUSTER_FIRST
  <2>3. fat' = [c \in Clusters |-> IF c \in {k, r} \cap Clusters
                  THEN [d \in {k, r} \cap Clusters |-> IF d = r THEN CLUSTER_EOF ELSE r][c]
                  ELSE fat[c]]
    BY <1>2, WriteEffect
  <2>4. \A c \in Clusters : fat'[c] = IF c = r THEN CLUSTER_EOF ELSE IF c = k THEN r ELSE fat[c]
    BY <2>3
  <2>5. CASE r = LastCluster + 1 /\ FreeClusters = {}
    <3>1. FreeClusters' = {}
      BY <2>4, <2>5, Constants DEF FreeClusters
    <3>2. FreeClusterCount = 0 /\ FreeClusterCount' = 0
      BY <2>5, <3>1, FS_EmptySet DEF FreeClusterCount
    <3>3. \A c \in Clusters : fat'[c] \in Clusters => rank[c] < rank[fat'[c]]
      BY <2>4, <2>5, <1>p, Constants DEF LinksUpwards
    <3> QED  BY <1>2, <1>e, <1>u, <3>2, <3>3
  <2>6. CASE r \in Clusters /\ fat[r] = CLUSTER_FREE
    <3>1. FreeClusters' = FreeClusters \ {r}
      BY <2>4, <2>6, Constants DEF FreeClusters
    <3>2. FreeClusterCount' = FreeClusterCount - 1
      BY <2>6, <3>1, CountChanges
    <3>3. FreeClusterCount # 0
      <4>1. IsFiniteSet(FreeClusters) /\ r \in FreeClusters
        BY CountIsBounded, FreeClusters \in SUBSET Clusters, <2>6 DEF FreeClusters
      <4> QED  BY <4>1, FS_EmptySet DEF FreeClusterCount
    <3>4. ~off => numberFreeCluster' = FreeClusterCount'
      BY <1>2, <1>e, <1>t, <3>2, <3>3
    <3>5. \A c \in Clusters : fat[c] # r
      BY <2>6, <1>t DEF PartsOf, Ready, Loops
    <3>6. \A c \in Clusters : fat[c] \in Clusters => rank[c] < rank[fat[c]]
      BY <1>p DEF LinksUpwards
    <3>7. \E rk \in [Clusters -> Nat] :
             \A c \in Clusters : fat'[c] \in Clusters => rk[c] < rk[fat'[c]]
      <4>1. CASE k \in Clusters
        <5> DEFINE rk == [rank EXCEPT ![r] = rank[k] + 1]
        <5>0. rank[k] + 1 \in Nat
          BY <4>1
        <5>1. rk \in [Clusters -> Nat]
          BY <5>0
        <5>2. k # r
          BY <2>6
        <5>3. ASSUME NEW c \in Clusters, fat'[c] \in Clusters PROVE rk[c] < rk[fat'[c]]
          <6>1. CASE c = k
            BY <2>4, <2>6, <4>1, <5>2, <6>1
          <6>2. CASE c # k
            <7>1. c # r /\ fat'[c] = fat[c]
              BY <2>4, <5>3, <6>2, Constants
            <7>2. rk[c] = rank[c] /\ rk[fat[c]] = rank[fat[c]]
              BY <7>1, <5>3, <3>5
            <7> QED  BY <7>1, <7>2, <5>3, <3>6
          <6> QED  BY <6>1, <6>2
        <5> QED  BY <5>1, <5>3
      <4>2. CASE k = CLUSTER_FREE
        BY <2>4, <3>6, <4>2, Constants
      <4> QED  BY <4>1, <4>2
    <3> QED  BY <1>u, <3>4, <3>7
  <2> QED  BY <2>2, <2>5, <2>6
<1> QED
  <2>1. PICK curLink \in Entry : LinkFreeCluster(k, r)!(curLink)
    BY DEF LinkFreeCluster
  <2>2. curLink = NextCluster(k)
    BY <2>1 DEF Reads
  <2> QED  BY <2>1, <2>2, <1>1, <1>2

(* Every step keeps the count exact, or puts it off.                       *)
LEMMA CountStep ==
    ASSUME TypeOK, PartsOf(fat, start, call), HintInv, CountInv, ~IoErrors,
           FilesysType = "FS_FAT32", [Next]_vars
    PROVE  CountInv'
<1>t. /\ fat \in [Clusters -> Entry] /\ call \in Call
      /\ start \in [Files -> Clusters \cup {CLUSTER_FREE}]
      /\ numberFreeCluster \in Nat
  BY TableAssumption DEF TypeOK
<1>n. FreeClusterCount \in 0 .. LastCluster - 1
  BY CountIsBounded, FreeClusters \in SUBSET Clusters DEF FreeClusterCount, FreeClusters
<1>r. \A c, v : Reads(c, v) => v = NextCluster(c)
  BY DEF Reads
<1>o. off \in BOOLEAN
  BY DEF TypeOK
<1>p. PICK rank \in [Clusters -> Nat] : LinksUpwards(rank)
  BY DEF CountInv
<1>1. ASSUME NEW f \in Files, StartChain(f) PROVE CountInv'
  <2>1. Ready /\ UNCHANGED off
    BY <1>1 DEF StartChain
  <2>2. PICK r \in Results :
           LinkFreeCluster(CLUSTER_FREE, r) /\ call' = Returned("linkFreeCluster", r)
    BY <1>1 DEF StartChain
  <2> QED  BY <2>1, <2>2, LinkCounts, Constants
<1>2. ASSUME NEW k \in Clusters, ExtendChain(k) PROVE CountInv'
  <2>1. Ready /\ fat[k] # CLUSTER_FREE /\ UNCHANGED off
    BY <1>2 DEF ExtendChain, FreeClusters
  <2>2. PICK r \in Results :
           LinkFreeCluster(k, r) /\ call' = Returned("linkFreeCluster", r)
    BY <1>2 DEF ExtendChain
  <2> QED  BY <2>1, <2>2, LinkCounts
<1>q. ASSUME UNCHANGED <<fat, numberFreeCluster, off>>, call.op # "unmounted", call'.op \in Loops,
             call'.last \in Clusters => fat[call'.last] # CLUSTER_FREE,
             call'.op = "clear" /\ call'.cluster \in Clusters =>
                 /\ fat[call'.cluster] # CLUSTER_FREE
                 /\ call'.last \in Clusters => rank[call'.last] < rank[call'.cluster]
      PROVE  CountInv'
  <2>1. FreeClusterCount' = FreeClusterCount
    BY <1>q DEF FreeClusterCount, FreeClusters
  <2>2. ~off => numberFreeCluster = FreeClusterCount
    BY <1>q DEF CountInv, FreeCountIsExact
  <2>3. LinksUpwards(rank)'
    BY <1>p, <1>q DEF LinksUpwards
  <2> QED  BY <1>q, <2>1, <2>2, <2>3 DEF CountInv, FreeCountIsExact, Looping, Loops
<1>c. \A f \in Files, c \in Clusters : \A l : StartClearing(f, c, l) =>
         /\ call'.op = "clear" /\ call'.cluster = c /\ call'.last = l
  BY DEF StartClearing, Returned
<1>3. ASSUME NEW f \in Files, DropChain(f) PROVE CountInv'
  <2>1. /\ call'.op = "clear" /\ call'.cluster = start[f] /\ call'.last = CLUSTER_FREE
        /\ start[f] \in Clusters /\ Ready /\ UNCHANGED <<fat, numberFreeCluster, off>>
    BY <1>3, <1>c DEF DropChain
  <2>2. fat[start[f]] # CLUSTER_FREE
    BY <2>1 DEF PartsOf, Ready, Loops
  <2> QED  BY <2>1, <2>2, <1>q, Constants DEF Ready, Loops
<1>4. ASSUME NEW f \in Files, NEW n \in 1 .. LastCluster, TrimChain(f, n) PROVE CountInv'
  <2>1. /\ call'.op = "walk" /\ call'.cluster = NextCluster(start[f]) /\ call'.last = start[f]
        /\ start[f] \in Clusters /\ Ready /\ UNCHANGED <<fat, numberFreeCluster, off>>
    BY <1>4, <1>r DEF TrimChain, Returned
  <2>2. fat[start[f]] # CLUSTER_FREE
    BY <2>1 DEF PartsOf, Ready, Loops
  <2> QED  BY <2>1, <2>2, <1>q, Constants DEF Ready, Loops
<1>5. ASSUME WalkOn PROVE CountInv'
  <2>1. /\ call'.op = "walk" /\ call'.cluster = NextCluster(call.cluster)
        /\ call'.last = call.cluster
        /\ call.cluster \in Entry /\ call.op = "walk" /\ UNCHANGED <<fat, numberFreeCluster, off>>
    BY <1>5, <1>r, <1>t DEF WalkOn, Call
  <2>2. call.cluster \in Clusters => fat[call.cluster] # CLUSTER_FREE
    BY <2>1, Constants DEF PartsOf
  <2> QED  BY <2>1, <2>2, <1>q DEF Loops
<1>6. ASSUME DropRest PROVE CountInv'
  <2>1. call.op = "walk" /\ call.cluster \in Clusters /\ call.file \in Files
    BY <1>6, <1>t DEF DropRest, WalkEnds, Call
  <2>2. /\ call'.op = "clear" /\ call'.cluster = call.cluster /\ call'.last = call.last
        /\ UNCHANGED <<fat, numberFreeCluster, off>>
    BY <1>6, <1>c, <2>1 DEF DropRest
  <2>3. call.last \in Clusters /\ fat[call.last] = call.cluster
    BY <2>1, Constants DEF PartsOf
  <2>4. fat[call.cluster] # CLUSTER_FREE
    BY <2>1, <2>3 DEF PartsOf
  <2>5. rank[call.last] < rank[call.cluster]
    BY <2>1, <2>3, <1>p DEF LinksUpwards
  <2>6. fat[call.last] # CLUSTER_FREE
    BY <2>1, <2>3, Constants
  <2> QED  BY <2>1, <2>2, <2>4, <2>5, <2>6, <1>q, Constants DEF Loops
<1>7. ASSUME ClearLink PROVE CountInv'
  <2> DEFINE c == call.cluster
  <2>1. /\ call.op = "clear" /\ call'.op = "clear" /\ call'.last = call.last
        /\ call'.cluster = NextCluster(c) /\ c \in Entry
    BY <1>7, <1>r, <1>t DEF ClearLink, Call
  <2>0. CASE c \notin Clusters
    <3>1. off' = TRUE
      BY <1>7, <2>0 DEF ClearLink
    <3>2. fat' = fat
      BY <1>7, <2>0, <1>t, WriteEffect DEF ClearLink
    <3>3. call'.cluster \notin Clusters
      BY <1>7, <2>0, <2>1, Constants DEF ClearLink, NextCluster
    <3>4. LinksUpwards(rank)'
      BY <1>p, <3>2, <3>3 DEF LinksUpwards
    <3> QED  BY <2>1, <3>1, <3>2, <3>3, <3>4 DEF CountInv, FreeCountIsExact, Looping, Loops
  <2> SUFFICES ASSUME c \in Clusters PROVE CountInv'
    BY <2>0
  <2>2. c \in Clusters /\ off' = off
    BY <1>7, <1>o DEF ClearLink, TypeOK
  <2>3. fat[c] # CLUSTER_FREE
    BY <2>1, <2>2 DEF CountInv
  <2>4. fat' = [d \in Clusters |-> IF d \in {c} \cap Clusters
                   THEN [b \in {c} \cap Clusters |-> CLUSTER_FREE][d] ELSE fat[d]]
    BY <1>7, WriteEffect DEF ClearLink
  <2>5. \A d \in Clusters : fat'[d] = IF d = c THEN CLUSTER_FREE ELSE fat[d]
    BY <2>4
  <2>6. FreeClusters' = FreeClusters \cup {c}
    BY <2>2, <2>5 DEF FreeClusters
  <2>7. FreeClusterCount' = FreeClusterCount + 1 /\ FreeClusterCount < LastCluster - 1
    BY <2>2, <2>3, <2>6, CountChanges
  <2>8. ~off => numberFreeCluster = FreeClusterCount
    BY <2>1 DEF CountInv, FreeCountIsExact
  <2>9. ~off => numberFreeCluster' = FreeClusterCount'
    BY <1>7, <1>n, <2>7, <2>8, TableAssumption DEF ClearLink
  <2>10. NextCluster(c) = fat[c]
    BY <2>2, Constants DEF NextCluster
  <2>11. fat[c] \in Clusters => rank[c] < rank[fat[c]]
    BY <2>2, <1>p DEF LinksUpwards
  <2>12. call.last \in Clusters => rank[call.last] < rank[c]
    BY <2>1, <2>2, <1>p DEF LinksUpwards
  <2>13. fat[c] \in Clusters => fat'[fat[c]] # CLUSTER_FREE
    <3>1. SUFFICES ASSUME fat[c] \in Clusters PROVE fat'[fat[c]] # CLUSTER_FREE
      OBVIOUS
    <3>2. fat[c] # c
      BY <2>2, <2>11, <3>1
    <3>3. c # call.last
      BY <2>2, <2>12
    <3>4. fat[fat[c]] # CLUSTER_FREE
      BY <2>2, <3>1, <3>3 DEF PartsOf
    <3> QED  BY <2>5, <3>1, <3>2, <3>4
  <2>14. LinksUpwards(rank)'
    <3>1. \A d \in Clusters : fat'[d] \in Clusters => rank[d] < rank[fat'[d]]
      BY <2>5, <1>p, Constants DEF LinksUpwards
    <3>2. call.last \in Clusters /\ fat[c] \in Clusters => rank[call.last] < rank[fat[c]]
      <4>1. SUFFICES ASSUME call.last \in Clusters, fat[c] \in Clusters
                     PROVE  rank[call.last] < rank[fat[c]]
        OBVIOUS
      <4>2. rank[call.last] \in Nat /\ rank[c] \in Nat /\ rank[fat[c]] \in Nat
        BY <4>1, <2>2
      <4> QED  BY <4>1, <4>2, <2>11, <2>12
    <3> QED  BY <2>1, <2>10, <3>1, <3>2 DEF LinksUpwards
  <2>15. call.last \in Clusters => fat'[call.last] # CLUSTER_FREE
    <3>1. call.last \in Clusters => c # call.last
      BY <2>2, <2>12
    <3> QED  BY <2>1, <2>5, <3>1 DEF CountInv, Looping, Loops
  <2>16. \E rk \in [Clusters -> Nat] : LinksUpwards(rk)'
    BY <2>14
  <2> QED  BY <2>1, <2>9, <2>10, <2>13, <2>15, <2>16, <2>2
           DEF CountInv, FreeCountIsExact, Looping, Loops
<1>8. ASSUME FinishChain PROVE CountInv'
  <2>1. call'.op = "none" /\ call.op \in {"walk", "clear"} /\ UNCHANGED <<numberFreeCluster, off>>
    BY <1>8 DEF FinishChain, Returned, EndOfLoops, WalkEnds
  <2>2. \A c \in Clusters : fat'[c] = fat[c] \/ (c = call.last /\ fat'[c] = CLUSTER_EOF)
    <3>1. CASE call.last = CLUSTER_FREE
      BY <1>8, <3>1 DEF FinishChain
    <3>2. CASE call.last # CLUSTER_FREE
      <4>1. fat' = [d \in Clusters |-> IF d \in {call.last} \cap Clusters
                   THEN [b \in {call.last} \cap Clusters |-> CLUSTER_EOF][d] ELSE fat[d]]
        BY <1>8, <3>2, WriteEffect DEF FinishChain
      <4> QED  BY <4>1
    <3> QED  BY <3>1, <3>2
  <2>3. FreeClusters' = FreeClusters
    BY <2>1, <2>2, Constants DEF FreeClusters, CountInv, Looping, Loops
  <2>4. ~off => numberFreeCluster' = FreeClusterCount'
    BY <2>1, <2>3 DEF CountInv, FreeCountIsExact, FreeClusterCount
  <2>5. LinksUpwards(rank)'
    BY <1>p, <2>1, <2>2, Constants DEF LinksUpwards
  <2> QED  BY <2>1, <2>4, <2>5 DEF CountInv, FreeCountIsExact, Looping, Loops
<1>9. ASSUME Mount PROVE CountInv'
  <2>1. call.op = "unmounted" /\ call'.op = "none" /\ fat' = fat
    BY <1>9 DEF Mount, Returned
  <2>2. FreeClusterCount' = FreeClusterCount
    BY <2>1 DEF FreeClusterCount, FreeClusters
  <2>3. HasCount /\ ~off => fsinfo = FreeClusterCount
    BY <2>1 DEF CountInv
  <2>4. ReadFSinfo
    BY <1>9 DEF Mount
  <2>5. \A n : Counts(n) => n = FreeClusterCount
    BY <1>n, TableAssumption DEF Counts
  <2>6. ~off' => numberFreeCluster' = FreeClusterCount
    BY <1>9, <2>3, <2>4, <2>5 DEF Mount, ReadFSinfo
  <2>7. LinksUpwards(rank)'
    BY <1>p, <2>1 DEF LinksUpwards
  <2> QED  BY <2>1, <2>2, <2>6, <2>7 DEF CountInv, FreeCountIsExact, Looping, Loops
<1>10. ASSUME Unmount PROVE CountInv'
  <2>1. /\ call.op # "unmounted" /\ call'.op = "unmounted" /\ fat' = fat
        /\ copy' = NoCopy /\ ~dirty'
    BY <1>10 DEF Unmount, Returned, Ready
  <2>2. FreeClusterCount' = FreeClusterCount
    BY <2>1 DEF FreeClusterCount, FreeClusters
  <2>3. ~off' => ~off /\ fsinfo' = WrittenFSinfo
    BY <1>10 DEF Unmount
  <2>4. ~off => numberFreeCluster = FreeClusterCount
    BY <2>1 DEF CountInv, FreeCountIsExact
  <2>5. HasCount' /\ ~off' => fsinfo' = FreeClusterCount'
    BY <2>2, <2>3, <2>4 DEF HasCount, WrittenFSinfo
  <2>6. LinksUpwards(rank)'
    BY <1>p, <2>1 DEF LinksUpwards
  <2> QED  BY <2>1, <2>5, <2>6 DEF CountInv, FreeCountIsExact, Looping, Loops
<1>11. ASSUME UNCHANGED vars PROVE CountInv'
  <2>1. FreeClusterCount' = FreeClusterCount
    BY <1>11 DEF FreeClusterCount, FreeClusters, vars
  <2>2. LinksUpwards(rank)'
    BY <1>p, <1>11 DEF LinksUpwards, vars
  <2> QED  BY <1>11, <2>1, <2>2 DEF CountInv, FreeCountIsExact, HasCount, Looping, vars
<1>12. ASSUME CachePage PROVE CountInv'
  <2>1. call.op # "unmounted" /\ UNCHANGED <<fat, numberFreeCluster, start, call, off>>
    BY <1>12 DEF CachePage, WriteBackPage, DropPage, CountInv
  <2>2. FreeClusterCount' = FreeClusterCount
    BY <2>1 DEF FreeClusterCount, FreeClusters
  <2>3. LinksUpwards(rank)'
    BY <1>p, <2>1 DEF LinksUpwards
  <2> QED  BY <2>1, <2>2, <2>3 DEF CountInv, FreeCountIsExact, Looping
<1> QED
  BY <1>1, <1>2, <1>3, <1>4, <1>5, <1>6, <1>7, <1>8, <1>9, <1>10, <1>11, <1>12
  DEF Next, Calls, Progress

(* The free-cluster count of a FAT32 volume is exact, from mount to        *)
(* unmount and over any number of them, as long as the cache does not fail *)
(* and statvfs is not called in between, but where an unmount has put an   *)
(* older count back or a link behind the table has been counted; it is     *)
(* exact again once the clusters have been counted.                        *)
THEOREM FreeCountStaysExact == ~IoErrors => (Spec => []FreeCountIsExact)
<1> SUFFICES ASSUME ~IoErrors PROVE Spec => []FreeCountIsExact
  OBVIOUS
<1>1. CASE FilesysType # "FS_FAT32"
  <2>1. FreeCountIsExact
    BY <1>1 DEF FreeCountIsExact
  <2> QED  BY <2>1, PTL
<1>2. CASE FilesysType = "FS_FAT32"
  <2>1. Init => CountInv
    <3> SUFFICES ASSUME Init PROVE CountInv
      OBVIOUS
    <3>1. call.op = "unmounted"
      BY DEF Init, Returned
    <3>2. PICK rank \in [Clusters -> Clusters] :
             \A c \in Clusters : fat[c] \in Clusters => rank[c] < rank[fat[c]]
      BY DEF Init, InOrder, NoCircles
    <3>3. rank \in [Clusters -> Nat]
      BY Constants
    <3>4. LinksUpwards(rank)
      BY <3>1, <3>2 DEF LinksUpwards
    <3>5. (HasCount => fsinfo = FreeClusterCount) /\ copy = NoCopy /\ ~dirty
      BY DEF Init, HasCount
    <3> QED  BY <3>1, <3>3, <3>4, <3>5 DEF CountInv, FreeCountIsExact, Looping, Loops
  <2>2. TableInv /\ HintInv /\ CountInv /\ [Next]_vars => CountInv'
    BY <1>2, Parts, CountStep
  <2>3. CountInv => FreeCountIsExact
    BY DEF CountInv
  <2>4. Spec => StatSpec
    <3>1. [Next]_vars => [Next \/ Statvfs]_vars
      OBVIOUS
    <3> QED  BY <3>1, PTL DEF Spec, StatSpec
  <2> QED  BY <2>1, <2>2, <2>3, <2>4, TableInvariance, RefusalInvariance, PTL DEF Spec
<1> QED  BY <1>1, <1>2

(* A set of natural numbers that is not empty has a least one.             *)
LEMMA Least ==
    ASSUME NEW T \in SUBSET Nat, T # {}
    PROVE  \E x \in T : \A y \in T : x <= y
<1>1. PICK R : /\ \E x \in T : \A y \in T : ~(<<y, x>> \in R)
               /\ \A x, y \in Nat : x < y => <<x, y>> \in R
  <2>1. IsWellFoundedOn(OpToRel(<, Nat), Nat)
    BY NatLessThanWellFounded
  <2>2. \A x, y \in Nat : x < y => <<x, y>> \in OpToRel(<, Nat)
    BY Zenon DEF OpToRel
  <2>3. \E x \in T : \A y \in T : ~(<<y, x>> \in OpToRel(<, Nat))
    BY <2>1, WFMin, Zenon
  <2> QED  BY <2>2, <2>3, Zenon
<1>2. PICK x \in T : \A y \in T : ~(<<y, x>> \in R)
  BY <1>1
<1>3. ASSUME NEW y \in T PROVE x <= y
  <2>1. x \in Nat /\ y \in Nat
    OBVIOUS
  <2>2. ~(y < x)
    BY <1>1, <1>2, <2>1
  <2> QED  BY <2>1, <2>2
<1> QED  BY <1>3

(***************************************************************************)
(* The clusters that follow c by the links nx, n links at most.            *)
(***************************************************************************)
IsLinked(nx, s) == \A i \in 1 .. Len(s) - 1 : nx[s[i]] = s[i + 1]

IsPath(nx, n, c, s) ==
    /\ s \in Seq(Clusters) /\ Len(s) \in 1 .. n + 1
    /\ s[1] = c
    /\ IsLinked(nx, s)
    /\ Len(s) = n + 1 \/ nx[s[Len(s)]] \notin Clusters

(* How a path begins.                                                      *)
LEMMA PathBegins ==
    ASSUME NEW nx \in [Clusters -> Entry], NEW n \in Nat, NEW c \in Clusters
    PROVE  /\ n = 0 \/ nx[c] \notin Clusters => IsPath(nx, n, c, <<c>>)
           /\ n # 0 /\ nx[c] \in Clusters =>
                \A t : IsPath(nx, n - 1, nx[c], t) => IsPath(nx, n, c, <<c>> \o t)
<1>1. n = 0 \/ nx[c] \notin Clusters => IsPath(nx, n, c, <<c>>)
  BY DEF IsPath, IsLinked
<1>2. ASSUME n # 0, nx[c] \in Clusters, NEW t, IsPath(nx, n - 1, nx[c], t)
      PROVE  IsPath(nx, n, c, <<c>> \o t)
  <2> DEFINE s == <<c>> \o t
  <2>1. /\ t \in Seq(Clusters) /\ Len(t) \in 1 .. n /\ t[1] = nx[c]
        /\ \A i \in 1 .. Len(t) - 1 : nx[t[i]] = t[i + 1]
        /\ Len(t) = n \/ nx[t[Len(t)]] \notin Clusters
    BY <1>2 DEF IsPath, IsLinked
  <2>2. s \in Seq(Clusters) /\ Len(s) = Len(t) + 1 /\ s[1] = c
    BY <2>1
  <2>3. \A i \in 1 .. Len(t) : s[i + 1] = t[i]
    BY <2>1
  <2>4. ASSUME NEW i \in 1 .. Len(s) - 1 PROVE nx[s[i]] = s[i + 1]
    <3>1. CASE i = 1
      BY <3>1, <2>1, <2>2, <2>3
    <3>2. CASE i # 1
      <4>1. i - 1 \in 1 .. Len(t) - 1 /\ (i - 1) + 1 = i
        BY <3>2, <2>1, <2>2
      <4>2. s[i] = t[i - 1] /\ s[i + 1] = t[i]
        BY <4>1, <2>1, <2>3
      <4> QED  BY <4>1, <4>2, <2>1
    <3> QED  BY <3>1, <3>2
  <2>5. s[Len(s)] = t[Len(t)]
    BY <2>1, <2>2, <2>3
  <2> QED  BY <2>1, <2>2, <2>4, <2>5 DEF IsPath, IsLinked
<1> QED  BY <1>1, <1>2

(* There is a path from every cluster.                                     *)
LEMMA PathExists ==
    ASSUME NEW nx \in [Clusters -> Entry], NEW n \in Nat, NEW c \in Clusters
    PROVE  \E s : IsPath(nx, n, c, s)
<1> DEFINE T == {m \in Nat : \E d \in Clusters : ~\E s : IsPath(nx, m, d, s)}
<1>1. SUFFICES T = {}
  BY <1>1
<1>2. SUFFICES ASSUME T # {} PROVE FALSE
  OBVIOUS
<1>3. PICK m \in T : \A k \in T : m <= k
  BY <1>2, Least
<1>4. PICK d \in Clusters : ~\E s : IsPath(nx, m, d, s)
  OBVIOUS
<1>5. m # 0 /\ nx[d] \in Clusters
  BY <1>4, PathBegins
<1>6. m - 1 \notin T /\ m - 1 \in Nat
  BY <1>3, <1>5
<1>7. PICK t : IsPath(nx, m - 1, nx[d], t)
  BY <1>5, <1>6
<1> QED  BY <1>4, <1>5, <1>7, PathBegins

(* Two paths from a cluster are one, as far as both go.                    *)
LEMMA PathPrefix ==
    ASSUME NEW nx \in [Clusters -> Entry], NEW s \in Seq(Clusters), NEW t \in Seq(Clusters),
           Len(s) > 0, Len(t) > 0, s[1] = t[1],
           IsLinked(nx, s),
           IsLinked(nx, t)
    PROVE  \A i \in DOMAIN s \cap DOMAIN t : s[i] = t[i]
<1> DEFINE T == {i \in DOMAIN s \cap DOMAIN t : s[i] # t[i]}
<1>1. SUFFICES ASSUME T # {} PROVE FALSE
  OBVIOUS
<1>2. T \in SUBSET Nat
  OBVIOUS
<1>3. PICK i \in T : \A k \in T : i <= k
  BY <1>1, <1>2, Least
<1>4. i # 1 /\ i \in 1 .. Len(s) /\ i \in 1 .. Len(t)
  OBVIOUS
<1>5. i - 1 \notin T /\ i - 1 \in 1 .. Len(s) - 1 /\ i - 1 \in 1 .. Len(t) - 1 /\ (i - 1) + 1 = i
  BY <1>3, <1>4
<1>6. s[i - 1] = t[i - 1]
  BY <1>5
<1>7. nx[s[i - 1]] = s[i] /\ nx[t[i - 1]] = t[i]
  BY <1>5 DEF IsLinked
<1> QED  BY <1>6, <1>7

(* And there is one path only.                                             *)
LEMMA PathUnique ==
    ASSUME NEW nx \in [Clusters -> Entry], NEW n \in Nat, NEW c,
           NEW s, IsPath(nx, n, c, s), NEW t, IsPath(nx, n, c, t)
    PROVE  s = t
<1>1. /\ s \in Seq(Clusters) /\ Len(s) \in 1 .. n + 1 /\ s[1] = c
      /\ IsLinked(nx, s)
      /\ Len(s) = n + 1 \/ nx[s[Len(s)]] \notin Clusters
  BY DEF IsPath
<1>2. /\ t \in Seq(Clusters) /\ Len(t) \in 1 .. n + 1 /\ t[1] = c
      /\ IsLinked(nx, t)
      /\ Len(t) = n + 1 \/ nx[t[Len(t)]] \notin Clusters
  BY DEF IsPath
<1>3. \A i \in DOMAIN s \cap DOMAIN t : s[i] = t[i]
  BY <1>1, <1>2, PathPrefix
<1>4. Len(s) = Len(t)
  <2>1. ASSUME Len(s) < Len(t) PROVE FALSE
    <3>1. Len(s) \in 1 .. Len(t) - 1 /\ Len(s) + 1 \in 1 .. Len(t) /\ s[Len(s)] = t[Len(s)]
      BY <1>1, <1>2, <1>3, <2>1
    <3> QED  BY <1>1, <1>2, <2>1, <3>1 DEF IsLinked
  <2>2. ASSUME Len(t) < Len(s) PROVE FALSE
    <3>1. Len(t) \in 1 .. Len(s) - 1 /\ Len(t) + 1 \in 1 .. Len(s) /\ s[Len(t)] = t[Len(t)]
      BY <1>1, <1>2, <1>3, <2>2
    <3> QED  BY <1>1, <1>2, <2>2, <3>1 DEF IsLinked
  <2> QED  BY <1>1, <1>2, <2>1, <2>2
<1> QED  BY <1>1, <1>2, <1>3, <1>4

(* The links that are chains: the end that trimChain keeps is one.         *)
CutLinks == [c \in Clusters |-> IF KeptEnd(c) THEN CLUSTER_EOF ELSE fat[c]]

(* From is the path along these links.                                     *)
LEMMA FromIsPath ==
    ASSUME fat \in [Clusters -> Entry]
    PROVE  \A n \in Nat, c \in Clusters : IsPath(CutLinks, n, c, From[n][c])
<1> DEFINE Step(g, n, c) == <<c>> \o IF n = 0 \/ fat[c] \notin Clusters \/ KeptEnd(c) THEN <<>>
                                     ELSE g[n - 1][fat[c]]
           P(n, c) == CHOOSE s : IsPath(CutLinks, n, c, s)
           W == [n \in Nat |-> [c \in Clusters |-> P(n, c)]]
<1>0. CutLinks \in [Clusters -> Entry]
  BY Constants DEF CutLinks
<1>e. \A c \in Clusters : /\ fat[c] \notin Clusters \/ KeptEnd(c) <=> CutLinks[c] \notin Clusters
                          /\ ~KeptEnd(c) => CutLinks[c] = fat[c]
  BY Constants DEF CutLinks
<1>f. \A c \in Clusters : <<c>> \o <<>> = <<c>>
  OBVIOUS
<1>1. \A n \in Nat, c \in Clusters : IsPath(CutLinks, n, c, P(n, c))
  BY <1>0, PathExists
<1> HIDE DEF P
<1>2. ASSUME NEW n \in Nat, NEW c \in Clusters PROVE P(n, c) = Step(W, n, c)
  <2>1. IsPath(CutLinks, n, c, Step(W, n, c))
    <3>1. CASE n = 0 \/ CutLinks[c] \notin Clusters
      <4>1. Step(W, n, c) = <<c>>
        BY <3>1, <1>e, <1>f
      <4> QED  BY <4>1, <3>1, <1>0, PathBegins
    <3>2. CASE n # 0 /\ CutLinks[c] \in Clusters
      <4>1. n - 1 \in Nat /\ fat[c] = CutLinks[c] /\ ~KeptEnd(c) /\ fat[c] \in Clusters
        BY <3>2, <1>e
      <4>2. Step(W, n, c) = <<c>> \o P(n - 1, fat[c])
        BY <3>2, <4>1
      <4>3. IsPath(CutLinks, n - 1, CutLinks[c], P(n - 1, fat[c]))
        BY <4>1, <1>1
      <4> QED  BY <4>2, <4>3, <3>2, <1>0, PathBegins
    <3> QED  BY <3>1, <3>2
  <2>2. IsPath(CutLinks, n, c, P(n, c))
    BY <1>1
  <2> QED  BY <2>1, <2>2, <1>0, PathUnique
<1>3. W = [n \in Nat |-> [c \in Clusters |-> Step(W, n, c)]]
  BY <1>2, Zenon
<1>4. PICK F : F = From /\ F = [n \in Nat |-> [c \in Clusters |-> Step(From, n, c)]]
  BY <1>3, Zenon DEF From
<1>5. \A n \in Nat, c \in Clusters : From[n][c] = Step(From, n, c)
  <2> HIDE DEF Step
  <2>1. \A n \in Nat, c \in Clusters : F[n][c] = Step(From, n, c)
    BY <1>4
  <2> QED  BY <2>1, <1>4, Zenon
<1> DEFINE T == {n \in Nat : \E c \in Clusters : ~IsPath(CutLinks, n, c, From[n][c])}
<1>6. SUFFICES ASSUME T # {} PROVE FALSE
  OBVIOUS
<1>7. PICK m \in T : \A k \in T : m <= k
  BY <1>6, Least
<1>8. PICK d \in Clusters : ~IsPath(CutLinks, m, d, From[m][d])
  OBVIOUS
<1>9. CASE m = 0 \/ CutLinks[d] \notin Clusters
  <2>1. From[m][d] = <<d>>
    BY <1>5, <1>9, <1>e, <1>f
  <2> QED  BY <2>1, <1>8, <1>9, <1>0, PathBegins
<1>10. CASE m # 0 /\ CutLinks[d] \in Clusters
  <2>1. m - 1 \in Nat /\ fat[d] = CutLinks[d] /\ ~KeptEnd(d) /\ fat[d] \in Clusters /\ m - 1 \notin T
    BY <1>7, <1>10, <1>e
  <2>2. From[m][d] = <<d>> \o From[m - 1][fat[d]]
    BY <1>5, <1>10, <2>1
  <2>3. IsPath(CutLinks, m - 1, CutLinks[d], From[m - 1][fat[d]])
    BY <2>1
  <2> QED  BY <1>8, <1>10, <2>2, <2>3, <1>0, PathBegins
<1> QED  BY <1>9, <1>10

(* The clusters of a sequence.                                             *)
ClustersIn(s) == {s[i] : i \in 1 .. Len(s)}

(* Reach has the clusters of the path along the links.                     *)
LEMMA ReachIsPath ==
    ASSUME fat \in [Clusters -> Entry]
    PROVE  \A n \in Nat, c \in Clusters : \E s :
             IsPath(fat, n, c, s) /\ Reach[n][c] = ClustersIn(s)
<1> DEFINE Step(g, n, c) == {c} \cup (IF n = 0 \/ fat[c] \notin Clusters THEN {}
                                      ELSE g[n - 1][fat[c]])
           P(n, c) == CHOOSE s : IsPath(fat, n, c, s)
           W == [n \in Nat |-> [c \in Clusters |-> ClustersIn(P(n, c))]]
<1>a. \A c \in Clusters : ClustersIn(<<c>>) = {c}
  BY DEF ClustersIn
<1>b. \A c \in Clusters : \A t \in Seq(Clusters) : ClustersIn(<<c>> \o t) = {c} \cup ClustersIn(t)
  <2> SUFFICES ASSUME NEW c \in Clusters, NEW t \in Seq(Clusters)
               PROVE  ClustersIn(<<c>> \o t) = {c} \cup ClustersIn(t)
    OBVIOUS
  <2> DEFINE s == <<c>> \o t
  <2>1. Len(s) = Len(t) + 1 /\ s[1] = c /\ \A i \in 1 .. Len(t) : s[i + 1] = t[i]
    OBVIOUS
  <2>2. ASSUME NEW x \in ClustersIn(s) PROVE x \in {c} \cup ClustersIn(t)
    <3>1. PICK i \in 1 .. Len(s) : x = s[i]
      BY <2>2 DEF ClustersIn
    <3>2. i = 1 \/ (i - 1 \in 1 .. Len(t) /\ (i - 1) + 1 = i)
      BY <2>1
    <3> QED  BY <2>1, <3>1, <3>2 DEF ClustersIn
  <2>3. ASSUME NEW x \in {c} \cup ClustersIn(t) PROVE x \in ClustersIn(s)
    <3>1. CASE x = c
      BY <3>1, <2>1 DEF ClustersIn
    <3>2. CASE x \in ClustersIn(t)
      <4>1. PICK i \in 1 .. Len(t) : x = t[i]
        BY <3>2 DEF ClustersIn
      <4>2. i + 1 \in 1 .. Len(s) /\ x = s[i + 1]
        BY <2>1, <4>1
      <4> QED  BY <4>2 DEF ClustersIn
    <3> QED  BY <2>3, <3>1, <3>2
  <2> QED  BY <2>2, <2>3
<1>1. \A n \in Nat, c \in Clusters : IsPath(fat, n, c, P(n, c))
  BY PathExists
<1> HIDE DEF P
<1>2. ASSUME NEW n \in Nat, NEW c \in Clusters, n # 0, fat[c] \in Clusters
      PROVE  P(n, c) = <<c>> \o P(n - 1, fat[c])
  <2>1. n - 1 \in Nat /\ IsPath(fat, n - 1, fat[c], P(n - 1, fat[c]))
    BY <1>1, <1>2
  <2>2. IsPath(fat, n, c, <<c>> \o P(n - 1, fat[c]))
    BY <2>1, <1>2, PathBegins
  <2>3. IsPath(fat, n, c, P(n, c))
    BY <1>1
  <2> QED  BY <2>2, <2>3, PathUnique
<1>3. ASSUME NEW n \in Nat, NEW c \in Clusters, n = 0 \/ fat[c] \notin Clusters
      PROVE  P(n, c) = <<c>>
  <2>1. IsPath(fat, n, c, <<c>>)
    BY <1>3, PathBegins
  <2> QED  BY <2>1, <1>1, PathUnique
<1>4. ASSUME NEW n \in Nat, NEW c \in Clusters PROVE ClustersIn(P(n, c)) = Step(W, n, c)
  <2>1. CASE n = 0 \/ fat[c] \notin Clusters
    BY <2>1, <1>3, <1>a
  <2>2. CASE n # 0 /\ fat[c] \in Clusters
    <3>1. n - 1 \in Nat /\ P(n - 1, fat[c]) \in Seq(Clusters)
      BY <2>2, <1>1 DEF IsPath
    <3>2. Step(W, n, c) = {c} \cup ClustersIn(P(n - 1, fat[c]))
      BY <2>2, <3>1
    <3> QED  BY <2>2, <3>1, <3>2, <1>2, <1>b
  <2> QED  BY <2>1, <2>2
<1>5. W = [n \in Nat |-> [c \in Clusters |-> Step(W, n, c)]]
  BY <1>4, Zenon
<1>6. PICK F : F = Reach /\ F = [n \in Nat |-> [c \in Clusters |-> Step(Reach, n, c)]]
  BY <1>5, Zenon DEF Reach
<1>7. \A n \in Nat, c \in Clusters : Reach[n][c] = Step(Reach, n, c)
  <2> HIDE DEF Step
  <2>1. \A n \in Nat, c \in Clusters : F[n][c] = Step(Reach, n, c)
    BY <1>6
  <2> QED  BY <2>1, <1>6, Zenon
<1> DEFINE T == {n \in Nat : \E c \in Clusters : Reach[n][c] # ClustersIn(P(n, c))}
<1>8. SUFFICES ASSUME T # {} PROVE FALSE
  <2>1. \A n \in Nat, c \in Clusters : Reach[n][c] = ClustersIn(P(n, c))
    BY <1>8
  <2> QED  BY <2>1, <1>1
<1>9. PICK m \in T : \A k \in T : m <= k
  BY <1>8, Least
<1>10. PICK d \in Clusters : Reach[m][d] # ClustersIn(P(m, d))
  OBVIOUS
<1>11. CASE m = 0 \/ fat[d] \notin Clusters
  <2>1. Reach[m][d] = {d}
    BY <1>7, <1>11
  <2> QED  BY <2>1, <1>3, <1>a, <1>10, <1>11
<1>12. CASE m # 0 /\ fat[d] \in Clusters
  <2>1. m - 1 \in Nat /\ m - 1 \notin T
    BY <1>9, <1>12
  <2>2. Reach[m][d] = {d} \cup Reach[m - 1][fat[d]]
    BY <1>7, <1>12
  <2>3. Reach[m - 1][fat[d]] = ClustersIn(P(m - 1, fat[d]))
    BY <2>1, <1>12
  <2>4. P(m - 1, fat[d]) \in Seq(Clusters)
    BY <2>1, <1>1, <1>12 DEF IsPath
  <2> QED  BY <2>2, <2>3, <2>4, <1>2, <1>b, <1>10, <1>12
<1> QED  BY <1>11, <1>12

(* Ranks grow along a path, and every path ends within the volume.         *)
LEMMA PathEnds ==
    ASSUME NEW nx \in [Clusters -> Entry], NEW rank \in [Clusters -> Nat],
           \A c \in Clusters : nx[c] \in Clusters => rank[c] < rank[nx[c]],
           NEW c \in Clusters, NEW s, IsPath(nx, LastCluster, c, s)
    PROVE  /\ nx[s[Len(s)]] \notin Clusters
           /\ \A i, j \in 1 .. Len(s) : s[i] = s[j] => i = j
<1>1. /\ s \in Seq(Clusters) /\ Len(s) \in 1 .. LastCluster + 1
      /\ \A i \in 1 .. Len(s) - 1 : nx[s[i]] = s[i + 1]
      /\ Len(s) = LastCluster + 1 \/ nx[s[Len(s)]] \notin Clusters
  BY DEF IsPath, IsLinked
<1>2. ASSUME NEW i \in 1 .. Len(s) PROVE \A j \in i + 1 .. Len(s) : rank[s[i]] < rank[s[j]]
  <2> DEFINE T == {j \in i + 1 .. Len(s) : ~(rank[s[i]] < rank[s[j]])}
  <2>1. SUFFICES ASSUME T # {} PROVE FALSE
    OBVIOUS
  <2>2. T \in SUBSET Nat
    BY <1>1
  <2>3. PICK j \in T : \A k \in T : j <= k
    BY <2>1, <2>2, Least
  <2>4. /\ j - 1 \in 1 .. Len(s) - 1 /\ (j - 1) + 1 = j /\ j - 1 \notin T
        /\ j - 1 = i \/ j - 1 \in i + 1 .. Len(s)
    BY <1>1, <2>3
  <2>5. s[j - 1] \in Clusters /\ s[j] \in Clusters /\ s[i] \in Clusters /\ nx[s[j - 1]] = s[j]
    BY <1>1, <2>4
  <2>6. rank[s[j - 1]] < rank[s[j]]
    BY <2>5
  <2>7. s[j - 1] = s[i] \/ rank[s[i]] < rank[s[j - 1]]
    BY <2>4
  <2>8. rank[s[i]] \in Nat /\ rank[s[j]] \in Nat /\ rank[s[j - 1]] \in Nat
    BY <2>5
  <2> QED  BY <2>6, <2>7, <2>8
<1>3. \A i, j \in 1 .. Len(s) : s[i] = s[j] => i = j
  <2> SUFFICES ASSUME NEW i \in 1 .. Len(s), NEW j \in 1 .. Len(s), s[i] = s[j], i < j PROVE FALSE
    BY <1>1
  <2>1. j \in i + 1 .. Len(s) /\ rank[s[i]] \in Nat
    BY <1>1
  <2> QED  BY <1>2, <2>1
<1>4. Len(s) <= LastCluster - 1
  <2>1. IsFiniteSet(Clusters) /\ Cardinality(Clusters) = LastCluster - 1
    BY FS_Interval, TableAssumption DEF Clusters, CLUSTER_FIRST
  <2>2. s \in [1 .. Len(s) -> Clusters]
    BY <1>1
  <2>3. s \in Injection(1 .. Len(s), Clusters)
    BY <1>3, <2>2 DEF Injection, IsInjective
  <2>4. Cardinality(1 .. Len(s)) <= Cardinality(Clusters)
    BY <2>1, <2>3, FS_Injection
  <2>5. Cardinality(1 .. Len(s)) = Len(s)
    <3>1. \A n \in Nat : n >= 1 => Cardinality(1 .. n) = n
      BY FS_Interval
    <3>2. Len(s) \in Nat /\ Len(s) >= 1
      BY <1>1, TableAssumption
    <3> QED  BY <3>1, <3>2
  <2> QED  BY <2>1, <2>4, <2>5
<1> QED  BY <1>1, <1>3, <1>4, TableAssumption

(* What the chain of a file is.                                            *)
LEMMA ChainOfFile ==
    ASSUME TypeOK, OwnedInv, NEW f \in Files
    PROVE  /\ ChainSeq(f) \in Seq(Clusters)
           /\ ChainSeq(f) = <<>> <=> start[f] \notin Clusters \/ Dropping(f)
           /\ ChainSeq(f) # <<>> =>
                /\ IsPath(CutLinks, LastCluster, start[f], ChainSeq(f))
                /\ CutLinks[ChainSeq(f)[Len(ChainSeq(f))]] \notin Clusters
                /\ \A i, j \in 1 .. Len(ChainSeq(f)) : ChainSeq(f)[i] = ChainSeq(f)[j] => i = j
<1>1. CASE start[f] \notin Clusters \/ Dropping(f)
  BY <1>1 DEF ChainSeq
<1>2. CASE start[f] \in Clusters /\ ~Dropping(f)
  <2> DEFINE s == From[LastCluster][start[f]]
  <2>1. fat \in [Clusters -> Entry] /\ LastCluster \in Nat
    BY TableAssumption DEF TypeOK
  <2>2. IsPath(CutLinks, LastCluster, start[f], s)
    BY <2>1, <1>2, FromIsPath
  <2>3. CutLinks \in [Clusters -> Entry]
    BY <2>1, Constants DEF CutLinks
  <2>4. PICK rank \in [Clusters -> Nat] :
           \A c \in Clusters : fat[c] \in Clusters => rank[c] < rank[fat[c]]
    BY DEF OwnedInv, LinksUpwards
  <2>5. \A c \in Clusters : CutLinks[c] \in Clusters => rank[c] < rank[CutLinks[c]]
    BY <2>4, Constants DEF CutLinks
  <2> HIDE DEF s
  <2>6. /\ CutLinks[s[Len(s)]] \notin Clusters
        /\ \A i, j \in 1 .. Len(s) : s[i] = s[j] => i = j
    BY <1>2, <2>2, <2>3, <2>5, PathEnds
  <2>7. s \in Seq(Clusters) /\ s # <<>>
    BY <2>2 DEF IsPath
  <2>8. ChainSeq(f) = s
    BY <1>2 DEF ChainSeq, s
  <2> QED  BY <1>2, <2>2, <2>6, <2>7, <2>8
<1> QED  BY <1>1, <1>2

(* Unless clearLinks is at work, every cluster in use is in a chain.       *)
LEMMA UsedIsOwned ==
    ASSUME TypeOK, OwnedInv, call.op # "clear", NEW k \in Clusters, fat[k] # CLUSTER_FREE
    PROVE  \E f \in Files : \E i \in 1 .. Len(ChainSeq(f)) : ChainSeq(f)[i] = k
<1> DEFINE Own(c) == \E f \in Files : \E i \in 1 .. Len(ChainSeq(f)) : ChainSeq(f)[i] = c
<1>1. PICK rank \in [Clusters -> Nat] :
         \A c \in Clusters : fat[c] \in Clusters => rank[c] < rank[fat[c]]
  BY DEF OwnedInv, LinksUpwards
<1> DEFINE T == {rank[c] : c \in {d \in Clusters : fat[d] # CLUSTER_FREE /\ ~Own(d)}}
<1>2. SUFFICES ASSUME ~Own(k) PROVE FALSE
  OBVIOUS
<1> HIDE DEF Own
<1>3. T \in SUBSET Nat /\ T # {}
  BY <1>2
<1>4. PICK r \in T : \A q \in T : r <= q
  BY <1>3, Least
<1>5. PICK c \in Clusters : fat[c] # CLUSTER_FREE /\ ~Own(c) /\ r = rank[c]
  OBVIOUS
<1>6. \/ \E f \in Files : start[f] = c
      \/ \E d \in Clusters : fat[d] = c
  BY <1>5 DEF OwnedInv, FreeClusters
<1>d. \A f : ~Dropping(f)
  BY DEF Dropping
<1>7. ASSUME NEW f \in Files, start[f] = c PROVE FALSE
  <2>1. ChainSeq(f) # <<>>
    BY <1>7, <1>d, ChainOfFile
  <2>2. IsPath(CutLinks, LastCluster, c, ChainSeq(f))
    BY <2>1, <1>7, ChainOfFile
  <2>3. 1 \in 1 .. Len(ChainSeq(f)) /\ ChainSeq(f)[1] = c
    BY <2>2, TableAssumption DEF IsPath
  <2>4. Own(c)
    BY <2>3 DEF Own
  <2> QED  BY <2>4, <1>5
<1>8. ASSUME NEW d \in Clusters, fat[d] = c PROVE FALSE
  <2>1. rank[d] < r /\ rank[d] \in Nat /\ r \in Nat /\ fat[d] # CLUSTER_FREE
    BY <1>1, <1>5, <1>8, Constants
  <2>2. Own(d)
    <3>1. rank[d] \notin T
      BY <2>1, <1>4
    <3> QED  BY <3>1, <2>1
  <2>3. PICK f \in Files : \E i \in 1 .. Len(ChainSeq(f)) : ChainSeq(f)[i] = d
    BY <2>2 DEF Own
  <2> DEFINE s == ChainSeq(f)
  <2>4. PICK i \in 1 .. Len(s) : s[i] = d
    BY <2>3
  <2>5. s # <<>>
    BY <2>4
  <2>6. /\ s \in Seq(Clusters) /\ CutLinks[s[Len(s)]] \notin Clusters
        /\ \A j \in 1 .. Len(s) - 1 : CutLinks[s[j]] = s[j + 1]
    BY <2>5, ChainOfFile DEF IsPath, IsLinked
  <2>7. CutLinks[d] = c
    BY <1>8 DEF CutLinks, KeptEnd
  <2> HIDE DEF s
  <2>8. i \in 1 .. Len(s) - 1 /\ i + 1 \in 1 .. Len(s)
    BY <2>4, <2>6, <2>7, <1>5
  <2>9. s[i + 1] = c
    BY <2>4, <2>6, <2>7, <2>8
  <2>10. Own(c)
    BY <2>8, <2>9 DEF Own, s
  <2> QED  BY <2>10, <1>5
<1> QED  BY <1>6, <1>7, <1>8

(* The invariant, for a table fa, the start clusters st and a call ca.     *)
OwnedOf(fa, st, ca) ==
    \A c \in Clusters : fa[c] # CLUSTER_FREE =>
         \/ \E f \in Files : st[f] = c /\ ~(ca.op = "clear" /\ ca.last = CLUSTER_FREE /\ f = ca.file)
         \/ \E d \in Clusters : fa[d] = c /\ ~(ca.op = "clear" /\ d = ca.last)
         \/ ca.op = "clear" /\ c = ca.cluster

KeptOf(fa, ca) == ca.op \in Loops /\ ca.last \in Clusters => fa[ca.last] # CLUSTER_FREE

RanksOf(fa, ca, rank) ==
    /\ \A c \in Clusters : fa[c] \in Clusters => rank[c] < rank[fa[c]]
    /\ ca.op = "clear" /\ ca.last \in Clusters /\ ca.cluster \in Clusters =>
         rank[ca.last] < rank[ca.cluster]

(* The parts are the invariant.                                            *)
LEMMA OwnedParts ==
    OwnedInv <=> /\ \E rank \in [Clusters -> Nat] : RanksOf(fat, call, rank)
                 /\ KeptOf(fat, call) /\ OwnedOf(fat, start, call)
BY DEF OwnedInv, Looping, KeptOf, LinksUpwards, OwnedOf, RanksOf, FreeClusters, KeptEnd, Dropping

(* linkFreeCluster leaves every cluster with an owner.                     *)
LEMMA LinkKeepsOwned ==
    ASSUME TypeOK, PartsOf(fat, start, call), OwnedInv, Ready, ~IoErrors,
           NEW k \in Clusters \cup {CLUSTER_FREE},
           k \in Clusters => fat[k] # CLUSTER_FREE,
           NEW r \in Results, LinkFreeCluster(k, r),
           call' = Returned("linkFreeCluster", r),
           \A f \in Files : start[f] \in Clusters => start'[f] = start[f],
           k = CLUSTER_FREE /\ r \in Clusters => \E f \in Files : start'[f] = r
    PROVE  OwnedInv'
<1>t. fat \in [Clusters -> Entry] /\ start \in [Files -> Clusters \cup {CLUSTER_FREE}]
  BY DEF TypeOK
<1>o. call'.op = "linkFreeCluster" /\ call.op # "clear"
  BY DEF Returned, Ready, Loops
<1>p. PICK rank \in [Clusters -> Nat] : RanksOf(fat, call, rank)
  BY OwnedParts
<1>q. OwnedOf(fat, start, call)
  BY OwnedParts
<1>u. /\ \E rk \in [Clusters -> Nat] : \A c \in Clusters : fat'[c] \in Clusters => rk[c] < rk[fat'[c]]
      /\ \A c \in Clusters : fat'[c] # CLUSTER_FREE =>
           (\E f \in Files : start'[f] = c) \/ (\E d \in Clusters : fat'[d] = c)
      => OwnedInv'
  BY <1>o DEF OwnedInv, Looping, Loops, LinksUpwards, FreeClusters, KeptEnd, Dropping
<1>v. \A c \in Clusters : fat[c] # CLUSTER_FREE =>
           (\E f \in Files : start[f] = c) \/ (\E d \in Clusters : fat[d] = c)
  BY <1>q, <1>o DEF OwnedOf
<1>w. \A c \in Clusters : fat[c] \in Clusters => rank[c] < rank[fat[c]]
  BY <1>p DEF RanksOf
<1>1. \/ fat' = fat /\ (k = CLUSTER_FREE => r \notin Clusters)
      \/ /\ r \in Clusters \cup {LastCluster + 1}
         /\ fat' = [c \in Clusters |-> IF c = r THEN CLUSTER_EOF ELSE IF c = k THEN r ELSE fat[c]]
         /\ r \in Clusters => fat[r] = CLUSTER_FREE
         /\ k \in Clusters => fat[k] \notin Clusters
  BY LinkKeepsParts
<1>2. CASE fat' = fat
  <2>1. \A c \in Clusters : fat'[c] # CLUSTER_FREE =>
           (\E f \in Files : start'[f] = c) \/ (\E d \in Clusters : fat'[d] = c)
    BY <1>2, <1>v
  <2> QED  BY <1>2, <1>u, <1>w, <2>1
<1>3. CASE /\ r \in Clusters \cup {LastCluster + 1}
           /\ fat' = [c \in Clusters |-> IF c = r THEN CLUSTER_EOF ELSE IF c = k THEN r ELSE fat[c]]
           /\ r \in Clusters => fat[r] = CLUSTER_FREE
           /\ k \in Clusters => fat[k] \notin Clusters
  <2>1. \A c \in Clusters : fat'[c] = IF c = r THEN CLUSTER_EOF ELSE IF c = k THEN r ELSE fat[c]
    BY <1>3
  <2>2. ASSUME NEW c \in Clusters, fat'[c] # CLUSTER_FREE
        PROVE  (\E f \in Files : start'[f] = c) \/ (\E d \in Clusters : fat'[d] = c)
    <3>1. CASE c = r
      <4>1. CASE k \in Clusters
        BY <2>1, <3>1, <4>1, <1>3
      <4> QED  BY <3>1, <4>1
    <3>2. CASE c # r
      <4>1. fat[c] # CLUSTER_FREE
        BY <2>1, <2>2, <3>2
      <4>2. ASSUME NEW d \in Clusters, fat[d] = c PROVE fat'[d] = c
        BY <2>1, <4>2, <1>3, Constants
      <4> QED  BY <4>1, <4>2, <1>v
    <3> QED  BY <3>1, <3>2
  <2>3. \E rk \in [Clusters -> Nat] :
           \A c \in Clusters : fat'[c] \in Clusters => rk[c] < rk[fat'[c]]
    <3>1. CASE k \in Clusters /\ r \in Clusters
      <4> DEFINE rk == [rank EXCEPT ![r] = rank[k] + 1]
      <4>0. rank[k] + 1 \in Nat /\ k # r
        BY <3>1, <1>3
      <4>1. rk \in [Clusters -> Nat]
        BY <4>0
      <4>2. \A c \in Clusters : fat[c] # r
        BY <3>1, <1>3, <1>t, <1>o DEF PartsOf, Ready, Loops
      <4>3. ASSUME NEW c \in Clusters, fat'[c] \in Clusters PROVE rk[c] < rk[fat'[c]]
        <5>1. CASE c = k
          BY <2>1, <4>0, <5>1, <3>1
        <5>2. CASE c # k
          <6>1. c # r /\ fat'[c] = fat[c]
            BY <2>1, <4>3, <5>2, Constants
          <6>2. rk[c] = rank[c] /\ rk[fat[c]] = rank[fat[c]]
            BY <6>1, <4>3, <4>2
          <6> QED  BY <6>1, <6>2, <4>3, <1>w
        <5> QED  BY <5>1, <5>2
      <4> QED  BY <4>1, <4>3
    <3>2. CASE k = CLUSTER_FREE \/ r \notin Clusters
      <4>1. \A c \in Clusters : fat'[c] \in Clusters => fat'[c] = fat[c]
        BY <2>1, <3>2, Constants
      <4> QED  BY <4>1, <1>w
    <3> QED  BY <3>1, <3>2
  <2> QED  BY <1>u, <2>2, <2>3
<1> QED  BY <1>1, <1>2, <1>3

(* Every step leaves every cluster with an owner.                          *)
LEMMA OwnedStep ==
    ASSUME TypeOK, PartsOf(fat, start, call), OwnedInv, ~IoErrors, [Next \/ Statvfs]_vars
    PROVE  OwnedInv'
<1>t. /\ fat \in [Clusters -> Entry] /\ call \in Call
      /\ start \in [Files -> Clusters \cup {CLUSTER_FREE}]
  BY DEF TypeOK
<1>r. \A c, v : Reads(c, v) => v = NextCluster(c)
  BY DEF Reads
<1>o. off \in BOOLEAN
  BY DEF TypeOK
<1>p. PICK rank \in [Clusters -> Nat] : RanksOf(fat, call, rank)
  BY OwnedParts
<1>q. OwnedOf(fat, start, call) /\ KeptOf(fat, call)
  BY OwnedParts
<1>s. ASSUME \E rk \in [Clusters -> Nat] : RanksOf(fat', call', rk),
             OwnedOf(fat', start', call'), KeptOf(fat', call')
      PROVE  OwnedInv'
  BY <1>s DEF OwnedInv, Looping, KeptOf, LinksUpwards, OwnedOf, RanksOf, FreeClusters, KeptEnd, Dropping
<1>1. ASSUME NEW f \in Files, StartChain(f) PROVE OwnedInv'
  <2>1. Ready /\ start[f] = CLUSTER_FREE
    BY <1>1 DEF StartChain
  <2>2. PICK r \in Results :
           /\ LinkFreeCluster(CLUSTER_FREE, r) /\ call' = Returned("linkFreeCluster", r)
           /\ start' = [start EXCEPT ![f] = IF r \in Clusters THEN r ELSE start[f]]
    BY <1>1 DEF StartChain
  <2>3. /\ \A g \in Files : start[g] \in Clusters => start'[g] = start[g]
        /\ r \in Clusters => \E g \in Files : start'[g] = r
    BY <1>t, <2>1, <2>2, Constants
  <2> QED  BY <2>1, <2>2, <2>3, LinkKeepsOwned, Constants
<1>2. ASSUME NEW k \in Clusters, ExtendChain(k) PROVE OwnedInv'
  <2>1. Ready /\ fat[k] # CLUSTER_FREE /\ start' = start
    BY <1>2 DEF ExtendChain, FreeClusters
  <2>2. PICK r \in Results :
           LinkFreeCluster(k, r) /\ call' = Returned("linkFreeCluster", r)
    BY <1>2 DEF ExtendChain
  <2>3. /\ \A g \in Files : start[g] \in Clusters => start'[g] = start[g]
        /\ k # CLUSTER_FREE
    BY <2>1, Constants
  <2> QED  BY <2>1, <2>2, <2>3, LinkKeepsOwned
<1>q1. ASSUME fat' = fat, start' = start, call.op # "clear", call'.op # "clear", KeptOf(fat, call')
       PROVE  OwnedInv'
  <2>1. RanksOf(fat', call', rank)
    BY <1>q1, <1>p DEF RanksOf
  <2>2. OwnedOf(fat', start', call')
    BY <1>q1, <1>q DEF OwnedOf
  <2> QED  BY <2>1, <2>2, <1>q1, <1>s
<1>3. ASSUME NEW f \in Files, DropChain(f) PROVE OwnedInv'
  <2>1. /\ call'.op = "clear" /\ call'.cluster = start[f] /\ call'.last = CLUSTER_FREE
        /\ call'.file = f
        /\ start[f] \in Clusters /\ call.op # "clear" /\ fat' = fat /\ start' = start
    BY <1>3 DEF DropChain, StartClearing, Returned, Ready, Loops
  <2>2. RanksOf(fat', call', rank)
    BY <2>1, <1>p, Constants DEF RanksOf
  <2>3. OwnedOf(fat', start', call')
    BY <2>1, <1>q, Constants DEF OwnedOf
  <2>4. KeptOf(fat', call')
    BY <2>1, Constants DEF KeptOf
  <2> QED  BY <2>2, <2>3, <2>4, <1>s
<1>4. ASSUME NEW f \in Files, NEW n \in 1 .. LastCluster, TrimChain(f, n) PROVE OwnedInv'
  <2>1. call'.op = "walk" /\ call.op # "clear" /\ fat' = fat /\ start' = start
    BY <1>4 DEF TrimChain, Returned, Ready, Loops
  <2>2. call'.last = start[f] /\ start[f] \in Clusters
    BY <1>4 DEF TrimChain, Returned
  <2>3. fat[start[f]] # CLUSTER_FREE
    BY <2>1, <2>2 DEF PartsOf
  <2>4. KeptOf(fat, call')
    BY <2>2, <2>3 DEF KeptOf
  <2> QED  BY <2>1, <2>4, <1>q1
<1>5. ASSUME WalkOn PROVE OwnedInv'
  <2>1. call'.op = "walk" /\ call.op = "walk" /\ fat' = fat /\ start' = start
    BY <1>5, <1>t DEF WalkOn, Call
  <2>2. call'.last = call.cluster
    BY <1>5, <1>t DEF WalkOn, Call
  <2>3. call.cluster \in Clusters => fat[call.cluster] # CLUSTER_FREE
    BY <2>1, Constants DEF PartsOf
  <2>4. KeptOf(fat, call')
    BY <2>2, <2>3 DEF KeptOf
  <2> QED  BY <2>1, <2>4, <1>q1
<1>6. ASSUME DropRest PROVE OwnedInv'
  <2>1. call.op = "walk" /\ call.cluster \in Clusters
    BY <1>6 DEF DropRest, WalkEnds
  <2>2. /\ call'.op = "clear" /\ call'.cluster = call.cluster /\ call'.last = call.last
        /\ fat' = fat /\ start' = start
    BY <1>6, <2>1 DEF DropRest, StartClearing, Returned
  <2>3. call.last \in Clusters /\ fat[call.last] = call.cluster
    BY <2>1, Constants DEF PartsOf
  <2>4. RanksOf(fat', call', rank)
    BY <2>1, <2>2, <2>3, <1>p DEF RanksOf
  <2>5. OwnedOf(fat', start', call')
    BY <2>1, <2>2, <2>3, <1>q, Constants DEF OwnedOf
  <2>6. KeptOf(fat', call')
    BY <2>1, <2>2, <2>3, Constants DEF KeptOf
  <2> QED  BY <2>4, <2>5, <2>6, <1>s
<1>7. ASSUME ClearLink PROVE OwnedInv'
  <2> DEFINE c == call.cluster
  <2>1. /\ call.op = "clear" /\ call'.op = "clear" /\ call'.last = call.last
        /\ call'.cluster = NextCluster(c) /\ call'.file = call.file /\ start' = start
    BY <1>7, <1>r, <1>t DEF ClearLink, Call
  <2>2. fat' = [d \in Clusters |-> IF d \in {c} \cap Clusters
                   THEN [b \in {c} \cap Clusters |-> CLUSTER_FREE][d] ELSE fat[d]]
    BY <1>7, WriteEffect DEF ClearLink
  <2>3. \A d \in Clusters : fat'[d] = IF d = c THEN CLUSTER_FREE ELSE fat[d]
    BY <2>2
  <2>4. CASE c \in Clusters
    <3>1. NextCluster(c) = fat[c]
      BY <2>4, Constants DEF NextCluster
    <3>2. \A d \in Clusters : fat'[d] \in Clusters => rank[d] < rank[fat'[d]]
      BY <2>3, <1>p, Constants DEF RanksOf
    <3>3. call.last \in Clusters /\ fat[c] \in Clusters => rank[call.last] < rank[fat[c]]
      <4>1. SUFFICES ASSUME call.last \in Clusters, fat[c] \in Clusters
                     PROVE  rank[call.last] < rank[fat[c]]
        OBVIOUS
      <4>2. rank[call.last] \in Nat /\ rank[c] \in Nat /\ rank[fat[c]] \in Nat
        BY <4>1, <2>4
      <4>3. rank[call.last] < rank[c] /\ rank[c] < rank[fat[c]]
        BY <4>1, <2>1, <2>4, <1>p DEF RanksOf
      <4> QED  BY <4>2, <4>3
    <3>4. RanksOf(fat', call', rank)
      BY <2>1, <3>1, <3>2, <3>3 DEF RanksOf
    <3>5. OwnedOf(fat', start', call')
      <4> SUFFICES ASSUME NEW b \in Clusters, fat'[b] # CLUSTER_FREE, b # fat[c]
                   PROVE  \/ \E f \in Files : start[f] = b /\ ~(call.last = CLUSTER_FREE /\ f = call.file)
                          \/ \E d \in Clusters : fat'[d] = b /\ d # call.last
        BY <2>1, <3>1 DEF OwnedOf
      <4>1. b # c /\ fat[b] # CLUSTER_FREE
        BY <2>3
      <4>2. ASSUME NEW d \in Clusters, fat[d] = b PROVE fat'[d] = b
        BY <2>3, <4>2
      <4> QED  BY <4>1, <4>2, <2>1, <1>q DEF OwnedOf
    <3>6. KeptOf(fat', call')
      <4>1. call.last \in Clusters => call.last # c
        BY <2>1, <2>4, <1>p DEF RanksOf
      <4> QED  BY <4>1, <2>1, <2>3, <1>q DEF KeptOf, Loops
    <3> QED  BY <3>4, <3>5, <3>6, <1>s
  <2>5. CASE c \notin Clusters
    <3>1. fat' = fat
      BY <2>2, <2>5, <1>t
    <3>2. NextCluster(c) \notin Clusters
      BY <2>5, Constants DEF NextCluster
    <3>3. RanksOf(fat', call', rank)
      BY <2>1, <3>1, <3>2, <1>p DEF RanksOf
    <3>4. OwnedOf(fat', start', call')
      BY <2>1, <2>5, <3>1, <3>2, <1>q DEF OwnedOf
    <3>5. KeptOf(fat', call')
      BY <2>1, <3>1, <1>q DEF KeptOf, Loops
    <3> QED  BY <3>3, <3>4, <3>5, <1>s
  <2> QED  BY <2>4, <2>5
<1>8. ASSUME FinishChain PROVE OwnedInv'
  <2>1. call'.op = "none" /\ call.op \in {"walk", "clear"}
    BY <1>8 DEF FinishChain, Returned, EndOfLoops, WalkEnds
  <2>2. \A c \in Clusters : fat'[c] = fat[c] \/ (c = call.last /\ fat'[c] = CLUSTER_EOF)
    <3>1. CASE call.last = CLUSTER_FREE
      BY <1>8, <3>1 DEF FinishChain
    <3>2. CASE call.last # CLUSTER_FREE
      <4>1. fat' = [d \in Clusters |-> IF d \in {call.last} \cap Clusters
                   THEN [b \in {call.last} \cap Clusters |-> CLUSTER_EOF][d] ELSE fat[d]]
        BY <1>8, <3>2, WriteEffect DEF FinishChain
      <4> QED  BY <4>1
    <3> QED  BY <3>1, <3>2
  <2>3. RanksOf(fat', call', rank)
    BY <2>1, <2>2, <1>p, Constants DEF RanksOf
  <2>4. call.op = "walk" => call.cluster \notin Clusters /\ call.last # CLUSTER_FREE
    BY <1>8 DEF FinishChain, EndOfLoops, PartsOf
  <2>5. call.op = "clear" => call.cluster \notin Clusters
    BY <1>8, Constants DEF FinishChain, EndOfLoops, WalkEnds
  <2>6. \A f \in Files : start'[f] = start[f] \/ (f = call.file /\ call.last = CLUSTER_FREE)
    BY <1>8, <1>t DEF FinishChain
  <2>7. OwnedOf(fat', start', call')
    <3> SUFFICES ASSUME NEW b \in Clusters, fat'[b] # CLUSTER_FREE
                 PROVE  \/ \E f \in Files : start'[f] = b
                        \/ \E d \in Clusters : fat'[d] = b
      BY <2>1 DEF OwnedOf
    <3>1. fat[b] # CLUSTER_FREE
      BY <2>1, <2>2, <1>q DEF KeptOf, Loops
    <3>2. CASE call.op = "clear"
      BY <2>2, <2>5, <2>6, <3>1, <3>2, <1>q, Constants DEF OwnedOf
    <3>3. CASE call.op = "walk"
      <4>1. ASSUME NEW d \in Clusters, fat[d] = b PROVE fat'[d] = b
        BY <2>2, <2>4, <3>3, <4>1 DEF PartsOf
      <4> QED  BY <4>1, <2>4, <2>6, <3>1, <3>3, <1>q DEF OwnedOf
    <3> QED  BY <2>1, <3>2, <3>3
  <2>8. KeptOf(fat', call')
    BY <2>1 DEF KeptOf, Loops
  <2> QED  BY <2>3, <2>7, <2>8, <1>s
<1>9. ASSUME Mount \/ Unmount \/ Statvfs PROVE OwnedInv'
  <2>1. call.op # "clear" /\ call'.op # "clear" /\ fat' = fat /\ start' = start
    BY <1>9 DEF Mount, Unmount, Statvfs, Returned, Ready, Loops
  <2>2. KeptOf(fat, call')
    BY <1>9 DEF Mount, Unmount, Statvfs, Returned, KeptOf, Loops
  <2> QED  BY <2>1, <2>2, <1>q1
<1>10. ASSUME UNCHANGED vars PROVE OwnedInv'
  <2>1. RanksOf(fat', call', rank) /\ OwnedOf(fat', start', call') /\ KeptOf(fat', call')
    BY <1>10, <1>p, <1>q DEF vars
  <2> QED  BY <2>1, <1>s
<1>11. ASSUME CachePage PROVE OwnedInv'
  <2>1. RanksOf(fat', call', rank) /\ OwnedOf(fat', start', call') /\ KeptOf(fat', call')
    BY <1>11, <1>p, <1>q DEF CachePage
  <2> QED  BY <2>1, <1>s
<1> QED
  BY <1>1, <1>2, <1>3, <1>4, <1>5, <1>6, <1>7, <1>8, <1>9, <1>10, <1>11 DEF Next, Calls, Progress

(* On a volume in order every cluster in use has an owner.                 *)
LEMMA OwnedInit == Init => OwnedInv
<1> SUFFICES ASSUME Init PROVE OwnedInv
  OBVIOUS
<1>0. TypeOK /\ fat \in [Clusters -> Entry] /\ LastCluster \in Nat
  BY TypeInit, TableAssumption DEF TypeOK
<1>1. call.op = "unmounted"
  BY DEF Init, Returned
<1>2. PICK rank \in [Clusters -> Clusters] :
         \A c \in Clusters : fat[c] \in Clusters => rank[c] < rank[fat[c]]
  BY DEF Init, InOrder, NoCircles
<1>3. rank \in [Clusters -> Nat] /\ RanksOf(fat, call, rank)
  BY <1>1, <1>2, Constants DEF RanksOf
<1>4. ASSUME NEW c \in Clusters, fat[c] # CLUSTER_FREE
      PROVE  (\E f \in Files : start[f] = c) \/ (\E d \in Clusters : fat[d] = c)
  <2>1. PICK f \in Files : c \in Chain(f)
    BY <1>4 DEF Init, InOrder, FreeClusters
  <2>2. start[f] \in Clusters /\ c \in Reach[LastCluster][start[f]]
    BY <2>1 DEF Chain
  <2>3. PICK s : IsPath(fat, LastCluster, start[f], s) /\ Reach[LastCluster][start[f]] = ClustersIn(s)
    BY <1>0, <2>2, ReachIsPath
  <2>4. PICK i \in 1 .. Len(s) : s[i] = c
    BY <2>2, <2>3 DEF ClustersIn
  <2>5. /\ s \in Seq(Clusters) /\ Len(s) \in Nat /\ s[1] = start[f]
        /\ \A j \in 1 .. Len(s) - 1 : fat[s[j]] = s[j + 1]
    BY <1>0, <2>3 DEF IsPath, IsLinked
  <2>6. CASE i = 1
    BY <2>4, <2>5, <2>6
  <2>7. CASE i # 1
    <3>1. i - 1 \in 1 .. Len(s) - 1 /\ (i - 1) + 1 = i /\ s[i - 1] \in Clusters
      BY <2>5, <2>7
    <3> QED  BY <2>4, <2>5, <3>1
  <2> QED  BY <2>6, <2>7
<1>5. OwnedOf(fat, start, call) /\ KeptOf(fat, call)
  BY <1>1, <1>4 DEF OwnedOf, KeptOf, Loops
<1> QED  BY <1>3, <1>5, OwnedParts

(* The invariant holds always.                                             *)
LEMMA OwnedInvariance == ~IoErrors => (StatSpec => []OwnedInv)
<1> SUFFICES ASSUME ~IoErrors PROVE StatSpec => []OwnedInv
  OBVIOUS
<1>1. TableInv /\ OwnedInv /\ [Next \/ Statvfs]_vars => OwnedInv'
  BY Parts, OwnedStep
<1> QED  BY <1>1, OwnedInit, TableInvariance, PTL DEF StatSpec

(* Every cluster of a chain is in use.                                     *)
LEMMA OwnedIsUsed ==
    ASSUME TypeOK, PartsOf(fat, start, call), OwnedInv, NEW f \in Files,
           NEW i \in 1 .. Len(ChainSeq(f))
    PROVE  ChainSeq(f)[i] \in Clusters /\ fat[ChainSeq(f)[i]] # CLUSTER_FREE
<1> DEFINE s == ChainSeq(f)
<1>1. s # <<>>
  OBVIOUS
<1>2. /\ s \in Seq(Clusters) /\ start[f] \in Clusters /\ ~Dropping(f) /\ s[1] = start[f]
      /\ \A j \in 1 .. Len(s) - 1 : CutLinks[s[j]] = s[j + 1]
  BY <1>1, ChainOfFile DEF IsPath, IsLinked
<1> HIDE DEF s
<1>3. CASE i = 1
  BY <1>2, <1>3 DEF PartsOf, Dropping, s
<1>4. CASE i # 1
  <2>1. i - 1 \in 1 .. Len(s) - 1 /\ (i - 1) + 1 = i
    BY <1>2, <1>4 DEF s
  <2>2. s[i - 1] \in Clusters /\ s[i] \in Clusters /\ CutLinks[s[i - 1]] = s[i]
    BY <1>2, <2>1
  <2>3. fat[s[i - 1]] = s[i] /\ ~KeptEnd(s[i - 1])
    BY <2>2, Constants DEF CutLinks
  <2>4. fat[fat[s[i - 1]]] # CLUSTER_FREE
    BY <2>2, <2>3 DEF PartsOf, KeptEnd
  <2> QED  BY <2>2, <2>3, <2>4 DEF s
<1> QED  BY <1>3, <1>4

(* Without a loop at work the two ways to follow a chain agree.            *)
LEMMA ChainsAgree ==
    ASSUME TypeOK, OwnedInv, call.op # "clear", NEW f \in Files
    PROVE  Chain(f) = ClustersIn(ChainSeq(f))
<1>0. fat \in [Clusters -> Entry] /\ LastCluster \in Nat
  BY TableAssumption DEF TypeOK
<1>1. CASE start[f] \notin Clusters
  <2>1. ChainSeq(f) = <<>> /\ Chain(f) = {}
    BY <1>1 DEF ChainSeq, Chain
  <2> QED  BY <2>1 DEF ClustersIn
<1>2. CASE start[f] \in Clusters
  <2>1. IsPath(CutLinks, LastCluster, start[f], ChainSeq(f))
    BY <1>2, ChainOfFile DEF Dropping
  <2>2. CutLinks = fat
    BY <1>0 DEF CutLinks, KeptEnd
  <2>3. PICK s : IsPath(fat, LastCluster, start[f], s) /\ Reach[LastCluster][start[f]] = ClustersIn(s)
    BY <1>0, <1>2, ReachIsPath
  <2>4. s = ChainSeq(f)
    BY <1>0, <2>1, <2>2, <2>3, PathUnique
  <2> QED  BY <1>2, <2>3, <2>4 DEF Chain
<1> QED  BY <1>1, <1>2

(* Between calls no cluster is lost: what is not free is in the chain of a *)
(* file, after any sequence of allocations, drops and trims, whatever the  *)
(* table holds behind its last entry (file_allocation_table.c:335).        *)
THEOREM NothingIsLost == ~IoErrors => (StatSpec => []NoLostClusters)
<1> SUFFICES ASSUME ~IoErrors PROVE StatSpec => []NoLostClusters
  OBVIOUS
<1>1. TableInv /\ OwnedInv => NoLostClusters
  <2> SUFFICES ASSUME TableInv, OwnedInv, ~Looping
               PROVE  Clusters \ FreeClusters = UNION {Chain(f) : f \in Files}
    BY DEF NoLostClusters
  <2>0. TypeOK /\ PartsOf(fat, start, call) /\ call.op # "clear"
    BY Parts DEF Looping, Loops
  <2>1. ASSUME NEW c \in Clusters \ FreeClusters PROVE \E f \in Files : c \in Chain(f)
    <3>1. PICK f \in Files : \E i \in 1 .. Len(ChainSeq(f)) : ChainSeq(f)[i] = c
      BY <2>0, <2>1, UsedIsOwned DEF FreeClusters
    <3> QED  BY <3>1, <2>0, ChainsAgree DEF ClustersIn
  <2>2. ASSUME NEW f \in Files, NEW c \in Chain(f) PROVE c \in Clusters \ FreeClusters
    <3>1. PICK i \in 1 .. Len(ChainSeq(f)) : ChainSeq(f)[i] = c
      BY <2>0, <2>2, ChainsAgree DEF ClustersIn
    <3> QED  BY <3>1, <2>0, OwnedIsUsed DEF FreeClusters
  <2> QED  BY <2>1, <2>2
<1> QED  BY <1>1, TableInvariance, OwnedInvariance, PTL

-----------------------------------------------------------------------------
(* The pool of clusters that the table implements *)

(***************************************************************************)
(* Chains of links, without the table: s leads from h to an end.           *)
(***************************************************************************)
IsChain(nx, h, s) ==
    /\ s \in Seq(Clusters) /\ s # <<>>
    /\ s[1] = h
    /\ IsLinked(nx, s)
    /\ nx[s[Len(s)]] \notin Clusters

(* C has the chain of each file, which begins at its head, if it has one   *)
AreChains(nx, hd, C) ==
    /\ C \in [Files -> Seq(Clusters)]
    /\ \A f \in Files : IF hd[f] \in Clusters THEN IsChain(nx, hd[f], C[f]) ELSE C[f] = <<>>

(* There is one chain only.                                                *)
LEMMA ChainUnique ==
    ASSUME NEW nx \in [Clusters -> Entry], NEW h,
           NEW s, IsChain(nx, h, s), NEW t, IsChain(nx, h, t)
    PROVE  s = t
<1>1. /\ s \in Seq(Clusters) /\ Len(s) > 0 /\ s[1] = h /\ IsLinked(nx, s)
      /\ nx[s[Len(s)]] \notin Clusters
  BY DEF IsChain
<1>2. /\ t \in Seq(Clusters) /\ Len(t) > 0 /\ t[1] = h /\ IsLinked(nx, t)
      /\ nx[t[Len(t)]] \notin Clusters
  BY DEF IsChain
<1>3. \A i \in DOMAIN s \cap DOMAIN t : s[i] = t[i]
  BY <1>1, <1>2, PathPrefix
<1>4. Len(s) = Len(t)
  <2>1. ASSUME Len(s) < Len(t) PROVE FALSE
    <3>1. Len(s) \in 1 .. Len(t) - 1 /\ Len(s) + 1 \in 1 .. Len(t) /\ s[Len(s)] = t[Len(s)]
      BY <1>1, <1>2, <1>3, <2>1
    <3> QED  BY <1>1, <1>2, <2>1, <3>1 DEF IsLinked
  <2>2. ASSUME Len(t) < Len(s) PROVE FALSE
    <3>1. Len(t) \in 1 .. Len(s) - 1 /\ Len(t) + 1 \in 1 .. Len(s) /\ s[Len(t)] = t[Len(t)]
      BY <1>1, <1>2, <1>3, <2>2
    <3> QED  BY <1>1, <1>2, <2>2, <3>1 DEF IsLinked
  <2> QED  BY <1>1, <1>2, <2>1, <2>2
<1> QED  BY <1>1, <1>2, <1>3, <1>4

LEMMA ChainsUnique ==
    ASSUME NEW nx \in [Clusters -> Entry], NEW hd,
           NEW C, AreChains(nx, hd, C), NEW D, AreChains(nx, hd, D)
    PROVE  C = D
<1>1. ASSUME NEW f \in Files PROVE C[f] = D[f]
  <2>1. CASE hd[f] \in Clusters
    <3>1. IsChain(nx, hd[f], C[f]) /\ IsChain(nx, hd[f], D[f])
      BY <2>1 DEF AreChains
    <3> QED  BY <3>1, ChainUnique
  <2>2. CASE hd[f] \notin Clusters
    BY <2>2 DEF AreChains
  <2> QED  BY <2>1, <2>2
<1>2. C \in [Files -> Seq(Clusters)] /\ D \in [Files -> Seq(Clusters)]
  BY DEF AreChains
<1> QED  BY <1>1, <1>2

(* A chain is one for all links that agree with its own, but for the mark  *)
(* at its end.                                                             *)
LEMMA ChainKept ==
    ASSUME NEW nx, NEW ny, NEW h, NEW s, IsChain(nx, h, s),
           \A i \in 1 .. Len(s) : ny[s[i]] = nx[s[i]] \/ (ny[s[i]] \notin Clusters /\ nx[s[i]] \notin Clusters)
    PROVE  IsChain(ny, h, s)
<1>1. s \in Seq(Clusters) /\ s # <<>> /\ s[1] = h /\ nx[s[Len(s)]] \notin Clusters /\ Len(s) \in 1 .. Len(s)
  BY DEF IsChain
<1>2. ASSUME NEW i \in 1 .. Len(s) - 1 PROVE ny[s[i]] = s[i + 1]
  <2>1. i \in 1 .. Len(s) /\ s[i + 1] \in Clusters
    BY <1>1
  <2>2. nx[s[i]] = s[i + 1]
    BY DEF IsChain, IsLinked
  <2> QED  BY <2>1, <2>2
<1>3. ny[s[Len(s)]] \notin Clusters
  BY <1>1
<1> QED  BY <1>1, <1>2, <1>3 DEF IsChain, IsLinked

(* The chain grows when its end is linked to another end.                  *)
LEMMA ChainGrown ==
    ASSUME NEW nx, NEW ny, NEW h, NEW s, IsChain(nx, h, s), NEW r \in Clusters,
           \A i \in 1 .. Len(s) - 1 : ny[s[i]] = nx[s[i]],
           ny[s[Len(s)]] = r, ny[r] \notin Clusters
    PROVE  IsChain(ny, h, Append(s, r))
<1> DEFINE t == Append(s, r)
<1>1. s \in Seq(Clusters) /\ Len(s) \in Nat /\ Len(s) > 0 /\ s[1] = h
  BY DEF IsChain
<1>2. t \in Seq(Clusters) /\ Len(t) = Len(s) + 1 /\ t[Len(t)] = r /\ \A i \in 1 .. Len(s) : t[i] = s[i]
  BY <1>1
<1>3. t # <<>> /\ t[1] = h
  BY <1>1, <1>2
<1>4. ASSUME NEW i \in 1 .. Len(t) - 1 PROVE ny[t[i]] = t[i + 1]
  <2>1. CASE i = Len(s)
    BY <2>1, <1>1, <1>2
  <2>2. CASE i # Len(s)
    <3>1. i \in 1 .. Len(s) - 1 /\ i \in 1 .. Len(s) /\ i + 1 \in 1 .. Len(s)
      BY <2>2, <1>1, <1>2
    <3>2. nx[s[i]] = s[i + 1]
      BY <3>1 DEF IsChain, IsLinked
    <3> QED  BY <3>1, <3>2, <1>2
  <2> QED  BY <2>1, <2>2
<1> HIDE DEF t
<1>5. IsChain(ny, h, t)
  BY <1>2, <1>3, <1>4 DEF IsChain, IsLinked
<1> QED  BY <1>5 DEF t

(* The chain is cut when one of its clusters becomes an end.               *)
LEMMA ChainCut ==
    ASSUME NEW nx, NEW ny, NEW h, NEW s, IsChain(nx, h, s), NEW n \in 1 .. Len(s),
           \A i \in 1 .. n - 1 : ny[s[i]] = nx[s[i]],
           ny[s[n]] \notin Clusters
    PROVE  IsChain(ny, h, SubSeq(s, 1, n))
<1> DEFINE t == SubSeq(s, 1, n)
<1>1. s \in Seq(Clusters) /\ Len(s) \in Nat /\ Len(s) > 0 /\ s[1] = h /\ n \in Nat /\ n > 0 /\ n <= Len(s)
  BY DEF IsChain
<1>2. t \in Seq(Clusters) /\ Len(t) = n /\ \A i \in 1 .. n : t[i] = s[i]
  BY <1>1
<1>3. t # <<>> /\ t[1] = h /\ t[Len(t)] = s[n]
  BY <1>1, <1>2
<1>4. ASSUME NEW i \in 1 .. Len(t) - 1 PROVE ny[t[i]] = t[i + 1]
  <2>1. i \in 1 .. Len(s) - 1 /\ i \in 1 .. n - 1 /\ i \in 1 .. n /\ i + 1 \in 1 .. n
    BY <1>1, <1>2
  <2>2. nx[s[i]] = s[i + 1]
    BY <2>1 DEF IsChain, IsLinked
  <2> QED  BY <2>1, <2>2, <1>2
<1> HIDE DEF t
<1>5. IsChain(ny, h, t)
  BY <1>2, <1>3, <1>4 DEF IsChain, IsLinked
<1> QED  BY <1>5 DEF t
-----------------------------------------------------------------------------
(* The chains of the files in a state of the table                         *)
ChainsOf == [f \in Files |-> ChainSeq(f)]

Heads == [f \in Files |-> IF Dropping(f) THEN CLUSTER_FREE ELSE start[f]]

InChain(c) == \E f \in Files : \E i \in 1 .. Len(ChainsOf[f]) : ChainsOf[f][i] = c

(* They are the chains of the table's links, and no cluster is in two      *)
(* places of them.                                                         *)
ChainsInv ==
    /\ AreChains(CutLinks, Heads, ChainsOf)
    /\ \A f, g \in Files : \A i \in 1 .. Len(ChainsOf[f]), j \in 1 .. Len(ChainsOf[g]) :
         ChainsOf[f][i] = ChainsOf[g][j] => f = g /\ i = j
    /\ \A c \in Clusters : InChain(c) => fat[c] # CLUSTER_FREE
    /\ call.op # "clear" => \A c \in Clusters : fat[c] # CLUSTER_FREE => InChain(c)

(* What the cut links are, link by link.                                   *)
LEMMA LinkFacts ==
    ASSUME TypeOK
    PROVE  /\ CutLinks \in [Clusters -> Entry]
           /\ \A c \in Clusters : CutLinks[c] \in Clusters => CutLinks[c] = fat[c] /\ ~KeptEnd(c)
           /\ \A c \in Clusters : ~KeptEnd(c) => CutLinks[c] = fat[c]
           /\ \A c \in Clusters : KeptEnd(c) => CutLinks[c] \notin Clusters
           /\ \A f \in Files : /\ Heads[f] \in Clusters <=> start[f] \in Clusters /\ ~Dropping(f)
                               /\ Heads[f] \in Clusters => Heads[f] = start[f]
BY Constants DEF TypeOK, CutLinks, Heads

(* The sequences of the abstraction are the chains.                        *)
LEMMA ChainsAreChains ==
    ASSUME TypeOK, OwnedInv
    PROVE  AreChains(CutLinks, Heads, ChainsOf)
<1>1. ASSUME NEW f \in Files
      PROVE  /\ ChainSeq(f) \in Seq(Clusters)
             /\ IF Heads[f] \in Clusters THEN IsChain(CutLinks, Heads[f], ChainSeq(f)) ELSE ChainSeq(f) = <<>>
  <2>1. CASE Heads[f] \in Clusters
    <3>1. ChainSeq(f) # <<>> /\ Heads[f] = start[f]
      BY <2>1, LinkFacts, ChainOfFile
    <3>2. /\ IsPath(CutLinks, LastCluster, start[f], ChainSeq(f))
          /\ CutLinks[ChainSeq(f)[Len(ChainSeq(f))]] \notin Clusters
      BY <3>1, ChainOfFile
    <3>3. IsChain(CutLinks, start[f], ChainSeq(f)) /\ ChainSeq(f) \in Seq(Clusters)
      BY <3>1, <3>2 DEF IsPath, IsChain
    <3> QED  BY <2>1, <3>1, <3>3
  <2>2. CASE Heads[f] \notin Clusters
    BY <2>2, LinkFacts, ChainOfFile
  <2> QED  BY <2>1, <2>2
<1> QED  BY <1>1 DEF AreChains, ChainsOf

(* A link into a cluster of a chain.                                       *)
LEMMA ChainLinks ==
    ASSUME TypeOK, AreChains(CutLinks, Heads, ChainsOf),
           NEW f \in Files, NEW i \in 1 .. Len(ChainsOf[f])
    PROVE  /\ Heads[f] \in Clusters /\ ChainsOf[f] \in Seq(Clusters) /\ ChainsOf[f][i] \in Clusters
           /\ i = 1 => ChainsOf[f][i] = start[f] /\ ~Dropping(f)
           /\ i # 1 => /\ i - 1 \in 1 .. Len(ChainsOf[f]) /\ ChainsOf[f][i - 1] \in Clusters
                       /\ fat[ChainsOf[f][i - 1]] = ChainsOf[f][i]
                       /\ ~KeptEnd(ChainsOf[f][i - 1])
<1> DEFINE s == ChainsOf[f]
<1>1. s \in Seq(Clusters) /\ s # <<>> /\ i \in 1 .. Len(s)
  BY DEF AreChains
<1>2. Heads[f] \in Clusters /\ IsChain(CutLinks, Heads[f], s)
  BY <1>1 DEF AreChains
<1> HIDE DEF s
<1>3. s[1] = Heads[f] /\ \A j \in 1 .. Len(s) - 1 : CutLinks[s[j]] = s[j + 1]
  BY <1>2 DEF IsChain, IsLinked
<1>4. i = 1 => s[i] = start[f] /\ ~Dropping(f)
  BY <1>2, <1>3, LinkFacts
<1>5. ASSUME i # 1 
      PROVE  /\ i - 1 \in 1 .. Len(s) /\ s[i - 1] \in Clusters /\ fat[s[i - 1]] = s[i] /\ ~KeptEnd(s[i - 1])
  <2>1. i - 1 \in 1 .. Len(s) - 1 /\ (i - 1) + 1 = i /\ i - 1 \in 1 .. Len(s)
    BY <1>1, <1>5
  <2>2. s[i - 1] \in Clusters /\ s[i] \in Clusters /\ CutLinks[s[i - 1]] = s[i]
    BY <1>1, <1>3, <2>1
  <2> QED  BY <2>1, <2>2, LinkFacts
<1>6. s[i] \in Clusters
  BY <1>1
<1> QED  BY <1>1, <1>2, <1>4, <1>5, <1>6 DEF s

(* The chains of a table in order are in order.                            *)
LEMMA ChainFacts == TypeOK /\ PartsOf(fat, start, call) /\ OwnedInv => ChainsInv
<1> SUFFICES ASSUME TypeOK, PartsOf(fat, start, call), OwnedInv PROVE ChainsInv
  OBVIOUS
<1> DEFINE C == ChainsOf
           Meet(f, g, i, j) == C[f][i] = C[g][j] /\ ~(f = g /\ i = j)
           T == {i \in Nat : \E f, g \in Files : /\ i \in 1 .. Len(C[f])
                                                 /\ \E j \in 1 .. Len(C[g]) : Meet(f, g, i, j)}
<1>1. AreChains(CutLinks, Heads, C)
  BY ChainsAreChains
<1>2. \A f \in Files : C[f] = ChainSeq(f) /\ C[f] \in Seq(Clusters)
  BY <1>1 DEF ChainsOf, AreChains
<1>3. T = {}
  <2> SUFFICES ASSUME T # {} PROVE FALSE
    OBVIOUS
  <2>1. PICK i \in T : \A k \in T : i <= k
    BY Least
  <2>a. PICK f \in Files, g \in Files :
           i \in 1 .. Len(C[f]) /\ \E j \in 1 .. Len(C[g]) : Meet(f, g, i, j)
    BY <2>1
  <2>2. PICK j \in 1 .. Len(C[g]) : i \in 1 .. Len(C[f]) /\ Meet(f, g, i, j)
    BY <2>a
  <2> HIDE DEF C
  <2>3. /\ C[f] \in Seq(Clusters) /\ C[f][i] \in Clusters
        /\ i = 1 => C[f][i] = start[f] /\ ~Dropping(f)
        /\ i # 1 => /\ i - 1 \in 1 .. Len(C[f]) /\ C[f][i - 1] \in Clusters
                    /\ fat[C[f][i - 1]] = C[f][i]
    BY <1>1, <2>2, ChainLinks DEF C
  <2>4. /\ C[g] \in Seq(Clusters) /\ C[g][j] \in Clusters
        /\ j = 1 => C[g][j] = start[g] /\ ~Dropping(g)
        /\ j # 1 => /\ j - 1 \in 1 .. Len(C[g]) /\ C[g][j - 1] \in Clusters
                    /\ fat[C[g][j - 1]] = C[g][j]
    BY <1>1, <2>2, ChainLinks DEF C
  <2>5. \A h \in Files : start[h] \in Clusters /\ ~Dropping(h) =>
           /\ \A c \in Clusters : fat[c] # start[h]
           /\ \A k \in Files : start[k] = start[h] => k = h
    BY DEF PartsOf, Dropping
  <2>6. i # 1 /\ j # 1
    <3>1. C[f][i] = C[g][j] /\ ~(f = g /\ i = j)
      BY <2>2
    <3>2. ~(i = 1 /\ j = 1)
      BY <2>3, <2>4, <2>5, <3>1
    <3>3. ~(i = 1 /\ j # 1)
      BY <2>3, <2>4, <2>5, <3>1
    <3>4. ~(i # 1 /\ j = 1)
      BY <2>3, <2>4, <2>5, <3>1
    <3> QED  BY <3>2, <3>3, <3>4
  <2>7. C[f][i - 1] = C[g][j - 1]
    BY <2>2, <2>3, <2>4, <2>6 DEF PartsOf
  <2>b. i \in Nat /\ j \in Nat /\ i - 1 \in Nat
    <3>1. Len(C[f]) \in Nat /\ Len(C[g]) \in Nat
      BY <2>3, <2>4
    <3> QED  BY <2>2, <2>6, <3>1
  <2>8. i - 1 \in T
    <3>1. i - 1 \in Nat /\ (i - 1 = j - 1 => i = j)
      BY <2>b
    <3>2. Meet(f, g, i - 1, j - 1)
      BY <2>2, <2>7, <3>1
    <3> HIDE DEF Meet
    <3> QED  BY <2>2, <2>3, <2>4, <2>6, <3>1, <3>2
  <2>9. i <= i - 1
    BY <2>1, <2>8
  <2> QED  BY <2>b, <2>9
<1>4. \A f, g \in Files : \A i \in 1 .. Len(C[f]), j \in 1 .. Len(C[g]) : C[f][i] = C[g][j] => f = g /\ i = j
  <2> SUFFICES ASSUME NEW f \in Files, NEW g \in Files, NEW i \in 1 .. Len(C[f]), NEW j \in 1 .. Len(C[g]),
                      C[f][i] = C[g][j], ~(f = g /\ i = j)
               PROVE  FALSE
    OBVIOUS
  <2>1. i \in T
    OBVIOUS
  <2> QED  BY <1>3, <2>1
<1>5. \A c \in Clusters : InChain(c) => fat[c] # CLUSTER_FREE
  <2> SUFFICES ASSUME NEW f \in Files, NEW i \in 1 .. Len(C[f]) PROVE fat[C[f][i]] # CLUSTER_FREE
    BY DEF InChain
  <2>1. i \in 1 .. Len(ChainSeq(f)) /\ C[f][i] = ChainSeq(f)[i]
    BY <1>2
  <2> QED  BY <2>1, OwnedIsUsed
<1>6. ASSUME call.op # "clear", NEW c \in Clusters, fat[c] # CLUSTER_FREE PROVE InChain(c)
  <2>1. PICK f \in Files : \E i \in 1 .. Len(ChainSeq(f)) : ChainSeq(f)[i] = c
    BY <1>6, UsedIsOwned
  <2> QED  BY <1>2, <2>1 DEF InChain
<1> QED  BY <1>1, <1>4, <1>5, <1>6 DEF ChainsInv
-----------------------------------------------------------------------------
(* What a step does to the chains follows from what it does to the links   *)
(* and the heads: sequences that are chains afterwards are the chains.     *)
LEMMA ChainsAfter ==
    ASSUME TypeOK', ChainsInv', NEW D, AreChains(CutLinks', Heads', D)
    PROVE  ChainsOf' = D
<1>1. CutLinks' \in [Clusters -> Entry]
  BY Constants DEF TypeOK, CutLinks
<1>2. AreChains(CutLinks', Heads', ChainsOf')
  BY DEF ChainsInv
<1> QED  BY <1>1, <1>2, ChainsUnique

(* The links and the heads after a step                                    *)
LEMMA LinksAfter ==
    /\ CutLinks' = [c \in Clusters |-> IF call'.op = "clear" /\ c = call'.last THEN CLUSTER_EOF ELSE fat'[c]]
    /\ Heads' = [f \in Files |-> IF call'.op = "clear" /\ call'.last = CLUSTER_FREE /\ f = call'.file
                                 THEN CLUSTER_FREE ELSE start'[f]]
BY DEF CutLinks, Heads, KeptEnd, Dropping

(* Chains whose links and heads a step leaves alone are chains afterwards. *)
LEMMA ChainsStay ==
    ASSUME TypeOK', ChainsInv, ChainsInv',
           \A f \in Files : Heads[f] \in Clusters \/ Heads'[f] \in Clusters => Heads'[f] = Heads[f],
           \A c \in Clusters : InChain(c) => \/ CutLinks'[c] = CutLinks[c]
                                             \/ CutLinks'[c] \notin Clusters /\ CutLinks[c] \notin Clusters
    PROVE  ChainsOf' = ChainsOf
<1>1. ASSUME NEW f \in Files, Heads'[f] \in Clusters
      PROVE  IsChain(CutLinks', Heads'[f], ChainsOf[f])
  <2>1. Heads'[f] = Heads[f]
    BY <1>1
  <2>2. IsChain(CutLinks, Heads[f], ChainsOf[f]) /\ ChainsOf[f] \in Seq(Clusters)
    BY <1>1, <2>1 DEF ChainsInv, AreChains
  <2>3. \A i \in 1 .. Len(ChainsOf[f]) : ChainsOf[f][i] \in Clusters /\ InChain(ChainsOf[f][i])
    BY <2>2 DEF InChain
  <2> QED  BY <2>1, <2>2, <2>3, ChainKept
<1>2. ASSUME NEW f \in Files, Heads'[f] \notin Clusters
      PROVE  ChainsOf[f] = <<>>
  BY <1>2 DEF ChainsInv, AreChains
<1>3. AreChains(CutLinks', Heads', ChainsOf)
  BY <1>1, <1>2 DEF ChainsInv, AreChains
<1> QED  BY <1>3, ChainsAfter

(* A step that does nothing to the chains and has no answer.               *)
LEMMA QuietStep ==
    ASSUME ChainsOf' = ChainsOf, call'.op # "linkFreeCluster"
    PROVE  Pool!Quiet
BY DEF Pool!Quiet, ChainsOf

(* Steps outside the loops that leave table and files alone are quiet.     *)
LEMMA UntouchedRefines ==
    ASSUME TypeOK', ChainsInv, ChainsInv', UNCHANGED <<fat, start>>,
           call.op # "clear", call'.op # "clear"
    PROVE  ChainsOf' = ChainsOf
<1>1. CutLinks' = CutLinks /\ Heads' = Heads
  BY DEF CutLinks, Heads, KeptEnd, Dropping
<1> QED  BY <1>1, ChainsStay

(* The cluster that clearLinks frees is in no chain.                       *)
LEMMA ClearLinkRefines ==
    ASSUME TypeOK, TypeOK', PartsOf(fat, start, call), ChainsInv, ChainsInv', ~IoErrors, ClearLink
    PROVE  Pool!Quiet
<1> DEFINE k == call.cluster
<1>1. /\ call.op = "clear" /\ call' = [call EXCEPT !.cluster = call'.cluster] /\ UNCHANGED start
      /\ fat' = [c \in Clusters |-> IF c = k THEN CLUSTER_FREE ELSE fat[c]]
  <2>1. fat' = [c \in Clusters |-> IF c \in {k} \cap Clusters
                                   THEN [d \in {k} \cap Clusters |-> CLUSTER_FREE][c] ELSE fat[c]]
    BY WriteEffect DEF ClearLink
  <2>2. call \in Call
    BY DEF TypeOK
  <2>3. PICK next \in Entry : call' = [call EXCEPT !.cluster = next]
    BY DEF ClearLink
  <2>4. call' = [call EXCEPT !.cluster = call'.cluster]
    BY <2>2, <2>3 DEF Call
  <2> QED  BY <2>1, <2>4 DEF ClearLink
<1>2. call'.op = "clear" /\ call'.last = call.last /\ call'.file = call.file
  BY <1>1 DEF TypeOK, Call
<1>3. Heads' = Heads
  BY <1>1, <1>2 DEF Heads, Dropping
<1>4. ASSUME NEW c \in Clusters, InChain(c) PROVE CutLinks'[c] = CutLinks[c]
  <2>1. PICK f \in Files, i \in Nat : i \in 1 .. Len(ChainsOf[f]) /\ ChainsOf[f][i] = c
    <3>1. PICK f \in Files : \E i \in 1 .. Len(ChainsOf[f]) : ChainsOf[f][i] = c
      BY <1>4 DEF InChain
    <3>2. Len(ChainsOf[f]) \in Nat
      BY DEF ChainsInv, AreChains
    <3> QED  BY <3>1, <3>2
  <2>2. /\ i = 1 => c = start[f] /\ ~Dropping(f)
        /\ i # 1 => \E d \in Clusters : fat[d] = c /\ ~KeptEnd(d)
    BY <2>1, ChainLinks DEF ChainsInv
  <2>3. c # k
    BY <1>1, <2>2 DEF PartsOf, Dropping, KeptEnd
  <2> QED  BY <1>1, <1>2, <2>3 DEF CutLinks, KeptEnd
<1> QED  BY <1>2, <1>3, <1>4, ChainsStay, QuietStep

(* The end of the loops does what the chains have had done to them.        *)
LEMMA FinishChainRefines ==
    ASSUME TypeOK, TypeOK', PartsOf(fat, start, call), ChainsInv, ChainsInv', ~IoErrors, FinishChain
    PROVE  Pool!Quiet
<1>0. call'.op = "none" /\ call \in Call
  BY DEF FinishChain, Returned, TypeOK
<1>1. fat' = [c \in Clusters |-> IF c = call.last THEN CLUSTER_EOF ELSE fat[c]]
  <2>1. CASE call.last = CLUSTER_FREE
    BY <2>1, Constants DEF FinishChain, TypeOK
  <2>2. CASE call.last # CLUSTER_FREE
    <3>1. fat' = [c \in Clusters |-> IF c \in {call.last} \cap Clusters
                                     THEN [d \in {call.last} \cap Clusters |-> CLUSTER_EOF][c] ELSE fat[c]]
      BY <2>2, WriteEffect DEF FinishChain
    <3> QED  BY <3>1
  <2> QED  BY <2>1, <2>2
<1>2. start' = IF call.last = CLUSTER_FREE THEN [start EXCEPT ![call.file] = CLUSTER_FREE] ELSE start
  BY DEF FinishChain
<1>3. \/ call.op = "walk" /\ call.cluster \notin Clusters
      \/ call.op = "clear"
  BY DEF FinishChain, EndOfLoops, WalkEnds
<1>4. \A c \in Clusters : CutLinks'[c] = fat'[c]
  BY <1>0 DEF CutLinks, KeptEnd
<1>5. ASSUME NEW c \in Clusters
      PROVE  CutLinks'[c] = CutLinks[c] \/ (CutLinks'[c] \notin Clusters /\ CutLinks[c] \notin Clusters)
  <2>1. CASE c # call.last
    BY <1>1, <1>4, <2>1 DEF CutLinks, KeptEnd
  <2>2. CASE c = call.last /\ call.op = "clear"
    BY <1>1, <1>4, <2>2 DEF CutLinks, KeptEnd
  <2>3. CASE c = call.last /\ call.op = "walk" /\ call.cluster \notin Clusters
    BY <1>1, <1>4, <2>3, Constants DEF CutLinks, KeptEnd, PartsOf
  <2> QED  BY <1>3, <2>1, <2>2, <2>3
<1>6. ASSUME NEW f \in Files PROVE Heads'[f] = Heads[f]
  <2>1. Heads'[f] = start'[f]
    BY <1>0 DEF Heads, Dropping
  <2>2. call.op = "walk" => call.last # CLUSTER_FREE
    BY DEF PartsOf
  <2> QED  BY <1>2, <1>3, <2>1, <2>2 DEF Heads, Dropping, TypeOK
<1>7. ChainsOf' = ChainsOf
  BY <1>5, <1>6, ChainsStay
<1> QED  BY <1>0, <1>7, QuietStep

(* A file whose chain is dropped has none from then on.                    *)
LEMMA DropChainRefines ==
    ASSUME TypeOK, TypeOK', ChainsInv, ChainsInv', NEW f \in Files, DropChain(f)
    PROVE  Pool!Cut(f)
<1>1. /\ call'.op = "clear" /\ call'.last = CLUSTER_FREE /\ call'.file = f
      /\ UNCHANGED <<fat, start>> /\ call.op # "clear"
  BY DEF DropChain, StartClearing, Returned, Ready, Loops
<1> DEFINE D == [ChainsOf EXCEPT ![f] = SubSeq(@, 1, 0)]
<1>2. ChainsOf \in [Files -> Seq(Clusters)] /\ SubSeq(ChainsOf[f], 1, 0) = <<>> /\ Len(ChainsOf[f]) \in Nat
  BY DEF ChainsInv, AreChains
<1>3. CutLinks' = CutLinks
  BY <1>1, Constants DEF CutLinks, KeptEnd
<1>4. \A g \in Files : Heads'[g] = IF g = f THEN CLUSTER_FREE ELSE Heads[g]
  BY <1>1 DEF Heads, Dropping
<1>5. D \in [Files -> Seq(Clusters)] /\ D[f] = <<>> /\ \A g \in Files : g # f => D[g] = ChainsOf[g]
  BY <1>2
<1> HIDE DEF D
<1>6. AreChains(CutLinks', Heads', D)
  BY <1>3, <1>4, <1>5, Constants DEF ChainsInv, AreChains
<1>7. ChainsOf' = D
  BY <1>6, ChainsAfter
<1>8. 0 \in 0 .. Len(ChainsOf[f])
  BY <1>2
<1>9. \E n \in 0 .. Len(ChainsOf[f]) : ChainsOf' = [ChainsOf EXCEPT ![f] = SubSeq(@, 1, n)]
  BY <1>7, <1>8 DEF D
<1> QED  BY <1>1, <1>9 DEF Pool!Cut, ChainsOf

(* Behind the cluster that trimChain keeps the chain is cut when the rest  *)
(* begins to be freed.                                                     *)
LEMMA DropRestRefines ==
    ASSUME TypeOK, TypeOK', PartsOf(fat, start, call), ChainsInv, ChainsInv', DropRest
    PROVE  Pool!Quiet \/ \E f \in Files : Pool!Cut(f)
<1>1. /\ call.op = "walk" /\ call'.op = "clear" /\ call'.last = call.last
      /\ call.last # CLUSTER_FREE /\ UNCHANGED <<fat, start>>
  BY DEF DropRest, StartClearing, Returned, WalkEnds, PartsOf
<1>2. Heads' = Heads
  BY <1>1 DEF Heads, Dropping
<1>3. \A c \in Clusters : CutLinks'[c] = IF c = call.last THEN CLUSTER_EOF ELSE CutLinks[c]
  BY <1>1 DEF CutLinks, KeptEnd
<1>4. CASE ~InChain(call.last)
  <2>1. \A c \in Clusters : InChain(c) => CutLinks'[c] = CutLinks[c]
    BY <1>3, <1>4
  <2> QED  BY <1>1, <1>2, <2>1, ChainsStay, QuietStep
<1>5. CASE InChain(call.last)
  <2>1. PICK f \in Files : \E n \in 1 .. Len(ChainsOf[f]) : ChainsOf[f][n] = call.last
    BY <1>5 DEF InChain
  <2> DEFINE s == ChainsOf[f]
  <2>2. PICK n \in 1 .. Len(s) : s[n] = call.last
    BY <2>1
  <2> DEFINE D == [ChainsOf EXCEPT ![f] = SubSeq(@, 1, n)]
  <2>3. ChainsOf \in [Files -> Seq(Clusters)] /\ s \in Seq(Clusters) /\ n \in 0 .. Len(s)
    BY DEF ChainsInv, AreChains
  <2>4. SubSeq(s, 1, n) \in Seq(Clusters)
    BY <2>3
  <2>5. D \in [Files -> Seq(Clusters)] /\ D[f] = SubSeq(s, 1, n) /\ \A g \in Files : g # f => D[g] = ChainsOf[g]
    BY <2>3, <2>4
  <2> HIDE DEF D, s
  <2>6. Heads[f] \in Clusters /\ IsChain(CutLinks, Heads[f], s)
    BY <2>2 DEF ChainsInv, AreChains, s
  <2>7. IsChain(CutLinks', Heads'[f], D[f])
    <3>1. \A i \in 1 .. n - 1 : i \in 1 .. Len(s) /\ s[i] \in Clusters /\ s[i] # call.last
      <4>1. \A i \in 1 .. n - 1 : i \in 1 .. Len(s) /\ s[i] \in Clusters /\ i # n
        BY <2>3, <2>2
      <4> QED  BY <4>1, <2>2 DEF ChainsInv, s
    <3>2. s[n] \in Clusters
      BY <2>2, <2>3
    <3>3. /\ \A i \in 1 .. n - 1 : CutLinks'[s[i]] = CutLinks[s[i]]
          /\ CutLinks'[s[n]] \notin Clusters
      BY <1>3, <2>2, <3>1, <3>2, Constants
    <3>4. IsChain(CutLinks', Heads[f], SubSeq(s, 1, n))
      BY <2>6, <3>3, ChainCut
    <3> QED  BY <1>2, <2>5, <3>4
  <2>8. ASSUME NEW g \in Files, g # f
        PROVE  IF Heads'[g] \in Clusters THEN IsChain(CutLinks', Heads'[g], D[g]) ELSE D[g] = <<>>
    <3>1. D[g] = ChainsOf[g] /\ ChainsOf[g] \in Seq(Clusters)
      BY <2>3, <2>5, <2>8
    <3>2. \A i \in 1 .. Len(D[g]) : D[g][i] \in Clusters /\ D[g][i] # call.last
      BY <2>2, <2>8, <3>1 DEF ChainsInv, s
    <3>3. CASE Heads[g] \in Clusters
      <4>1. IsChain(CutLinks, Heads[g], D[g])
        BY <3>1, <3>3 DEF ChainsInv, AreChains
      <4> QED  BY <1>2, <1>3, <3>2, <4>1, <3>3, ChainKept
    <3>4. CASE Heads[g] \notin Clusters
      BY <1>2, <3>1, <3>4 DEF ChainsInv, AreChains
    <3> QED  BY <3>3, <3>4
  <2>9. AreChains(CutLinks', Heads', D)
    BY <1>2, <2>5, <2>6, <2>7, <2>8 DEF AreChains
  <2>10. ChainsOf' = D
    BY <2>9, ChainsAfter
  <2>11. \E m \in 0 .. Len(ChainsOf[f]) : ChainsOf' = [ChainsOf EXCEPT ![f] = SubSeq(@, 1, m)]
    BY <2>3, <2>10 DEF D, s
  <2>12. Pool!Cut(f)
    BY <1>1, <2>11 DEF Pool!Cut, ChainsOf
  <2> QED  BY <2>12
<1> QED  BY <1>4, <1>5

(* A cluster is refused: none is free, and the link to the number behind   *)
(* the last cluster, if there is one now, leads nowhere as it did before.  *)
Refused(r) ==
    /\ r \in Results \ Clusters
    /\ \A c \in Clusters : fat[c] # CLUSTER_FREE
    /\ \A c \in Clusters : fat'[c] = fat[c] \/ (fat'[c] \notin Clusters /\ fat[c] \notin Clusters)

-----------------------------------------------------------------------------
(* linkFreeCluster follows a link, finds a free cluster, or there is none. *)
LEMMA LinkResult ==
    ASSUME TypeOK, HintInv, ~IoErrors,
           NEW k \in Clusters \cup {CLUSTER_FREE}, NEW r \in Results, LinkFreeCluster(k, r)
    PROVE  \/ k \in Clusters /\ fat[k] \in Clusters /\ r = fat[k] /\ fat' = fat
           \/ Refused(r)
           \/ /\ r \in Clusters /\ fat[r] = CLUSTER_FREE
              /\ k \in Clusters => fat[k] \notin Clusters
              /\ fat' = [c \in Clusters |-> IF c = r THEN CLUSTER_EOF ELSE IF c = k THEN r ELSE fat[c]]
<1>1. PICK curLink \in Entry : LinkFreeCluster(k, r)!(curLink)
  BY DEF LinkFreeCluster
<1>2. curLink = NextCluster(k)
  BY <1>1 DEF Reads
<1>3. CASE curLink \in Clusters /\ r = curLink /\ UNCHANGED <<fat, firstFree, numberFreeCluster, page>>
  BY <1>2, <1>3, Constants DEF NextCluster
<1>4. CASE r = CLUSTER_ERROR /\ FindsNone /\ UNCHANGED <<fat, numberFreeCluster, page>>
  <2>1. \A c \in Clusters : c \in Searched /\ NextCluster(c) = fat[c]
    BY Constants DEF Searched, NextCluster
  <2> QED  BY <1>4, <2>1, Constants DEF FindsNone, Refused
<1>5. CASE /\ curLink \notin Clusters /\ Finds(r)
           /\ WriteFatEntries([c \in {k, r} \cap Clusters |-> IF c = r THEN CLUSTER_EOF ELSE r])
  <2>1. fat' = [c \in Clusters |-> IF c \in {k, r} \cap Clusters
                    THEN [d \in {k, r} \cap Clusters |-> IF d = r THEN CLUSTER_EOF ELSE r][c] ELSE fat[c]]
    BY <1>5, WriteEffect
  <2>2. fat' = [c \in Clusters |-> IF c = r THEN CLUSTER_EOF ELSE IF c = k THEN r ELSE fat[c]]
    BY <2>1
  <2>3. \/ r \in Clusters /\ fat[r] = CLUSTER_FREE
        \/ r = LastCluster + 1 /\ FreeClusters = {}
    BY <1>5, TableAssumption, Constants
       DEF Finds, Searched, NextCluster, SearchStart, TypeOK, HintInv, Clusters, CLUSTER_FIRST
  <2>4. k \in Clusters => fat[k] \notin Clusters
    BY <1>2, <1>5, Constants DEF NextCluster
  <2>5. CASE r \in Clusters /\ fat[r] = CLUSTER_FREE
    BY <2>2, <2>4, <2>5
  <2>6. CASE r = LastCluster + 1 /\ FreeClusters = {}
    <3>1. \A c \in Clusters : fat'[c] = fat[c] \/ (fat'[c] \notin Clusters /\ fat[c] \notin Clusters)
      BY <2>2, <2>4, <2>6, Constants
    <3> QED  BY <2>6, <3>1, Constants DEF FreeClusters, Refused
  <2> QED  BY <2>3, <2>5, <2>6
<1> QED  BY <1>1, <1>3, <1>4, <1>5

(* What the pool calls owned is what is in a chain.                        *)
LEMMA OwnedIsInChain ==
    ASSUME ChainsInv
    PROVE  \A c : c \in Pool!Owned <=> InChain(c)
<1>1. \A f \in Files : DOMAIN ChainsOf[f] = 1 .. Len(ChainsOf[f])
  BY DEF ChainsInv, AreChains
<1>2. Pool!Owned = UNION {{ChainsOf[f][i] : i \in DOMAIN ChainsOf[f]} : f \in Files}
  BY DEF Pool!Owned, Pool!ClustersOf, ChainsOf
<1> QED  BY <1>1, <1>2 DEF InChain

(* No cluster is refused while one is free.                                *)
LEMMA RefuseRefines ==
    ASSUME TypeOK, TypeOK', ChainsInv, ChainsInv', Ready, UNCHANGED start,
           NEW r, Refused(r), call' = Returned("linkFreeCluster", r)
    PROVE  Pool!Refuse
<1>1. call.op # "clear" /\ call'.op = "linkFreeCluster" /\ call'.result \notin Clusters
  BY DEF Ready, Loops, Returned, Refused
<1>2. ChainsOf' = ChainsOf
  <2>1. Heads' = Heads
    BY <1>1 DEF Heads, Dropping
  <2>2. \A c \in Clusters : CutLinks'[c] = fat'[c] /\ CutLinks[c] = fat[c]
    BY <1>1 DEF CutLinks, KeptEnd
  <2>3. \A c \in Clusters :
           CutLinks'[c] = CutLinks[c] \/ (CutLinks'[c] \notin Clusters /\ CutLinks[c] \notin Clusters)
    BY <2>2 DEF Refused
  <2> QED  BY <2>1, <2>3, ChainsStay
<1>3. \A c \in Clusters : InChain(c)
  BY <1>1 DEF ChainsInv, Refused
<1>4. \A c : InChain(c) => c \in Clusters
  BY DEF ChainsInv, AreChains, InChain
<1>5. Pool!Owned = Clusters
  BY <1>3, <1>4, OwnedIsInChain
<1> QED  BY <1>1, <1>2, <1>5 DEF Pool!Refuse, ChainsOf

(* A file grows by a cluster that was free, at its end.                    *)
LEMMA GrowRefines ==
    ASSUME TypeOK, TypeOK', ChainsInv, ChainsInv', Ready,
           NEW f \in Files, NEW k \in Clusters \cup {CLUSTER_FREE}, NEW r \in Clusters,
           fat[r] = CLUSTER_FREE,
           fat' = [c \in Clusters |-> IF c = r THEN CLUSTER_EOF ELSE IF c = k THEN r ELSE fat[c]],
           call' = Returned("linkFreeCluster", r),
           \/ k = CLUSTER_FREE /\ start[f] = CLUSTER_FREE /\ start' = [start EXCEPT ![f] = r]
           \/ /\ k \in Clusters /\ start' = start
              /\ ChainsOf[f] # <<>> /\ ChainsOf[f][Len(ChainsOf[f])] = k
    PROVE  Pool!Grow(f)
<1> DEFINE s == ChainsOf[f]
           D == [ChainsOf EXCEPT ![f] = Append(@, r)]
<1>1. /\ call.op # "clear" /\ call'.op = "linkFreeCluster" /\ call'.result = r
  BY DEF Ready, Loops, Returned
<1>2. ChainsOf \in [Files -> Seq(Clusters)] /\ s \in Seq(Clusters)
  BY DEF ChainsInv, AreChains
<1>3. D \in [Files -> Seq(Clusters)] /\ D[f] = Append(s, r) /\ \A g \in Files : g # f => D[g] = ChainsOf[g]
  BY <1>2
<1>4. ~InChain(r)
  BY DEF ChainsInv
<1>5. \A c \in Clusters : CutLinks'[c] = IF c = r THEN CLUSTER_EOF ELSE IF c = k THEN r ELSE CutLinks[c]
  BY <1>1 DEF CutLinks, KeptEnd
<1>6. \A g \in Files : Heads'[g] = start'[g] /\ Heads[g] = start[g]
  BY <1>1 DEF Heads, Dropping
<1>7. k # r
  BY <1>4, <1>2, Constants DEF InChain
<1> HIDE DEF D, s
<1>8. IF Heads'[f] \in Clusters THEN IsChain(CutLinks', Heads'[f], D[f]) ELSE D[f] = <<>>
  <2>1. CASE k = CLUSTER_FREE /\ start[f] = CLUSTER_FREE /\ start' = [start EXCEPT ![f] = r]
    <3>1. s = <<>>
      BY <1>6, <2>1, Constants DEF ChainsInv, AreChains, s
    <3>2. Heads'[f] = r
      BY <1>6, <2>1 DEF TypeOK
    <3>3. D[f] = <<r>>
      BY <1>3, <3>1
    <3>4. CutLinks'[r] \notin Clusters
      BY <1>5, Constants
    <3> QED  BY <3>2, <3>3, <3>4 DEF IsChain, IsLinked
  <2>2. CASE k \in Clusters /\ start' = start /\ s # <<>> /\ s[Len(s)] = k
    <3>1. Heads[f] \in Clusters /\ IsChain(CutLinks, Heads[f], s) /\ Heads'[f] = Heads[f]
      BY <1>6, <2>2 DEF ChainsInv, AreChains, s
    <3>2. \A i \in 1 .. Len(s) : s[i] \in Clusters /\ s[i] # r
      BY <1>2, <1>4 DEF InChain, s
    <3>3. \A i \in 1 .. Len(s) - 1 : s[i] # k
      <4>1. Len(s) \in 1 .. Len(s) /\ \A i \in 1 .. Len(s) - 1 : i \in 1 .. Len(s) /\ i # Len(s)
        BY <1>2, <2>2
      <4> QED  BY <2>2, <4>1 DEF ChainsInv, s
    <3>4. \A i \in 1 .. Len(s) - 1 : CutLinks'[s[i]] = CutLinks[s[i]]
      BY <1>2, <1>5, <3>2, <3>3
    <3>5. CutLinks'[s[Len(s)]] = r /\ CutLinks'[r] \notin Clusters
      BY <1>5, <1>7, <2>2, Constants
    <3>6. IsChain(CutLinks', Heads[f], Append(s, r))
      BY <3>1, <3>4, <3>5, ChainGrown
    <3> QED  BY <1>3, <3>1, <3>6
  <2> QED  BY <2>1, <2>2 DEF s
<1>9. ASSUME NEW g \in Files, g # f
      PROVE  IF Heads'[g] \in Clusters THEN IsChain(CutLinks', Heads'[g], D[g]) ELSE D[g] = <<>>
  <2>1. D[g] = ChainsOf[g] /\ ChainsOf[g] \in Seq(Clusters)
    BY <1>2, <1>3, <1>9
  <2>2. Heads'[g] = Heads[g]
    BY <1>6, <1>9 DEF TypeOK
  <2>3. ASSUME NEW i \in 1 .. Len(D[g]) PROVE D[g][i] \in Clusters /\ D[g][i] # r /\ D[g][i] # k
    <3>1. D[g][i] \in Clusters /\ InChain(D[g][i])
      BY <2>1 DEF InChain
    <3>2. CASE k \in Clusters /\ s # <<>> /\ s[Len(s)] = k
      <4>1. Len(s) \in 1 .. Len(s)
        BY <1>2, <3>2
      <4> QED  BY <1>4, <1>9, <2>1, <3>1, <3>2, <4>1 DEF ChainsInv, s
    <3>3. CASE k = CLUSTER_FREE
      BY <1>4, <3>1, <3>3, Constants
    <3> QED  BY <3>2, <3>3 DEF s
  <2>4. CASE Heads[g] \in Clusters
    <3>1. IsChain(CutLinks, Heads[g], D[g])
      BY <2>1, <2>4 DEF ChainsInv, AreChains
    <3>2. \A i \in 1 .. Len(D[g]) : CutLinks'[D[g][i]] = CutLinks[D[g][i]]
      BY <1>5, <2>3
    <3>3. IsChain(CutLinks', Heads[g], D[g])
      BY <3>1, <3>2, ChainKept
    <3> QED  BY <2>2, <2>4, <3>3
  <2>5. CASE Heads[g] \notin Clusters
    BY <2>1, <2>2, <2>5 DEF ChainsInv, AreChains
  <2> QED  BY <2>4, <2>5
<1>10. AreChains(CutLinks', Heads', D)
  BY <1>3, <1>8, <1>9 DEF AreChains
<1>11. ChainsOf' = [ChainsOf EXCEPT ![f] = Append(@, r)]
  BY <1>10, ChainsAfter DEF D
<1>12. r \in Clusters \ Pool!Owned
  BY <1>4, OwnedIsInChain
<1> QED  BY <1>1, <1>11, <1>12 DEF Pool!Grow, ChainsOf

(* The first cluster of a file is one that was free.                       *)
LEMMA StartChainRefines ==
    ASSUME TypeOK, TypeOK', ChainsInv, ChainsInv', HintInv, ~IoErrors,
           NEW f \in Files, StartChain(f)
    PROVE  Pool!PoolNext
<1>1. PICK r \in Results :
         /\ LinkFreeCluster(CLUSTER_FREE, r)
         /\ start' = [start EXCEPT ![f] = IF r \in Clusters THEN r ELSE @]
         /\ call' = Returned("linkFreeCluster", r)
  BY DEF StartChain
<1>2. Ready /\ start[f] = CLUSTER_FREE /\ CLUSTER_FREE \notin Clusters /\ CLUSTER_ERROR \notin Clusters
  BY Constants DEF StartChain
<1>3. \/ Refused(r)
      \/ /\ r \in Clusters /\ fat[r] = CLUSTER_FREE
         /\ fat' = [c \in Clusters |-> IF c = r THEN CLUSTER_EOF ELSE IF c = CLUSTER_FREE THEN r ELSE fat[c]]
  BY <1>1, <1>2, LinkResult
<1>4. CASE Refused(r)
  <2>1. start' = start
    BY <1>1, <1>4 DEF TypeOK, Refused
  <2> QED  BY <1>1, <1>2, <1>4, <2>1, RefuseRefines DEF Pool!PoolNext
<1>5. CASE /\ r \in Clusters /\ fat[r] = CLUSTER_FREE
           /\ fat' = [c \in Clusters |-> IF c = r THEN CLUSTER_EOF ELSE IF c = CLUSTER_FREE THEN r ELSE fat[c]]
  <2>1. start' = [start EXCEPT ![f] = r]
    BY <1>1, <1>5
  <2>2. Pool!Grow(f)
    BY <1>1, <1>2, <1>5, <2>1, GrowRefines
  <2> QED  BY <2>2 DEF Pool!PoolNext
<1> QED  BY <1>3, <1>4, <1>5

(* Behind a cluster of a chain comes the one that follows it, or if it is  *)
(* the last one that was free.                                             *)
LEMMA ExtendChainRefines ==
    ASSUME TypeOK, TypeOK', ChainsInv, ChainsInv', HintInv, ~IoErrors,
           NEW k \in Clusters, ExtendChain(k)
    PROVE  Pool!PoolNext
<1>1. PICK r \in Results : LinkFreeCluster(k, r) /\ call' = Returned("linkFreeCluster", r)
  BY DEF ExtendChain
<1>2. Ready /\ start' = start /\ fat[k] # CLUSTER_FREE /\ call.op # "clear"
  BY DEF ExtendChain, FreeClusters, Ready, Loops
<1>3. PICK f \in Files : \E i \in 1 .. Len(ChainsOf[f]) : ChainsOf[f][i] = k
  BY <1>2 DEF ChainsInv, InChain
<1> DEFINE s == ChainsOf[f]
<1>4. PICK i \in 1 .. Len(s) : s[i] = k
  BY <1>3
<1>5. s \in Seq(Clusters) /\ s # <<>> /\ IsChain(CutLinks, Heads[f], s)
  BY <1>4 DEF ChainsInv, AreChains
<1> HIDE DEF s
<1>6. CutLinks[k] = fat[k]
  BY <1>2 DEF CutLinks, KeptEnd
<1>7. CASE fat[k] \in Clusters /\ r = fat[k] /\ fat' = fat
  <2>1. i # Len(s)
    BY <1>4, <1>5, <1>6, <1>7 DEF IsChain
  <2>2. i \in 1 .. Len(s) - 1
    BY <1>4, <1>5, <2>1
  <2>3. s[i + 1] = r
    BY <1>4, <1>5, <1>6, <1>7, <2>2 DEF IsChain, IsLinked
  <2>4. call'.op = "linkFreeCluster" /\ call'.result = r
    BY <1>1 DEF Returned
  <2>5. ChainsOf' = ChainsOf
    BY <1>2, <1>7, <2>4, UntouchedRefines
  <2>6. r \in {ChainsOf[f][j + 1] : j \in 1 .. Len(ChainsOf[f]) - 1}
    BY <2>2, <2>3 DEF s
  <2>7. Pool!Follow(f)
    BY <1>7, <2>4, <2>5, <2>6 DEF Pool!Follow, ChainsOf
  <2> QED  BY <2>7 DEF Pool!PoolNext
<1>8. CASE Refused(r)
  BY <1>1, <1>2, <1>8, RefuseRefines DEF Pool!PoolNext
<1>9. CASE /\ r \in Clusters /\ fat[r] = CLUSTER_FREE /\ fat[k] \notin Clusters
           /\ fat' = [c \in Clusters |-> IF c = r THEN CLUSTER_EOF ELSE IF c = k THEN r ELSE fat[c]]
  <2>1. s[Len(s)] = k
    <3>1. ASSUME i # Len(s) PROVE FALSE
      <4>1. i \in 1 .. Len(s) - 1 /\ s[i + 1] \in Clusters
        BY <1>4, <1>5, <3>1
      <4>2. CutLinks[s[i]] = s[i + 1]
        BY <1>5, <4>1 DEF IsChain, IsLinked
      <4> QED  BY <1>4, <1>6, <1>9, <4>1, <4>2
    <3> QED  BY <1>4, <3>1
  <2>2. Pool!Grow(f)
    BY <1>1, <1>2, <1>5, <1>9, <2>1, GrowRefines DEF s
  <2> QED  BY <2>2 DEF Pool!PoolNext
<1>10. \/ k \in Clusters /\ fat[k] \in Clusters /\ r = fat[k] /\ fat' = fat
       \/ Refused(r)
       \/ /\ r \in Clusters /\ fat[r] = CLUSTER_FREE
          /\ k \in Clusters => fat[k] \notin Clusters
          /\ fat' = [c \in Clusters |-> IF c = r THEN CLUSTER_EOF ELSE IF c = k THEN r ELSE fat[c]]
  BY <1>1, LinkResult
<1> QED  BY <1>7, <1>8, <1>9, <1>10

(* Every step of the table is a step of the pool.                          *)
LEMMA PoolStep ==
    ASSUME ~IoErrors
    PROVE  /\ TypeOK /\ PartsOf(fat, start, call) /\ ChainsInv /\ HintInv
           /\ TypeOK' /\ ChainsInv'
           /\ [Next \/ Statvfs]_vars
           => [Pool!PoolNext]_(Pool!poolVars)
<1> SUFFICES ASSUME TypeOK, PartsOf(fat, start, call), ChainsInv, HintInv,
                    TypeOK', ChainsInv', [Next \/ Statvfs]_vars
             PROVE  [Pool!PoolNext]_(Pool!poolVars)
  OBVIOUS
<1>1. ASSUME NEW f \in Files, StartChain(f) PROVE Pool!PoolNext
  BY <1>1, StartChainRefines
<1>2. ASSUME NEW f \in Files, DropChain(f) PROVE Pool!PoolNext
  BY <1>2, DropChainRefines DEF Pool!PoolNext
<1>3. ASSUME NEW c \in Clusters, ExtendChain(c) PROVE Pool!PoolNext
  BY <1>3, ExtendChainRefines
<1>4. ASSUME UNCHANGED <<fat, start>>, call.op # "clear", call'.op \notin {"clear", "linkFreeCluster"}
      PROVE  Pool!PoolNext
  BY <1>4, UntouchedRefines, QuietStep DEF Pool!PoolNext
<1>5. ASSUME NEW f \in Files, NEW n \in 1 .. LastCluster, TrimChain(f, n) PROVE Pool!PoolNext
  <2>1. UNCHANGED <<fat, start>> /\ call.op # "clear" /\ call'.op = "walk"
    BY <1>5 DEF TrimChain, Ready, Loops, Returned
  <2> QED  BY <1>4, <2>1
<1>6. CASE Mount \/ Unmount \/ Statvfs
  <2>1. UNCHANGED <<fat, start>> /\ call.op # "clear" /\ call'.op \in {"none", "unmounted", "statvfs"}
    BY <1>6 DEF Mount, Unmount, Statvfs, Ready, Loops, Returned
  <2> QED  BY <1>4, <2>1
<1>7. CASE ClearLink
  BY <1>7, ClearLinkRefines DEF Pool!PoolNext
<1>8. CASE WalkOn
  <2>1. UNCHANGED <<fat, start>> /\ call.op = "walk" /\ call'.op = "walk"
    BY <1>8 DEF WalkOn, TypeOK, Call
  <2> QED  BY <1>4, <2>1
<1>9. CASE DropRest
  BY <1>9, DropRestRefines DEF Pool!PoolNext
<1>10. CASE FinishChain
  BY <1>10, FinishChainRefines DEF Pool!PoolNext
<1>11. CASE CachePage \/ UNCHANGED vars
  <2>1. CutLinks' = CutLinks /\ Heads' = Heads /\ call' = call
    BY <1>11 DEF CachePage, vars, CutLinks, Heads, KeptEnd, Dropping
  <2>2. ChainsOf' = ChainsOf
    BY <2>1, ChainsStay
  <2> QED  BY <2>1, <2>2 DEF Pool!poolVars, ChainsOf
<1> QED  BY <1>1, <1>2, <1>3, <1>5, <1>6, <1>7, <1>8, <1>9, <1>10, <1>11 DEF Next, Calls, Progress

(* A volume in order is a pool of clusters.                                *)
LEMMA PoolStart == Init /\ ChainsInv => Pool!PoolInit
<1> SUFFICES ASSUME Init, ChainsInv PROVE Pool!PoolInit
  OBVIOUS
<1>1. call.op # "linkFreeCluster"
  BY DEF Init, Returned
<1>2. ChainsOf \in [Files -> Seq(Clusters)] /\ \A f \in Files : DOMAIN ChainsOf[f] = 1 .. Len(ChainsOf[f])
  BY DEF ChainsInv, AreChains
<1>3. \A f, g \in Files : \A i \in DOMAIN ChainsOf[f], j \in DOMAIN ChainsOf[g] :
         ChainsOf[f][i] = ChainsOf[g][j] => f = g /\ i = j
  BY <1>2 DEF ChainsInv
<1> QED  BY <1>1, <1>2, <1>3 DEF Pool!PoolInit, Pool!OwnedOnce, ChainsOf

(* The allocation table is a pool of clusters: however its searches,       *)
(* walks, links and hints go, and whatever follows its last entry, a file  *)
(* grows by a cluster nobody owns, is refused one only when all are owned, *)
(* keeps the front part of its clusters when it is cut, and no call        *)
(* touches the clusters of another file, as long as the cache does not     *)
(* fail.                                                                   *)
THEOREM TableImplementsPool == ~IoErrors => (StatSpec => ImplementsClusterPool)
<1> SUFFICES ASSUME ~IoErrors PROVE StatSpec => ImplementsClusterPool
  OBVIOUS
<1>1. TableInv /\ OwnedInv => TypeOK /\ PartsOf(fat, start, call) /\ ChainsInv
  BY Parts, ChainFacts
<1>2. Init /\ ChainsInv => Pool!PoolInit
  BY PoolStart
<1>3. TypeOK /\ PartsOf(fat, start, call) /\ ChainsInv /\ HintInv /\ TypeOK' /\ ChainsInv'
      /\ [Next \/ Statvfs]_vars => [Pool!PoolNext]_(Pool!poolVars)
  BY PoolStep
<1> QED  BY <1>1, <1>2, <1>3, TableInvariance, OwnedInvariance, RefusalInvariance, PTL
         DEF StatSpec, ImplementsClusterPool, Pool!PoolSpec
=============================================================================
