--------------------------- MODULE FatTreePicture ---------------------------
(***************************************************************************)
(* The inductive invariant of the tree of directories, and what follows    *)
(* from it in one state.                                                   *)
(*                                                                         *)
(* FatTree has a table, slots and handles; that there is a tree in them is *)
(* nowhere written down. The picture of a volume says which it is: the     *)
(* directories, the chain of every head, the kids by the place of their    *)
(* entry, and a depth that falls from the root. Everything that walks the  *)
(* slots (the listing of a directory, a path, the search for a gap) is     *)
(* shown here to find what the picture has, and the properties of          *)
(* FatTreeProps to hold in a volume that has one.                          *)
(***************************************************************************)
EXTENDS FatTreeProps, FiniteSetTheorems, NaturalsInduction, WellFoundedInduction, TLAPS

-----------------------------------------------------------------------------
(* The picture of a volume *)

(* What an entry can be of: a part of the slot types *)
Slot(A) ==
    {DIR_ENTRY_LAST, DIR_ENTRY_FREE, Data} \cup
    [kind : {"entry"}, name : Names \cup {".", ".."}, dir : BOOLEAN, readOnly : BOOLEAN, cluster : A \cup {CLUSTER_FREE}]

(* The slots of the areas A, each of its type.                             *)
SlotsOk(A, s) == s \in [A -> [1 .. SlotsPerCluster -> Slot(A)]]

(* What an open file is, on a volume with the areas A.                     *)
FileOk(A) ==
    [inUse : BOOLEAN, write : BOOLEAN, modified : BOOLEAN,
     at : (A \cup {CLUSTER_ROOT}) \X (1 .. SlotsPerCluster), startCluster : A \cup {CLUSTER_FREE}]

(* The type of the state. The slots of every area are there, and a link    *)
(* leads to a cluster, to nothing or to the end.                           *)
Types ==
    /\ rootDirCluster \in {CLUSTER_ROOT, RootCluster}
    /\ fat \in [Clusters -> Links]
    /\ SlotsOk(Areas, slots)
    /\ files \in [Handles -> FileOk(Areas)]
    /\ lost \subseteq Clusters

(* The chains C, one for each head, of the table f *)
ChainsOk(A, f, C) ==
    /\ \A h \in DOMAIN C :
         /\ C[h] \in Seq(A) /\ C[h] # <<>> /\ C[h][1] = h
         /\ h = CLUSTER_ROOT => C[h] = <<CLUSTER_ROOT>>
         /\ h # CLUSTER_ROOT =>
              \A i \in 1 .. Len(C[h]) :
                 /\ C[h][i] # CLUSTER_ROOT
                 /\ f[C[h][i]] = IF i = Len(C[h]) THEN CLUSTER_EOF ELSE C[h][i + 1]
    /\ \A g, h \in DOMAIN C : \A i \in 1 .. Len(C[g]), j \in 1 .. Len(C[h]) :
          C[g][i] = C[h][j] => g = h /\ i = j
    /\ \A c \in A \ {CLUSTER_ROOT} :
          f[c] # CLUSTER_FREE => \E h \in DOMAIN C : \E i \in 1 .. Len(C[h]) : C[h][i] = c

(* Behind the end of a directory there is nothing *)
EndOk(s, ch) ==
    \A i, j \in 1 .. Len(ch), k, l \in 1 .. SlotsPerCluster :
        s[ch[i]][k] = DIR_ENTRY_LAST /\ (i < j \/ (i = j /\ k < l)) => s[ch[j]][l] = DIR_ENTRY_LAST

(* An entry that is no dot entry.                                          *)
IsKid(e) == e.kind = "entry" /\ e.name \notin {".", ".."}

(* K names every entry of the directories D: the place of a kid, the       *)
(* directory it is in, its name and what it is.                            *)
KidsOk(s, C, D, K) ==
    /\ \A d \in D : \A i \in 1 .. Len(C[d]), k \in 1 .. SlotsPerCluster :
          IsKid(s[C[d][i]][k]) => <<C[d][i], k>> \in DOMAIN K
    /\ \A x \in DOMAIN K :
          /\ K[x].in \in D
          /\ \E i \in 1 .. Len(C[K[x].in]), k \in 1 .. SlotsPerCluster : x = <<C[K[x].in][i], k>>
          /\ IsKid(s[x[1]][x[2]])
          /\ s[x[1]][x[2]].name = K[x].name
          /\ s[x[1]][x[2]].dir = K[x].dir

(* The chain ch has the dot entries of directory d, and they lead to d and *)
(* to up.                                                                  *)
DotsOk(s, ch, d, up) ==
    /\ \A n \in {".", ".."} : \E i \in 1 .. Len(ch), k \in 1 .. SlotsPerCluster :
          s[ch[i]][k].kind = "entry" /\ s[ch[i]][k].name = n
    /\ \A i \in 1 .. Len(ch), k \in 1 .. SlotsPerCluster :
          s[ch[i]][k].kind = "entry" =>
             /\ s[ch[i]][k].name = "." => s[ch[i]][k].dir /\ s[ch[i]][k].cluster = d
             /\ s[ch[i]][k].name = ".." => s[ch[i]][k].dir /\ s[ch[i]][k].cluster = up

(* What the ".." of a directory in d holds: the root is cluster 0          *)
(* (directory.c:530).                                                      *)
UpOf(r, d) == IF d = r THEN CLUSTER_ROOT ELSE d

(* The slots s are those of the tree K: nothing stands behind an end, the  *)
(* kids are where K says and every directory but the root has its dot      *)
(* entries.                                                                *)
DirsOk(r, s, C, D, K) ==
    /\ \A d \in D : EndOk(s, C[d])
    /\ KidsOk(s, C, D, K)
    /\ \A x \in DOMAIN K : K[x].dir => DotsOk(s, C[K[x].node], K[x].node, UpOf(r, K[x].in))

(* K is a tree with the root r: every other directory is one kid, less     *)
(* deep kids lead to deeper ones, names are unique in a directory and no   *)
(* two kids hold the same node.                                            *)
TreeOk(r, A, D, K, dep) ==
    /\ r \in D /\ D \subseteq A
    /\ dep \in [D -> Nat]
    /\ K = [x \in DOMAIN K |-> K[x]]
    /\ \A x \in DOMAIN K :
          /\ K[x] \in [in : D, name : Names, dir : BOOLEAN, node : A \cup {CLUSTER_FREE}]
          /\ K[x].dir => K[x].node \in D \ {r}
          /\ ~K[x].dir /\ K[x].node # CLUSTER_FREE => K[x].node \notin D
    /\ \A d \in D \ {r} : \E x \in DOMAIN K : K[x].dir /\ K[x].node = d /\ dep[K[x].in] < dep[d]
    /\ \A x, y \in DOMAIN K : K[x].in = K[y].in /\ K[x].name = K[y].name => x = y
    /\ \A x, y \in DOMAIN K : K[x].node = K[y].node => x = y \/ K[x].node = CLUSTER_FREE

(* What the kids hold.                                                     *)
NodesOf(K) == {K[x].node : x \in DOMAIN K} \ {CLUSTER_FREE}

(* The chains are those of the directories, of the files and of the lost   *)
(* clusters L, which are single.                                           *)
HeadsOk(L, C, D, K) ==
    /\ DOMAIN C = D \cup NodesOf(K) \cup L
    /\ L \cap (D \cup NodesOf(K)) = {}
    /\ \A c \in L : C[c] = <<c>>

(* An open file is at the entry of a file; its writer knows the start      *)
(* cluster and is alone at the entry; without changes to write back the    *)
(* entry knows it too.                                                     *)
HandlesOk(fs, s, K) ==
    /\ \A h \in Handles : fs[h].inUse =>
          /\ fs[h].at \in DOMAIN K /\ ~K[fs[h].at].dir
          /\ fs[h].write =>
               /\ K[fs[h].at].node = fs[h].startCluster
               /\ \A g \in Handles : g # h /\ fs[g].inUse => fs[g].at # fs[h].at
          /\ (fs[h].write /\ fs[h].modified) \/ s[fs[h].at[1]][fs[h].at[2]].cluster = fs[h].startCluster
    /\ \A x \in DOMAIN K :
          (\E h \in Handles : fs[h].inUse /\ fs[h].write /\ fs[h].at = x) \/ s[x[1]][x[2]].cluster = K[x].node

(* The picture of a volume: its directories D, the chains C of the table,  *)
(* one for each head, the kids K of the tree by their place, and how deep  *)
(* (dep) the directories are at most.                                      *)
Picture(D, C, K, dep) ==
    /\ Types
    /\ cwdCluster \in D
    /\ ChainsOk(Areas, fat, C)
    /\ DirsOk(rootDirCluster, slots, C, D, K)
    /\ TreeOk(rootDirCluster, Areas, D, K, dep)
    /\ HeadsOk(lost, C, D, K)
    /\ HandlesOk(files, slots, K)

(* The inductive invariant: the volume has a picture.                      *)
TreeInv == \E D, C, K, dep : Picture(D, C, K, dep)

-----------------------------------------------------------------------------
(* Chains of the table *)

(* A table of links for the areas A.                                       *)
TableType(A, f) == f \in [A \ {CLUSTER_ROOT} -> A \cup {CLUSTER_FREE, CLUSTER_EOF}] /\ CLUSTER_EOF \notin A

(* What the assumptions say of the constants.                              *)
LEMMA TreeConstants ==
    /\ SlotsPerCluster \in Nat /\ SlotsPerCluster > 2
    /\ CLUSTER_FREE = 0 /\ CLUSTER_ROOT = 0 /\ CLUSTER_EOF # 0
    /\ RootCluster # 0 /\ RootCluster \notin DataClusters
    /\ CLUSTER_EOF \notin DataClusters \cup {RootCluster}
    /\ 0 \notin DataClusters \cup {RootCluster}
    /\ "." \notin Names /\ ".." \notin Names
BY TreeAssumption DEF TreeAssumption, CLUSTER_FREE, CLUSTER_ROOT

(* A free cluster is in no chain.                                          *)
LEMMA FreeOutside ==
    ASSUME NEW A, NEW f, NEW C, ChainsOk(A, f, C), NEW g, g # CLUSTER_ROOT, f[g] = CLUSTER_FREE
    PROVE  \A h \in DOMAIN C : \A i \in 1 .. Len(C[h]) : C[h][i] # g
<1> SUFFICES ASSUME NEW h \in DOMAIN C, NEW i \in 1 .. Len(C[h]), C[h][i] = g PROVE FALSE
  OBVIOUS
<1>1. C[h] \in Seq(A) /\ C[h] # <<>> /\ C[h][1] = h
  BY DEF ChainsOk
<1>2. h # CLUSTER_ROOT
  <2> SUFFICES ASSUME h = CLUSTER_ROOT PROVE FALSE
    OBVIOUS
  <2>1. C[h] = <<CLUSTER_ROOT>>
    BY DEF ChainsOk
  <2> QED BY <2>1
<1>3. f[C[h][i]] = IF i = Len(C[h]) THEN CLUSTER_EOF ELSE C[h][i + 1]
  BY <1>2 DEF ChainsOk
<1>4. CASE i = Len(C[h])
  BY <1>3, <1>4, TreeConstants
<1>5. CASE i # Len(C[h])
  <2>1. i + 1 \in 1 .. Len(C[h])
    BY <1>1, <1>5
  <2>2. C[h][i + 1] # CLUSTER_ROOT
    BY <2>1, <1>2 DEF ChainsOk
  <2> QED BY <2>2, <1>3, <1>5, TreeConstants
<1> QED BY <1>4, <1>5

(* A chain grows by a free cluster. *)
LEMMA ChainGrows ==
    ASSUME NEW A, NEW f, NEW C, ChainsOk(A, f, C), TableType(A, f),
           NEW h \in DOMAIN C, h # CLUSTER_ROOT,
           NEW g \in A \ {CLUSTER_ROOT}, f[g] = CLUSTER_FREE
    PROVE  ChainsOk(A, [f EXCEPT ![C[h][Len(C[h])]] = g, ![g] = CLUSTER_EOF], [C EXCEPT ![h] = Append(C[h], g)])
<1> DEFINE l == C[h][Len(C[h])]
           f1 == [f EXCEPT ![l] = g, ![g] = CLUSTER_EOF]
           C1 == [C EXCEPT ![h] = Append(C[h], g)]
           n == Len(C[h])
<1>1. C[h] \in Seq(A) /\ C[h] # <<>> /\ n \in Nat /\ n >= 1 /\ Len(Append(C[h], g)) = n + 1
      /\ l \in A /\ l # CLUSTER_ROOT
  <2>1. C[h] \in Seq(A) /\ C[h] # <<>>
    BY DEF ChainsOk
  <2>2. n \in Nat /\ n >= 1 /\ Len(Append(C[h], g)) = n + 1
    BY <2>1
  <2> QED BY <2>1, <2>2 DEF ChainsOk
<1>2. \A x \in DOMAIN C : \A i \in 1 .. Len(C[x]) : C[x][i] # g
  BY FreeOutside
<1>3. /\ DOMAIN C1 = DOMAIN C
      /\ \A x \in DOMAIN C : x # h => C1[x] = C[x]
      /\ C1[h] = Append(C[h], g) /\ Len(C1[h]) = n + 1
      /\ \A i \in 1 .. n : C1[h][i] = C[h][i]
      /\ C1[h][n + 1] = g
  BY <1>1
<1>4. /\ l # g /\ f1[l] = g /\ f1[g] = CLUSTER_EOF
      /\ \A c \in A \ {CLUSTER_ROOT} : c # l /\ c # g => f1[c] = f[c]
  <2>1. l # g
    BY <1>1, <1>2
  <2> QED BY <2>1, <1>1 DEF TableType
<1> HIDE DEF f1, C1
<1>5. ASSUME NEW x \in DOMAIN C1
      PROVE  /\ C1[x] \in Seq(A) /\ C1[x] # <<>> /\ C1[x][1] = x
             /\ x = CLUSTER_ROOT => C1[x] = <<CLUSTER_ROOT>>
             /\ x # CLUSTER_ROOT =>
                  \A i \in 1 .. Len(C1[x]) :
                     /\ C1[x][i] # CLUSTER_ROOT
                     /\ f1[C1[x][i]] = IF i = Len(C1[x]) THEN CLUSTER_EOF ELSE C1[x][i + 1]
  <2>0. /\ C[x] \in Seq(A) /\ C[x] # <<>> /\ C[x][1] = x
        /\ x = CLUSTER_ROOT => C[x] = <<CLUSTER_ROOT>>
        /\ x # CLUSTER_ROOT =>
                  \A i \in 1 .. Len(C[x]) :
                     /\ C[x][i] # CLUSTER_ROOT
                     /\ f[C[x][i]] = IF i = Len(C[x]) THEN CLUSTER_EOF ELSE C[x][i + 1]
    BY <1>3 DEF ChainsOk
  <2>1. CASE x # h
    <3>1. C1[x] = C[x]
      BY <2>1, <1>3
    <3>2. ASSUME x # CLUSTER_ROOT, NEW i \in 1 .. Len(C[x]) PROVE f1[C[x][i]] = f[C[x][i]]
      <4>1. C[x][i] \in A \ {CLUSTER_ROOT} /\ C[x][i] # g
        BY <2>0, <1>2, <1>3, <3>2
      <4>2. C[x][i] # l
        BY <2>1, <1>1, <1>3 DEF ChainsOk
      <4> QED BY <4>1, <4>2, <1>4
    <3> QED BY <2>0, <3>1, <3>2
  <2>2. CASE x = h
    <3>1. C1[x] \in Seq(A) /\ C1[x] # <<>> /\ C1[x][1] = x
      BY <2>0, <2>2, <1>1, <1>3
    <3>2. ASSUME NEW i \in 1 .. Len(C1[x])
          PROVE /\ C1[x][i] # CLUSTER_ROOT
                /\ f1[C1[x][i]] = IF i = Len(C1[x]) THEN CLUSTER_EOF ELSE C1[x][i + 1]
      <4>1. CASE i = n + 1
        BY <4>1, <2>2, <1>3, <1>4
      <4>2. CASE i = n
        BY <4>2, <2>2, <1>3, <1>4, <1>1
      <4>3. CASE i < n
        <5>1. i \in 1 .. n /\ i + 1 \in 1 .. n /\ C1[x][i] = C[h][i] /\ C1[x][i + 1] = C[h][i + 1]
          BY <4>3, <2>2, <1>3, <1>1
        <5>2. f[C[h][i]] = C[h][i + 1] /\ C[h][i] # CLUSTER_ROOT /\ C[h][i] \in A
          BY <5>1, <2>0, <2>2, <4>3, <1>1
        <5>3. C[h][i] # l /\ C[h][i] # g
          BY <5>1, <4>3, <1>2, <1>1 DEF ChainsOk
        <5> QED BY <5>1, <5>2, <5>3, <1>4, <4>3, <2>2, <1>3, <1>1
      <4> QED BY <4>1, <4>2, <4>3, <2>2, <1>1, <1>3
    <3> QED BY <3>1, <3>2, <2>2
  <2> QED BY <2>1, <2>2
<1>6. ASSUME NEW x \in DOMAIN C1, NEW y \in DOMAIN C1,
             NEW i \in 1 .. Len(C1[x]), NEW j \in 1 .. Len(C1[y]), C1[x][i] = C1[y][j]
      PROVE  x = y /\ i = j
  <2>1. \A z \in DOMAIN C1 : \A m \in 1 .. Len(C1[z]) :
           \/ m \in 1 .. Len(C[z]) /\ C1[z][m] = C[z][m] /\ C1[z][m] # g
           \/ z = h /\ m = n + 1 /\ C1[z][m] = g
    <3> TAKE z \in DOMAIN C1
    <3> TAKE m \in 1 .. Len(C1[z])
    <3>1. CASE z # h
      BY <3>1, <1>3, <1>2
    <3>2. CASE z = h /\ m = n + 1
      BY <3>2, <1>3
    <3>3. CASE z = h /\ m # n + 1
      BY <3>3, <1>3, <1>2, <1>1
    <3> QED BY <3>1, <3>2, <3>3
  <2> QED BY <2>1, <1>6, <1>3 DEF ChainsOk
<1>7. ASSUME NEW c \in A \ {CLUSTER_ROOT}, f1[c] # CLUSTER_FREE
      PROVE  \E x \in DOMAIN C1 : \E i \in 1 .. Len(C1[x]) : C1[x][i] = c
  <2>1. CASE c = g
    <3> n + 1 \in 1 .. Len(C1[h])
      BY <1>3, <1>1
    <3> QED BY <2>1, <1>3
  <2>2. CASE c # g
    <3>1p. PICK x \in DOMAIN C : \E i \in 1 .. Len(C[x]) : C[x][i] = c
      <4>1. CASE c = l
        BY <4>1, <1>1
      <4>2. CASE c # l
        BY <4>2, <2>2, <1>4, <1>7 DEF ChainsOk
      <4> QED BY <4>1, <4>2
    <3>1. PICK i \in 1 .. Len(C[x]) : C[x][i] = c
      BY <3>1p
    <3>2. i \in 1 .. Len(C1[x]) /\ C1[x][i] = c
      BY <3>1, <1>3, <1>1
    <3> QED BY <3>2, <1>3
  <2> QED BY <2>1, <2>2
<1>8. ChainsOk(A, f1, C1)
  BY <1>5, <1>6, <1>7 DEF ChainsOk
<1> QED BY <1>8 DEF f1, C1

(* A free cluster becomes a chain of its own. *)
LEMMA ChainBegins ==
    ASSUME NEW A, NEW f, NEW C, ChainsOk(A, f, C), TableType(A, f),
           NEW g \in A \ {CLUSTER_ROOT}, f[g] = CLUSTER_FREE
    PROVE  /\ g \notin DOMAIN C
           /\ ChainsOk(A, [f EXCEPT ![g] = CLUSTER_EOF], [x \in DOMAIN C \cup {g} |-> IF x = g THEN <<g>> ELSE C[x]])
<1> DEFINE f1 == [f EXCEPT ![g] = CLUSTER_EOF]
           C1 == [x \in DOMAIN C \cup {g} |-> IF x = g THEN <<g>> ELSE C[x]]
<1>0. \A x \in DOMAIN C : C[x] \in Seq(A) /\ C[x] # <<>> /\ C[x][1] = x /\ Len(C[x]) >= 1
  BY DEF ChainsOk
<1>1. \A x \in DOMAIN C : \A i \in 1 .. Len(C[x]) : C[x][i] # g
  BY FreeOutside
<1>2. g \notin DOMAIN C
  BY <1>0, <1>1
<1>3. /\ DOMAIN C1 = DOMAIN C \cup {g}
      /\ \A x \in DOMAIN C : C1[x] = C[x]
      /\ C1[g] = <<g>> /\ Len(C1[g]) = 1 /\ C1[g][1] = g /\ C1[g] \in Seq(A) /\ C1[g] # <<>>
  BY <1>2
<1>4. /\ f1[g] = CLUSTER_EOF
      /\ \A c \in A \ {CLUSTER_ROOT} : c # g => f1[c] = f[c]
  BY DEF TableType
<1> HIDE DEF f1, C1
<1>5. ASSUME NEW x \in DOMAIN C1
      PROVE  /\ C1[x] \in Seq(A) /\ C1[x] # <<>> /\ C1[x][1] = x
             /\ x = CLUSTER_ROOT => C1[x] = <<CLUSTER_ROOT>>
             /\ x # CLUSTER_ROOT =>
                  \A i \in 1 .. Len(C1[x]) :
                     /\ C1[x][i] # CLUSTER_ROOT
                     /\ f1[C1[x][i]] = IF i = Len(C1[x]) THEN CLUSTER_EOF ELSE C1[x][i + 1]
  <2>1. CASE x = g
    BY <2>1, <1>3, <1>4
  <2>2. CASE x # g
    <3>1. x \in DOMAIN C /\ C1[x] = C[x]
      BY <2>2, <1>3
    <3>2. ASSUME x # CLUSTER_ROOT, NEW i \in 1 .. Len(C[x]) PROVE f1[C[x][i]] = f[C[x][i]]
      <4>1. C[x][i] \in A \ {CLUSTER_ROOT} /\ C[x][i] # g
        BY <1>0, <1>1, <3>1, <3>2 DEF ChainsOk
      <4> QED BY <4>1, <1>4
    <3> QED BY <3>1, <3>2 DEF ChainsOk
  <2> QED BY <2>1, <2>2
<1>6. ASSUME NEW x \in DOMAIN C1, NEW y \in DOMAIN C1,
             NEW i \in 1 .. Len(C1[x]), NEW j \in 1 .. Len(C1[y]), C1[x][i] = C1[y][j]
      PROVE  x = y /\ i = j
  <2>1. \A z \in DOMAIN C1 : \A m \in 1 .. Len(C1[z]) :
           \/ z \in DOMAIN C /\ m \in 1 .. Len(C[z]) /\ C1[z][m] = C[z][m] /\ C1[z][m] # g
           \/ z = g /\ m = 1 /\ C1[z][m] = g
    BY <1>1, <1>3
  <2> QED BY <2>1, <1>6 DEF ChainsOk
<1>7. ASSUME NEW c \in A \ {CLUSTER_ROOT}, f1[c] # CLUSTER_FREE
      PROVE  \E x \in DOMAIN C1 : \E i \in 1 .. Len(C1[x]) : C1[x][i] = c
  <2>1. CASE c = g
    <3> 1 \in 1 .. Len(C1[g])
      BY <1>3
    <3> QED BY <2>1, <1>3
  <2>2. CASE c # g
    <3>1p. PICK x \in DOMAIN C : \E i \in 1 .. Len(C[x]) : C[x][i] = c
      BY <2>2, <1>4, <1>7 DEF ChainsOk
    <3>1. PICK i \in 1 .. Len(C[x]) : C[x][i] = c
      BY <3>1p
    <3> QED BY <3>1, <1>3
  <2> QED BY <2>1, <2>2
<1>8. ChainsOk(A, f1, C1)
  BY <1>5, <1>6, <1>7 DEF ChainsOk
<1> QED BY <1>8, <1>2 DEF f1, C1

(* A chain is cleared. *)
LEMMA ChainGoes ==
    ASSUME NEW A, NEW f, NEW C, ChainsOk(A, f, C), TableType(A, f),
           NEW h \in DOMAIN C, h # CLUSTER_ROOT
    PROVE  ChainsOk(A, [c \in DOMAIN f |-> IF c \in Range(C[h]) THEN CLUSTER_FREE ELSE f[c]],
                       [x \in DOMAIN C \ {h} |-> C[x]])
<1> DEFINE f1 == [c \in DOMAIN f |-> IF c \in Range(C[h]) THEN CLUSTER_FREE ELSE f[c]]
           C1 == [x \in DOMAIN C \ {h} |-> C[x]]
<1>0. \A x \in DOMAIN C : C[x] \in Seq(A) /\ C[x] # <<>> /\ C[x][1] = x
  BY DEF ChainsOk
<1>1. \A c : c \in Range(C[h]) <=> \E i \in 1 .. Len(C[h]) : C[h][i] = c
  <2>1. DOMAIN C[h] = 1 .. Len(C[h])
    BY <1>0
  <2> QED BY <2>1 DEF Range
<1>2. /\ DOMAIN C1 = DOMAIN C \ {h}
      /\ \A x \in DOMAIN C1 : C1[x] = C[x]
  OBVIOUS
<1>3. \A c \in A \ {CLUSTER_ROOT} : f1[c] = IF c \in Range(C[h]) THEN CLUSTER_FREE ELSE f[c]
  BY DEF TableType
<1> HIDE DEF f1, C1
<1>5. ASSUME NEW x \in DOMAIN C1
      PROVE  /\ C1[x] \in Seq(A) /\ C1[x] # <<>> /\ C1[x][1] = x
             /\ x = CLUSTER_ROOT => C1[x] = <<CLUSTER_ROOT>>
             /\ x # CLUSTER_ROOT =>
                  \A i \in 1 .. Len(C1[x]) :
                     /\ C1[x][i] # CLUSTER_ROOT
                     /\ f1[C1[x][i]] = IF i = Len(C1[x]) THEN CLUSTER_EOF ELSE C1[x][i + 1]
  <2>1. x \in DOMAIN C /\ x # h /\ C1[x] = C[x]
    BY <1>2
  <2>2. ASSUME x # CLUSTER_ROOT, NEW i \in 1 .. Len(C[x]) PROVE f1[C[x][i]] = f[C[x][i]]
    <3>1. C[x][i] \in A \ {CLUSTER_ROOT}
      BY <1>0, <2>1, <2>2 DEF ChainsOk
    <3>2. C[x][i] \notin Range(C[h])
      BY <1>1, <2>1 DEF ChainsOk
    <3> QED BY <3>1, <3>2, <1>3
  <2> QED BY <2>1, <2>2 DEF ChainsOk
<1>6. ASSUME NEW x \in DOMAIN C1, NEW y \in DOMAIN C1,
             NEW i \in 1 .. Len(C1[x]), NEW j \in 1 .. Len(C1[y]), C1[x][i] = C1[y][j]
      PROVE  x = y /\ i = j
  BY <1>6, <1>2 DEF ChainsOk
<1>7. ASSUME NEW c \in A \ {CLUSTER_ROOT}, f1[c] # CLUSTER_FREE
      PROVE  \E x \in DOMAIN C1 : \E i \in 1 .. Len(C1[x]) : C1[x][i] = c
  <2>1. c \notin Range(C[h]) /\ f[c] # CLUSTER_FREE
    BY <1>7, <1>3
  <2>2p. PICK x \in DOMAIN C : \E i \in 1 .. Len(C[x]) : C[x][i] = c
    BY <2>1 DEF ChainsOk
  <2>2. PICK i \in 1 .. Len(C[x]) : C[x][i] = c
    BY <2>2p
  <2>3. x # h
    BY <2>1, <2>2, <1>1
  <2> QED BY <2>2, <2>3, <1>2
<1>8. ChainsOk(A, f1, C1)
  BY <1>5, <1>6, <1>7 DEF ChainsOk
<1> QED BY <1>8 DEF f1, C1

-----------------------------------------------------------------------------
(* Walks along links and slots *)

(* A set of natural numbers has a least one.                               *)
LEMMA Least ==
    ASSUME NEW T \in SUBSET Nat, T # {}
    PROVE  \E x \in T : \A y \in T : x <= y
<1>1. PICK R : /\ \E x \in T : \A y \in T : ~(<<y, x>> \in R)
               /\ \A x, y \in Nat : x < y => <<x, y>> \in R
  <2>1. IsWellFoundedOn(OpToRel(<, Nat), Nat)
    BY NatLessThanWellFounded
  <2>2. \A x, y \in Nat : x < y => <<x, y>> \in OpToRel(<, Nat)
    BY Zenon DEF OpToRel
  <2>3. \E x \in T : \A y \in T : ~(<<y, x>> \in OpToRel(<, Nat))
    BY <2>1, WFMin, Zenon
  <2> QED  BY <2>2, <2>3, Zenon
<1>2. PICK x \in T : \A y \in T : ~(<<y, x>> \in R)
  BY <1>1
<1>3. ASSUME NEW y \in T PROVE x <= y
  <2>1. x \in Nat /\ y \in Nat
    OBVIOUS
  <2>2. ~(y < x)
    BY <1>1, <1>2, <2>1
  <2> QED  BY <2>1, <2>2
<1> QED  BY <1>3

(* A volume has finitely many clusters.                                    *)
LEMMA ClustersFinite ==
    /\ Cardinality(Clusters) \in Nat /\ IsFiniteSet(Clusters)
    /\ Cardinality(Areas) \in Nat /\ IsFiniteSet(Areas)
<1>1. IsFiniteSet(DataClusters)
  BY TreeAssumption DEF TreeAssumption
<1>2. IsFiniteSet(DataClusters \cup {rootDirCluster})
  BY <1>1, FS_AddElement
<1>3. Clusters \in SUBSET (DataClusters \cup {rootDirCluster}) /\ Areas \in SUBSET (DataClusters \cup {rootDirCluster})
  BY DEF Clusters, Areas
<1>4. IsFiniteSet(Clusters) /\ IsFiniteSet(Areas)
  BY <1>2, <1>3, FS_Subset
<1> QED BY <1>4, FS_CardinalityType

(* ChainFrom is what its definition says. *)
LEMMA ChainFromIs ==
    ASSUME fat \in [Clusters -> Links]
    PROVE  \A n \in 0 .. Cardinality(Clusters), c \in Links :
             ChainFrom[n][c] = IF n = 0 \/ c \notin Clusters THEN <<>> ELSE <<c>> \o ChainFrom[n - 1][fat[c]]
<1> DEFINE N == Cardinality(Clusters)
           Body(g, n, c) == IF n = 0 \/ c \notin Clusters THEN <<>> ELSE <<c>> \o g[n - 1][fat[c]]
           Exists(k) == \E g : g = [n \in 0 .. k |-> [c \in Links |-> Body(g, n, c)]]
           T == {k \in 0 .. N : ~Exists(k)}
<1>0. N \in Nat
  BY ClustersFinite
<1> HIDE DEF N
<1>1. Exists(0)
  <2> DEFINE g == [n \in 0 .. 0 |-> [c \in Links |-> <<>>]]
  <2>1. \A n \in 0 .. 0, c \in Links : Body(g, n, c) = <<>>
    OBVIOUS
  <2>2. g = [n \in 0 .. 0 |-> [c \in Links |-> Body(g, n, c)]]
    <3> HIDE DEF Body
    <3> QED BY <2>1
  <2> QED BY <2>2
<1>2. ASSUME NEW k \in 1 .. N, Exists(k - 1) PROVE Exists(k)
  <2>1. PICK g : g = [n \in 0 .. k - 1 |-> [c \in Links |-> Body(g, n, c)]]
    BY <1>2
  <2>9. PICK G : G = g /\ G = [n \in 0 .. k - 1 |-> [c \in Links |-> Body(g, n, c)]]
    BY <2>1, Zenon
  <2> DEFINE g1 == [n \in 0 .. k |-> [c \in Links |-> Body(g, n, c)]]
  <2>2. ASSUME NEW n \in 0 .. k, NEW c \in Links PROVE Body(g, n, c) = Body(g1, n, c)
    <3>1. CASE n = 0 \/ c \notin Clusters
      BY <3>1
    <3>2. CASE n # 0 /\ c \in Clusters
      <4>1. n - 1 \in 0 .. k - 1 /\ fat[c] \in Links /\ n - 1 \in 0 .. k
        BY <3>2
      <4>2. g[n - 1][fat[c]] = Body(g, n - 1, fat[c])
        <5> HIDE DEF Body
        <5>1. G[n - 1][fat[c]] = Body(g, n - 1, fat[c])
          BY <2>9, <4>1
        <5> QED BY <5>1, <2>9, Zenon
      <4>3. g1[n - 1][fat[c]] = Body(g, n - 1, fat[c])
        <5> HIDE DEF Body
        <5> QED BY <4>1
      <4> QED BY <4>2, <4>3, Zenon
    <3> QED BY <3>1, <3>2
  <2>3. g1 = [n \in 0 .. k |-> [c \in Links |-> Body(g1, n, c)]]
    <3> HIDE DEF Body
    <3> QED BY <2>2
  <2> QED BY <2>3
<1> HIDE DEF Exists
<1>3. T = {}
  <2> SUFFICES ASSUME T # {} PROVE FALSE
    OBVIOUS
  <2>1. T \in SUBSET Nat
    BY <1>0
  <2>2. PICK k \in T : \A j \in T : k <= j
    BY <2>1, Least
  <2>3. k # 0 /\ k \in 1 .. N
    BY <1>1, <1>0
  <2>4. k - 1 \in 0 .. N /\ k - 1 \notin T
    BY <2>2, <2>3, <1>0
  <2> QED BY <2>3, <2>4, <1>2
<1>4. Exists(N)
  BY <1>3, <1>0
<1>5. PICK F : F = ChainFrom /\ F = [n \in 0 .. N |-> [c \in Links |-> Body(ChainFrom, n, c)]]
  BY <1>4, Zenon DEF ChainFrom, Exists, N
<1>6. \A n \in 0 .. N, c \in Links : ChainFrom[n][c] = Body(ChainFrom, n, c)
  <2> HIDE DEF Body
  <2>1. \A n \in 0 .. N, c \in Links : F[n][c] = Body(ChainFrom, n, c)
    BY <1>5
  <2> QED BY <2>1, <1>5, Zenon
<1> QED BY <1>6 DEF N

(* ListedFrom is what its definition says. *)
LEMMA ListedFromIs ==
    ASSUME fat \in [Clusters -> Links]
    PROVE  \A n \in 0 .. Cardinality(Clusters), c \in Links :
             ListedFrom[n][c] = IF n = 0 \/ c \notin Clusters THEN {}
                  ELSE EntriesIn(c) \cup IF \E k \in 1 .. SlotsPerCluster : Ends(c, k) THEN {} ELSE ListedFrom[n - 1][fat[c]]
<1> DEFINE IsEnd(c) == \E k \in 1 .. SlotsPerCluster : Ends(c, k)
           N == Cardinality(Clusters)
           Body(g, n, c) == 
             IF n = 0 \/ c \notin Clusters THEN {} ELSE EntriesIn(c) \cup IF IsEnd(c) THEN {} ELSE g[n - 1][fat[c]]
           Exists(k) == \E g : g = [n \in 0 .. k |-> [c \in Links |-> Body(g, n, c)]]
           T == {k \in 0 .. N : ~Exists(k)}
<1>0. N \in Nat
  BY ClustersFinite
<1> HIDE DEF N
<1>1. Exists(0)
  <2> DEFINE g == [n \in 0 .. 0 |-> [c \in Links |-> {}]]
  <2>1. \A n \in 0 .. 0, c \in Links : Body(g, n, c) = {}
    OBVIOUS
  <2>2. g = [n \in 0 .. 0 |-> [c \in Links |-> Body(g, n, c)]]
    <3> HIDE DEF Body
    <3> QED BY <2>1
  <2> QED BY <2>2
<1>2. ASSUME NEW k \in 1 .. N, Exists(k - 1) PROVE Exists(k)
  <2>1. PICK g : g = [n \in 0 .. k - 1 |-> [c \in Links |-> Body(g, n, c)]]
    BY <1>2
  <2>9. PICK G : G = g /\ G = [n \in 0 .. k - 1 |-> [c \in Links |-> Body(g, n, c)]]
    BY <2>1, Zenon
  <2> DEFINE g1 == [n \in 0 .. k |-> [c \in Links |-> Body(g, n, c)]]
  <2>2. ASSUME NEW n \in 0 .. k, NEW c \in Links PROVE Body(g, n, c) = Body(g1, n, c)
    <3>1. CASE n = 0 \/ c \notin Clusters
      BY <3>1
    <3>2. CASE n # 0 /\ c \in Clusters
      <4>1. n - 1 \in 0 .. k - 1 /\ fat[c] \in Links /\ n - 1 \in 0 .. k
        BY <3>2
      <4>2. g[n - 1][fat[c]] = Body(g, n - 1, fat[c])
        <5> HIDE DEF Body
        <5>1. G[n - 1][fat[c]] = Body(g, n - 1, fat[c])
          BY <2>9, <4>1
        <5> QED BY <5>1, <2>9, Zenon
      <4>3. g1[n - 1][fat[c]] = Body(g, n - 1, fat[c])
        <5> HIDE DEF Body
        <5> QED BY <4>1
      <4> QED BY <4>2, <4>3, Zenon
    <3> QED BY <3>1, <3>2
  <2>3. g1 = [n \in 0 .. k |-> [c \in Links |-> Body(g1, n, c)]]
    <3> HIDE DEF Body
    <3> QED BY <2>2
  <2> QED BY <2>3
<1> HIDE DEF Exists
<1>3. T = {}
  <2> SUFFICES ASSUME T # {} PROVE FALSE
    OBVIOUS
  <2>1. T \in SUBSET Nat
    BY <1>0
  <2>2. PICK k \in T : \A j \in T : k <= j
    BY <2>1, Least
  <2>3. k # 0 /\ k \in 1 .. N
    BY <1>1, <1>0
  <2>4. k - 1 \in 0 .. N /\ k - 1 \notin T
    BY <2>2, <2>3, <1>0
  <2> QED BY <2>3, <2>4, <1>2
<1>4. Exists(N)
  BY <1>3, <1>0
<1>5. PICK F : F = ListedFrom /\ F = [n \in 0 .. N |-> [c \in Links |-> Body(ListedFrom, n, c)]]
  BY <1>4, Zenon DEF ListedFrom, Exists, N
<1>6. \A n \in 0 .. N, c \in Links : ListedFrom[n][c] = Body(ListedFrom, n, c)
  <2> HIDE DEF Body
  <2>1. \A n \in 0 .. N, c \in Links : F[n][c] = Body(ListedFrom, n, c)
    BY <1>5
  <2> QED BY <2>1, <1>5, Zenon
<1> QED BY <1>6 DEF N

(* A step down of two numbers.                                             *)
LEMMA StepDown ==
    ASSUME NEW n \in Nat, NEW N \in Nat, NEW j \in 0 .. n - 1, j # 0, NEW m \in j + 1 .. N
    PROVE  j - 1 \in 0 .. n - 1 /\ m - 1 \in (j - 1) + 1 .. N /\ ~(j <= j - 1)
OBVIOUS

(* A sequence with one more element in front.                              *)
LEMMA Prepended ==
    ASSUME NEW X, NEW c \in X, NEW t \in Seq(X)
    PROVE  /\ <<c>> \o t \in Seq(X) /\ Len(<<c>> \o t) = Len(t) + 1
           /\ (<<c>> \o t)[1] = c
           /\ \A i \in 1 .. Len(t) : (<<c>> \o t)[i + 1] = t[i]
OBVIOUS

(* Sequences of the same elements are the same.                            *)
LEMMA SameSequence ==
    ASSUME NEW X, NEW s \in Seq(X), NEW t \in Seq(X), Len(s) = Len(t), \A i \in 1 .. Len(s) : s[i] = t[i]
    PROVE  s = t
OBVIOUS

(* The clusters of a chain, and how many they are.                         *)
LEMMA ChainLinks ==
    ASSUME Types, NEW C, ChainsOk(Areas, fat, C), NEW h \in DOMAIN C
    PROVE  /\ Place(h) = h /\ h \in Areas
           /\ C[h] \in Seq(Areas) /\ C[h] # <<>> /\ C[h][1] = h /\ Len(C[h]) \in Nat /\ Len(C[h]) >= 1
           /\ h # CLUSTER_ROOT =>
                /\ \A i \in 1 .. Len(C[h]) :
                      /\ C[h][i] \in Clusters /\ C[h][i] \in Links
                      /\ fat[C[h][i]] = IF i = Len(C[h]) THEN CLUSTER_EOF ELSE C[h][i + 1]
                /\ Len(C[h]) <= Cardinality(Clusters)
<1> DEFINE s == C[h]
           n == Len(s)
           N == Cardinality(Clusters)
<1>0. N \in Nat /\ IsFiniteSet(Clusters)
  BY ClustersFinite
<1>1. s \in Seq(Areas) /\ s # <<>> /\ s[1] = h /\ n \in Nat /\ n >= 1 /\ h \in Areas
  BY DEF ChainsOk
<1>2. Place(h) = h
  <2>1. h = CLUSTER_ROOT => rootDirCluster = CLUSTER_ROOT
    BY <1>1, TreeConstants DEF Areas, Clusters, Types
  <2> QED BY <2>1 DEF Place
<1>3. ASSUME h # CLUSTER_ROOT
      PROVE  /\ \A i \in 1 .. n : s[i] \in Clusters /\ s[i] \in Links
                        /\ fat[s[i]] = IF i = n THEN CLUSTER_EOF ELSE s[i + 1]
             /\ n <= N
  <2>0. Areas \ {CLUSTER_ROOT} = Clusters
    BY TreeConstants DEF Areas, Clusters, Types
  <2>1. \A i \in 1 .. n : s[i] \in Clusters /\ s[i] \in Links
                        /\ fat[s[i]] = IF i = n THEN CLUSTER_EOF ELSE s[i + 1]
    BY <1>1, <1>3, <2>0 DEF ChainsOk, Links
  <2>2. n <= N
    <3> DEFINE f == [i \in 1 .. n |-> s[i]]
    <3>1. f \in [1 .. n -> Clusters]
      BY <2>1
    <3>2. \A i, j \in 1 .. n : f[i] = f[j] => i = j
      BY DEF ChainsOk
    <3>3. f \in Injection(1 .. n, Clusters)
      BY <3>1, <3>2 DEF Injection, IsInjective
    <3>4. Cardinality(1 .. n) <= N
      BY <3>3, <1>0, FS_Injection
    <3>5. Cardinality(1 .. n) = n
      BY <1>1, FS_Interval
    <3> QED BY <3>4, <3>5
  <2> QED BY <2>1, <2>2
<1> QED BY <1>1, <1>2, <1>3

(* The chains of a table are what a walk along its links finds.            *)
LEMMA ChainRead ==
    ASSUME Types, NEW C, ChainsOk(Areas, fat, C), NEW h \in DOMAIN C
    PROVE  Place(h) = h /\ Chain(h) = C[h]
<1> DEFINE s == C[h]
           n == Len(s)
           N == Cardinality(Clusters)
<1>0. N \in Nat /\ IsFiniteSet(Clusters)
  BY ClustersFinite
<1>1. s \in Seq(Areas) /\ s # <<>> /\ s[1] = h /\ n \in Nat /\ n >= 1 /\ h \in Areas
  BY ChainLinks
<1>2. Place(h) = h
  BY ChainLinks
<1>3. CASE h = CLUSTER_ROOT
  BY <1>2, <1>3 DEF Chain, ChainsOk
<1>4. CASE h # CLUSTER_ROOT
  <2>0. fat \in [Clusters -> Links]
    BY DEF Types
  <2>1. \A i \in 1 .. n : s[i] \in Clusters /\ s[i] \in Links
                        /\ fat[s[i]] = IF i = n THEN CLUSTER_EOF ELSE s[i + 1]
    BY <1>4, ChainLinks
  <2>2. n <= N
    BY <1>4, ChainLinks
  <2> DEFINE IsTail(t, j) == t \in Seq(Clusters) /\ Len(t) = j + 1 /\ \A i \in 1 .. j + 1 : t[i] = s[n - j - 1 + i]
             T == {j \in 0 .. n - 1 : \E m \in j + 1 .. N : ~IsTail(ChainFrom[m][s[n - j]], j)}
  <2>3. CLUSTER_EOF \notin Clusters /\ CLUSTER_EOF \in Links
    BY TreeConstants DEF Clusters, Types, Links
  <2>4. \A m \in 0 .. N, c \in Links :
          ChainFrom[m][c] = IF m = 0 \/ c \notin Clusters THEN <<>> ELSE <<c>> \o ChainFrom[m - 1][fat[c]]
    BY <2>0, ChainFromIs
  <2> HIDE DEF N
  <2>5. ASSUME NEW j \in 0 .. n - 1, NEW m \in j + 1 .. N, j # 0 => IsTail(ChainFrom[m - 1][s[n - (j - 1)]], j - 1)
        PROVE  IsTail(ChainFrom[m][s[n - j]], j)
    <3>1. n - j \in 1 .. n /\ m \in 0 .. N /\ m # 0 /\ s[n - j] \in Clusters /\ s[n - j] \in Links /\ m - 1 \in 0 .. N
      BY <2>1, <1>0, <1>1
    <3>2. ChainFrom[m][s[n - j]] = <<s[n - j]>> \o ChainFrom[m - 1][fat[s[n - j]]]
      BY <3>1, <2>4
    <3>3. CASE j = 0
      <4>1. fat[s[n - j]] = CLUSTER_EOF
        BY <3>3, <3>1, <2>1
      <4>2. ChainFrom[m - 1][CLUSTER_EOF] = <<>>
        BY <3>1, <2>3, <2>4
      <4>3. ChainFrom[m][s[n - j]] = <<s[n - j]>>
        <5>1. <<s[n - j]>> \o <<>> = <<s[n - j]>>
          OBVIOUS
        <5> QED BY <5>1, <4>1, <4>2, <3>2
      <4> QED BY <4>3, <3>3, <3>1, <1>1
    <3>4. CASE j # 0
      <4>1. n - j # n /\ n - (j - 1) = (n - j) + 1 /\ n \in Nat /\ j \in Nat
        BY <3>4, <1>1
      <4>2. fat[s[n - j]] = s[n - (j - 1)]
        BY <4>1, <3>1, <2>1
      <4> DEFINE t == ChainFrom[m - 1][s[n - (j - 1)]]
      <4>3. t \in Seq(Clusters) /\ Len(t) = j /\ \A i \in 1 .. j : t[i] = s[n - j + i]
        <5>1. IsTail(t, j - 1)
          BY <3>4, <2>5
        <5>2. (j - 1) + 1 = j /\ \A i \in 1 .. j : n - (j - 1) - 1 + i = n - j + i
          BY <4>1
        <5> HIDE DEF t
        <5> QED BY <5>1, <5>2
      <4>4. ChainFrom[m][s[n - j]] = <<s[n - j]>> \o t
        BY <3>2, <4>2
      <4> HIDE DEF t
      <4> DEFINE u == <<s[n - j]>> \o t
      <4>5. u \in Seq(Clusters) /\ Len(u) = j + 1 /\ u[1] = s[n - j] /\ \A i \in 1 .. j : u[i + 1] = s[n - j + i]
        BY <4>3, <3>1, Prepended
      <4> HIDE DEF u
      <4>6. \A i \in 1 .. j + 1 : u[i] = s[n - j - 1 + i]
        <5> TAKE i \in 1 .. j + 1
        <5>1. CASE i = 1
          BY <5>1, <4>5, <4>1
        <5>2. CASE i # 1
          <6>1. i - 1 \in 1 .. j /\ (i - 1) + 1 = i /\ n - j + (i - 1) = n - j - 1 + i
            BY <5>2, <4>1
          <6> QED BY <6>1, <4>5
        <5> QED BY <5>1, <5>2
      <4>7. IsTail(u, j)
        BY <4>5, <4>6
      <4>8. ChainFrom[m][s[n - j]] = u
        BY <4>4 DEF u
      <4> HIDE DEF IsTail
      <4> QED BY <4>7, <4>8
    <3> QED BY <3>3, <3>4
  <2>6. T = {}
    <3> SUFFICES ASSUME T # {} PROVE FALSE
      OBVIOUS
    <3> HIDE DEF IsTail
    <3>1. PICK j \in T : \A k \in T : j <= k
      <4>1. T \in SUBSET Nat
        BY <1>1
      <4> QED BY <4>1, Least
    <3>2. PICK m \in j + 1 .. N : ~IsTail(ChainFrom[m][s[n - j]], j)
      OBVIOUS
    <3>3. j # 0
      BY <3>2, <2>5
    <3>a. j \in 0 .. n - 1 /\ m \in j + 1 .. N /\ n \in Nat /\ N \in Nat
      BY <1>1, <1>0 DEF N
    <3>b. j - 1 \in 0 .. n - 1 /\ m - 1 \in (j - 1) + 1 .. N /\ ~(j <= j - 1)
      BY <3>a, <3>3, StepDown
    <3>c. j - 1 \notin T
      BY <3>1, <3>b, Zenon
    <3>4. j - 1 \in 0 .. n - 1 /\ j - 1 \notin T /\ m - 1 \in (j - 1) + 1 .. N
      BY <3>b, <3>c
    <3>5. IsTail(ChainFrom[m - 1][s[n - (j - 1)]], j - 1)
      BY <3>4
    <3> QED BY <3>2, <3>5, <2>5
  <2>7. n - 1 \in 0 .. n - 1 /\ N \in (n - 1) + 1 .. N /\ n - (n - 1) = 1
    BY <2>2, <1>0, <1>1
  <2>8. IsTail(ChainFrom[N][s[1]], n - 1)
    <3> HIDE DEF IsTail
    <3> QED BY <2>6, <2>7
  <2>9. s \in Seq(Clusters)
    BY <2>1, <1>1
  <2>10. ChainFrom[N][s[1]] = s
    <3> DEFINE t == ChainFrom[N][s[1]]
    <3>1. t \in Seq(Clusters) /\ Len(t) = n /\ \A i \in 1 .. n : t[i] = s[i]
      <4>1. (n - 1) + 1 = n /\ \A i \in 1 .. n : n - (n - 1) - 1 + i = i
        BY <1>1
      <4> HIDE DEF t
      <4>2. IsTail(t, n - 1)
        BY <2>8 DEF t
      <4> QED BY <4>1, <4>2
    <3> HIDE DEF t, s
    <3>2. t = s
      BY <3>1, <2>9, SameSequence
    <3> QED BY <3>2 DEF t
  <2> QED BY <2>10, <1>1, <1>2, <1>4 DEF Chain, N
<1> QED BY <1>2, <1>3, <1>4

-----------------------------------------------------------------------------
(* Entries, kids and rows *)

(* What EntriesIn reads from the slots of a cluster when nothing is behind *)
(* the end.                                                                *)
LEMMA EntriesRead ==
    ASSUME NEW ch, EndOk(slots, ch), NEW i \in 1 .. Len(ch), SlotsPerCluster \in Nat
    PROVE  EntriesIn(ch[i]) = {Found(<<ch[i], k>>, slots[ch[i]][k]) :
                                  k \in {j \in 1 .. SlotsPerCluster : slots[ch[i]][j].kind = "entry"}}
<1>1. ASSUME NEW k \in 1 .. SlotsPerCluster, slots[ch[i]][k].kind = "entry", NEW l \in 1 .. k, Ends(ch[i], l)
      PROVE  FALSE
  <2>1. l \in 1 .. SlotsPerCluster /\ (l = k \/ l < k)
    OBVIOUS
  <2>2. slots[ch[i]][k] = DIR_ENTRY_LAST
    BY <1>1, <2>1 DEF EndOk, Ends
  <2> QED BY <2>2, <1>1 DEF DIR_ENTRY_LAST
<1>2. {j \in 1 .. SlotsPerCluster : slots[ch[i]][j].kind = "entry" /\ \A l \in 1 .. j : ~Ends(ch[i], l)}
      = {j \in 1 .. SlotsPerCluster : slots[ch[i]][j].kind = "entry"}
  BY <1>1
<1> QED BY <1>2, Zenon DEF EntriesIn

(* The entries of a directory are all that are in its chain.               *)
LEMMA ListedRead ==
    ASSUME Types, NEW C, ChainsOk(Areas, fat, C), NEW d \in DOMAIN C, EndOk(slots, C[d])
    PROVE  \A e : e \in Listed(d) <=>
             \E i \in 1 .. Len(C[d]), k \in 1 .. SlotsPerCluster :
                 slots[C[d][i]][k].kind = "entry" /\ e = Found(<<C[d][i], k>>, slots[C[d][i]][k])
<1> DEFINE s == C[d]
           n == Len(s)
           N == Cardinality(Clusters)
           Here(e, i) == \E k \in 1 .. SlotsPerCluster :
                            slots[s[i]][k].kind = "entry" /\ e = Found(<<s[i], k>>, slots[s[i]][k])
<1>0. N \in Nat /\ SlotsPerCluster \in Nat
  BY ClustersFinite, TreeConstants
<1>1. s \in Seq(Areas) /\ s # <<>> /\ s[1] = d /\ n \in Nat /\ n >= 1 /\ d \in Areas /\ Place(d) = d
  BY ChainLinks
<1>2. \A i \in 1 .. n : \A e : e \in EntriesIn(s[i]) <=> Here(e, i)
  <2> TAKE i \in 1 .. n
  <2>1. EntriesIn(s[i]) = {Found(<<s[i], k>>, slots[s[i]][k]) :
                                  k \in {j \in 1 .. SlotsPerCluster : slots[s[i]][j].kind = "entry"}}
    BY EntriesRead, <1>0
  <2> QED BY <2>1, Zenon
<1>3. CASE d = CLUSTER_ROOT
  <2>1. s = <<CLUSTER_ROOT>> /\ n = 1 /\ s[1] = CLUSTER_ROOT
    BY <1>3 DEF ChainsOk
  <2>2. Listed(d) = EntriesIn(s[1])
    BY <1>1, <1>3, <2>1 DEF Listed
  <2> HIDE DEF Here
  <2>3. \A e : e \in Listed(d) <=> \E i \in 1 .. n : Here(e, i)
    BY <2>1, <2>2, <1>2
  <2> QED BY <2>3, Zenon DEF Here
<1>4. CASE d # CLUSTER_ROOT
  <2>0. fat \in [Clusters -> Links]
    BY DEF Types
  <2>1. \A i \in 1 .. n : s[i] \in Clusters /\ s[i] \in Links
                        /\ fat[s[i]] = IF i = n THEN CLUSTER_EOF ELSE s[i + 1]
    BY <1>4, ChainLinks
  <2>2. n <= N
    BY <1>4, ChainLinks
  <2> DEFINE IsTail(E, j) == \A e : e \in E <=> \E i \in n - j .. n : Here(e, i)
             IsEnd(c) == \E k \in 1 .. SlotsPerCluster : Ends(c, k)
             T == {j \in 0 .. n - 1 : \E m \in j + 1 .. N : ~IsTail(ListedFrom[m][s[n - j]], j)}
  <2>3. CLUSTER_EOF \notin Clusters /\ CLUSTER_EOF \in Links
    BY TreeConstants DEF Clusters, Types, Links
  <2>4. \A m \in 0 .. N, c \in Links :
          ListedFrom[m][c] = IF m = 0 \/ c \notin Clusters THEN {}
                             ELSE EntriesIn(c) \cup IF IsEnd(c) THEN {} ELSE ListedFrom[m - 1][fat[c]]
    BY <2>0, ListedFromIs
  <2>e. ASSUME NEW i \in 1 .. n, IsEnd(s[i]), NEW j \in 1 .. n, i < j, NEW e, Here(e, j) PROVE FALSE
    <3>1. PICK k \in 1 .. SlotsPerCluster : slots[s[i]][k] = DIR_ENTRY_LAST
      BY <2>e DEF Ends
    <3>2. PICK l \in 1 .. SlotsPerCluster : slots[s[j]][l].kind = "entry"
      BY <2>e
    <3>3. slots[s[j]][l] = DIR_ENTRY_LAST
      BY <2>e, <3>1 DEF EndOk
    <3> QED BY <3>2, <3>3 DEF DIR_ENTRY_LAST
  <2> HIDE DEF N, Here, IsEnd
  <2>5. ASSUME NEW j \in 0 .. n - 1, NEW m \in j + 1 .. N, j # 0 => IsTail(ListedFrom[m - 1][s[n - (j - 1)]], j - 1)
        PROVE  IsTail(ListedFrom[m][s[n - j]], j)
    <3>1. n - j \in 1 .. n /\ m \in 0 .. N /\ m # 0 /\ s[n - j] \in Clusters /\ s[n - j] \in Links /\ m - 1 \in 0 .. N
      BY <2>1, <1>0, <1>1
    <3>2. ListedFrom[m][s[n - j]] = EntriesIn(s[n - j]) \cup IF IsEnd(s[n - j]) THEN {} ELSE ListedFrom[m - 1][fat[s[n - j]]]
      BY <3>1, <2>4
    <3>3. CASE j = 0
      <4>1. fat[s[n - j]] = CLUSTER_EOF
        BY <3>3, <3>1, <2>1
      <4>2. ListedFrom[m - 1][CLUSTER_EOF] = {}
        BY <3>1, <2>3, <2>4
      <4>3. ListedFrom[m][s[n - j]] = EntriesIn(s[n - j])
        BY <4>1, <4>2, <3>2
      <4>4. \A i \in n - j .. n : i = n - j
        BY <3>3, <1>1
      <4> QED BY <4>3, <4>4, <3>1, <1>2
    <3>4. CASE j # 0
      <4>1. n - j # n /\ n - (j - 1) = (n - j) + 1 /\ n \in Nat /\ j \in Nat
        BY <3>4, <1>1
      <4>2. fat[s[n - j]] = s[n - (j - 1)]
        BY <4>1, <3>1, <2>1
      <4>3. IsTail(ListedFrom[m - 1][s[n - (j - 1)]], j - 1)
        BY <3>4, <2>5
      <4>4. \A i : i \in n - j .. n <=> i = n - j \/ i \in n - (j - 1) .. n
        BY <4>1, <3>1
      <4>5. CASE IsEnd(s[n - j])
        <5>1. ListedFrom[m][s[n - j]] = EntriesIn(s[n - j])
          BY <4>5, <3>2
        <5>2. \A i \in n - (j - 1) .. n : i \in 1 .. n /\ n - j < i
          BY <4>1, <3>1
        <5>3. \A e : \A i \in n - (j - 1) .. n : ~Here(e, i)
          BY <5>2, <4>5, <2>e, <3>1
        <5> QED BY <5>1, <5>3, <4>4, <3>1, <1>2
      <4>6. CASE ~IsEnd(s[n - j])
        <5>1. ListedFrom[m][s[n - j]] = EntriesIn(s[n - j]) \cup ListedFrom[m - 1][s[n - (j - 1)]]
          BY <4>6, <3>2, <4>2
        <5> QED BY <5>1, <4>3, <4>4, <3>1, <1>2
      <4> QED BY <4>5, <4>6
    <3> QED BY <3>3, <3>4
  <2>6. T = {}
    <3> SUFFICES ASSUME T # {} PROVE FALSE
      OBVIOUS
    <3> HIDE DEF IsTail
    <3>1. PICK j \in T : \A k \in T : j <= k
      <4>1. T \in SUBSET Nat
        BY <1>1
      <4> QED BY <4>1, Least
    <3>2. PICK m \in j + 1 .. N : ~IsTail(ListedFrom[m][s[n - j]], j)
      OBVIOUS
    <3>3. j # 0
      BY <3>2, <2>5
    <3>a. j \in 0 .. n - 1 /\ m \in j + 1 .. N /\ n \in Nat /\ N \in Nat
      BY <1>1, <1>0 DEF N
    <3>b. j - 1 \in 0 .. n - 1 /\ m - 1 \in (j - 1) + 1 .. N /\ ~(j <= j - 1)
      BY <3>a, <3>3
    <3>c. j - 1 \notin T
      BY <3>1, <3>b, Zenon
    <3>5. IsTail(ListedFrom[m - 1][s[n - (j - 1)]], j - 1)
      BY <3>b, <3>c
    <3> QED BY <3>2, <3>5, <2>5
  <2>7. n - 1 \in 0 .. n - 1 /\ N \in (n - 1) + 1 .. N /\ n - (n - 1) = 1
    BY <2>2, <1>0, <1>1 DEF N
  <2>8. IsTail(ListedFrom[N][s[1]], n - 1)
    <3> HIDE DEF IsTail
    <3> QED BY <2>6, <2>7
  <2>9. Listed(d) = ListedFrom[N][s[1]]
    BY <1>1, <1>4 DEF Listed, N
  <2>10. \A e : e \in Listed(d) <=> \E i \in 1 .. n : Here(e, i)
    BY <2>8, <2>9, <2>7
  <2> QED BY <2>10, Zenon DEF Here
<1> QED BY <1>3, <1>4

(* The kid at place x as the directory functions find it.                  *)
KidAt(x) == Found(x, slots[x[1]][x[2]])

(* Where the kids of a directory are.                                      *)
LEMMA KidPlaces ==
    ASSUME NEW D, NEW C, NEW K, NEW dep, Picture(D, C, K, dep), NEW d \in D
    PROVE  /\ d \in DOMAIN C
           /\ \A i \in 1 .. Len(C[d]), k \in 1 .. SlotsPerCluster :
                IsKid(slots[C[d][i]][k]) => <<C[d][i], k>> \in DOMAIN K /\ K[<<C[d][i], k>>].in = d
           /\ \A x \in DOMAIN K : K[x].in = d =>
                \E i \in 1 .. Len(C[d]), k \in 1 .. SlotsPerCluster :
                    x = <<C[d][i], k>> /\ IsKid(slots[C[d][i]][k])
<1>1. DirsOk(rootDirCluster, slots, C, D, K) /\ HeadsOk(lost, C, D, K) /\ ChainsOk(Areas, fat, C)
  BY DEF Picture
<1>2. d \in DOMAIN C /\ KidsOk(slots, C, D, K)
  BY <1>1 DEF HeadsOk, DirsOk
<1>3. ASSUME NEW i \in 1 .. Len(C[d]), NEW k \in 1 .. SlotsPerCluster, IsKid(slots[C[d][i]][k])
      PROVE  <<C[d][i], k>> \in DOMAIN K /\ K[<<C[d][i], k>>].in = d
  <2> DEFINE x == <<C[d][i], k>>
  <2>1. x \in DOMAIN K
    BY <1>2, <1>3 DEF KidsOk
  <2>2. K[x].in \in D /\ \E j \in 1 .. Len(C[K[x].in]), l \in 1 .. SlotsPerCluster : x = <<C[K[x].in][j], l>>
    BY <1>2, <2>1 DEF KidsOk
  <2>3. PICK j \in 1 .. Len(C[K[x].in]) : \E l \in 1 .. SlotsPerCluster : x = <<C[K[x].in][j], l>>
    BY <2>2
  <2>4. C[K[x].in][j] = C[d][i]
    BY <2>3
  <2>5. K[x].in \in DOMAIN C
    BY <2>2, <1>1 DEF HeadsOk
  <2>6. K[x].in = d
    BY <2>4, <2>5, <1>2, <1>1 DEF ChainsOk
  <2> QED BY <2>1, <2>6
<1>4. ASSUME NEW x \in DOMAIN K, K[x].in = d
      PROVE  \E i \in 1 .. Len(C[d]), k \in 1 .. SlotsPerCluster :
                 x = <<C[d][i], k>> /\ IsKid(slots[C[d][i]][k])
  <2>1. PICK i \in 1 .. Len(C[d]), k \in 1 .. SlotsPerCluster : x = <<C[d][i], k>>
    BY <1>2, <1>4 DEF KidsOk
  <2>2. IsKid(slots[x[1]][x[2]])
    BY <1>2 DEF KidsOk
  <2> QED BY <2>1, <2>2
<1> QED BY <1>2, <1>3, <1>4

(* The kids of a directory are what K says.                                *)
LEMMA KidsRead ==
    ASSUME NEW D, NEW C, NEW K, NEW dep, Picture(D, C, K, dep), NEW d \in D
    PROVE  \A e : e \in Kids(d) <=> \E x \in DOMAIN K : K[x].in = d /\ e = KidAt(x)
<1>1. Types /\ DirsOk(rootDirCluster, slots, C, D, K) /\ HeadsOk(lost, C, D, K) /\ ChainsOk(Areas, fat, C)
  BY DEF Picture
<1>2. d \in DOMAIN C /\ EndOk(slots, C[d])
  BY <1>1 DEF HeadsOk, DirsOk
<1>3. \A e : e \in Listed(d) <=>
             \E i \in 1 .. Len(C[d]), k \in 1 .. SlotsPerCluster :
                 slots[C[d][i]][k].kind = "entry" /\ e = Found(<<C[d][i], k>>, slots[C[d][i]][k])
  BY <1>1, <1>2, ListedRead
<1>4. \A e : e \in Kids(d) <=>
             \E i \in 1 .. Len(C[d]), k \in 1 .. SlotsPerCluster :
                 IsKid(slots[C[d][i]][k]) /\ e = KidAt(<<C[d][i], k>>)
  <2>1. ASSUME NEW e, e \in Kids(d)
        PROVE  \E i \in 1 .. Len(C[d]), k \in 1 .. SlotsPerCluster :
                 IsKid(slots[C[d][i]][k]) /\ e = KidAt(<<C[d][i], k>>)
    <3>1. e \in Listed(d) /\ e.name \notin {".", ".."}
      BY <2>1 DEF Kids
    <3>2. PICK i \in 1 .. Len(C[d]), k \in 1 .. SlotsPerCluster :
                 slots[C[d][i]][k].kind = "entry" /\ e = Found(<<C[d][i], k>>, slots[C[d][i]][k])
      BY <3>1, <1>3
    <3>3. e.name = slots[C[d][i]][k].name
      BY <3>2 DEF Found
    <3>4. IsKid(slots[C[d][i]][k]) /\ e = KidAt(<<C[d][i], k>>)
      BY <3>1, <3>2, <3>3 DEF IsKid, KidAt
    <3> QED BY <3>4
  <2>2. ASSUME NEW i \in 1 .. Len(C[d]), NEW k \in 1 .. SlotsPerCluster, IsKid(slots[C[d][i]][k])
        PROVE  KidAt(<<C[d][i], k>>) \in Kids(d)
    <3>1. KidAt(<<C[d][i], k>>) = Found(<<C[d][i], k>>, slots[C[d][i]][k])
      BY DEF KidAt
    <3>2. KidAt(<<C[d][i], k>>) \in Listed(d)
      BY <3>1, <2>2, <1>3 DEF IsKid
    <3>3. KidAt(<<C[d][i], k>>).name = slots[C[d][i]][k].name
      BY <3>1 DEF Found
    <3> QED BY <3>2, <3>3, <2>2 DEF Kids, IsKid
  <2> QED BY <2>1, <2>2
<1>5. /\ \A i \in 1 .. Len(C[d]), k \in 1 .. SlotsPerCluster :
           IsKid(slots[C[d][i]][k]) => <<C[d][i], k>> \in DOMAIN K /\ K[<<C[d][i], k>>].in = d
      /\ \A x \in DOMAIN K : K[x].in = d =>
           \E i \in 1 .. Len(C[d]), k \in 1 .. SlotsPerCluster :
               x = <<C[d][i], k>> /\ IsKid(slots[C[d][i]][k])
  BY KidPlaces
<1> TAKE e
<1>6. ASSUME e \in Kids(d) PROVE \E x \in DOMAIN K : K[x].in = d /\ e = KidAt(x)
  BY <1>4, <1>5, <1>6
<1>7. ASSUME NEW x \in DOMAIN K, K[x].in = d, e = KidAt(x) PROVE e \in Kids(d)
  <2>1. PICK i \in 1 .. Len(C[d]), k \in 1 .. SlotsPerCluster : x = <<C[d][i], k>> /\ IsKid(slots[C[d][i]][k])
    BY <1>5, <1>7
  <2> QED BY <2>1, <1>4, <1>7
<1> QED BY <1>6, <1>7

(* A kid is where K has it and is what K says.                             *)
LEMMA KidFields ==
    ASSUME NEW D, NEW C, NEW K, NEW dep, Picture(D, C, K, dep), NEW x \in DOMAIN K
    PROVE  /\ KidAt(x).at = x
           /\ KidAt(x).name = K[x].name /\ K[x].name \in Names
           /\ KidAt(x).dir = K[x].dir /\ K[x].dir \in BOOLEAN
           /\ KidAt(x).cluster = slots[x[1]][x[2]].cluster
           /\ KidAt(x).readOnly = slots[x[1]][x[2]].readOnly
           /\ K[x].dir => KidAt(x).cluster = K[x].node /\ K[x].node \in D \ {rootDirCluster} /\ K[x].node # 0
           /\ K[x].in \in D
           /\ x \in Areas \X (1 .. SlotsPerCluster)
           /\ x = <<x[1], x[2]>> /\ x[1] \in Areas /\ x[2] \in 1 .. SlotsPerCluster
           /\ slots[x[1]][x[2]] = Entry(K[x].name, K[x].dir, slots[x[1]][x[2]].readOnly, slots[x[1]][x[2]].cluster)
           /\ slots[x[1]][x[2]].readOnly \in BOOLEAN
           /\ slots[x[1]][x[2]].cluster \in Areas \cup {CLUSTER_FREE}
<1>1. /\ Types /\ DirsOk(rootDirCluster, slots, C, D, K) /\ HeadsOk(lost, C, D, K) /\ ChainsOk(Areas, fat, C)
      /\ TreeOk(rootDirCluster, Areas, D, K, dep) /\ HandlesOk(files, slots, K)
  BY DEF Picture
<1>2. /\ IsKid(slots[x[1]][x[2]])
      /\ slots[x[1]][x[2]].name = K[x].name
      /\ slots[x[1]][x[2]].dir = K[x].dir
      /\ K[x].in \in D
  BY <1>1 DEF DirsOk, KidsOk
<1>3. PICK i \in 1 .. Len(C[K[x].in]), k \in 1 .. SlotsPerCluster : x = <<C[K[x].in][i], k>>
  BY <1>1 DEF DirsOk, KidsOk
<1>4. C[K[x].in][i] \in Areas
  BY <1>1, <1>2 DEF ChainsOk, HeadsOk
<1>5. x[1] \in Areas /\ x[2] \in 1 .. SlotsPerCluster /\ x = <<x[1], x[2]>> /\ x \in Areas \X (1 .. SlotsPerCluster)
  BY <1>3, <1>4
<1>6. slots[x[1]][x[2]] \in Slot(Areas)
  BY <1>1, <1>5 DEF Types, SlotsOk
<1>7. slots[x[1]][x[2]] \in [kind : {"entry"}, name : Names \cup {".", ".."}, dir : BOOLEAN,
                             readOnly : BOOLEAN, cluster : Areas \cup {CLUSTER_FREE}]
  BY <1>6, <1>2 DEF Slot, IsKid, DIR_ENTRY_LAST, DIR_ENTRY_FREE, Data
<1>8. K[x] \in [in : D, name : Names, dir : BOOLEAN, node : Areas \cup {CLUSTER_FREE}]
      /\ (K[x].dir => K[x].node \in D \ {rootDirCluster}) /\ D \subseteq Areas
  BY <1>1 DEF TreeOk
<1>9. ASSUME K[x].dir PROVE slots[x[1]][x[2]].cluster = K[x].node
  BY <1>1, <1>9 DEF HandlesOk
<1>10. ASSUME K[x].dir PROVE K[x].node # 0
  BY <1>8, <1>10, TreeConstants DEF Areas, Clusters
<1> QED BY <1>2, <1>5, <1>7, <1>8, <1>9, <1>10 DEF KidAt, Found, Entry

(* A file holds the node that K says.                                      *)
LEMMA HoldsRead ==
    ASSUME NEW D, NEW C, NEW K, NEW dep, Picture(D, C, K, dep), NEW x \in DOMAIN K
    PROVE  Holds(KidAt(x)) = K[x].node
<1>1. HandlesOk(files, slots, K)
  BY DEF Picture
<1>2. KidAt(x).at = x /\ KidAt(x).cluster = slots[x[1]][x[2]].cluster
  BY KidFields
<1> DEFINE writers == {h \in Handles : files[h].inUse /\ files[h].write /\ files[h].at = KidAt(x).at}
<1>3. CASE writers = {}
  <2>1. slots[x[1]][x[2]].cluster = K[x].node
    BY <1>1, <1>2, <1>3 DEF HandlesOk
  <2> QED BY <2>1, <1>2, <1>3 DEF Holds
<1>4. CASE writers # {}
  <2>1. (CHOOSE h \in writers : TRUE) \in writers
    BY <1>4, Zenon
  <2>2. \A h \in writers : files[h].startCluster = K[x].node
    BY <1>1, <1>2 DEF HandlesOk
  <2> QED BY <2>1, <2>2, <1>4 DEF Holds
<1> QED BY <1>3, <1>4

(* The row of kid k.                                                       *)
RowOf(k) == [dir |-> k.in, name |-> k.name, isDir |-> k.dir, node |-> k.node]

(* The rows of a directory are those of its kids.                          *)
LEMMA RowsOfRead ==
    ASSUME NEW D, NEW C, NEW K, NEW dep, Picture(D, C, K, dep), NEW d \in D
    PROVE  \A r : r \in RowsOf(d) <=> \E x \in DOMAIN K : K[x].in = d /\ r = RowOf(K[x])
<1>1. \A r : r \in RowsOf(d) <=> \E e \in Kids(d) : r = [dir |-> d, name |-> e.name, isDir |-> e.dir, node |-> Holds(e)]
  BY Zenon DEF RowsOf
<1>2. \A e : e \in Kids(d) <=> \E x \in DOMAIN K : K[x].in = d /\ e = KidAt(x)
  BY KidsRead
<1>3. ASSUME NEW x \in DOMAIN K, K[x].in = d
      PROVE [dir |-> d, name |-> KidAt(x).name, isDir |-> KidAt(x).dir, node |-> Holds(KidAt(x))] = RowOf(K[x])
  BY KidFields, HoldsRead, <1>3 DEF RowOf
<1> QED BY <1>1, <1>2, <1>3

(* DirsTo is what its definition says.                                     *)
LEMMA DirsToIs ==
    \A n \in 0 .. Cardinality(Areas) :
        DirsTo[n] = {rootDirCluster} \cup
                    IF n = 0 THEN {} ELSE UNION {{e.cluster : e \in {k \in Kids(c) : k.dir}} : c \in DirsTo[n - 1]}
<1> DEFINE N == Cardinality(Areas)
           Body(g, n) == {rootDirCluster} \cup
                         IF n = 0 THEN {} ELSE UNION {{e.cluster : e \in {k \in Kids(c) : k.dir}} : c \in g[n - 1]}
           Exists(k) == \E g : g = [n \in 0 .. k |-> Body(g, n)]
           T == {k \in 0 .. N : ~Exists(k)}
<1>0. N \in Nat
  BY ClustersFinite
<1> HIDE DEF N
<1>1. Exists(0)
  <2> DEFINE g == [n \in 0 .. 0 |-> {rootDirCluster}]
  <2>1. \A n \in 0 .. 0 : Body(g, n) = {rootDirCluster}
    OBVIOUS
  <2>2. g = [n \in 0 .. 0 |-> Body(g, n)]
    <3> HIDE DEF Body
    <3> QED BY <2>1
  <2> QED BY <2>2
<1>2. ASSUME NEW k \in 1 .. N, Exists(k - 1) PROVE Exists(k)
  <2>1. PICK g : g = [n \in 0 .. k - 1 |-> Body(g, n)]
    BY <1>2
  <2>9. PICK G : G = g /\ G = [n \in 0 .. k - 1 |-> Body(g, n)]
    BY <2>1, Zenon
  <2> DEFINE g1 == [n \in 0 .. k |-> Body(g, n)]
  <2>2. ASSUME NEW n \in 0 .. k PROVE Body(g, n) = Body(g1, n)
    <3>1. CASE n = 0
      BY <3>1
    <3>2. CASE n # 0
      <4>1. n - 1 \in 0 .. k - 1 /\ n - 1 \in 0 .. k
        BY <3>2
      <4>2. g[n - 1] = Body(g, n - 1)
        <5> HIDE DEF Body
        <5>1. G[n - 1] = Body(g, n - 1)
          BY <2>9, <4>1
        <5> QED BY <5>1, <2>9, Zenon
      <4>3. g1[n - 1] = Body(g, n - 1)
        <5> HIDE DEF Body
        <5> QED BY <4>1
      <4>4. g1[n - 1] = g[n - 1]
        BY <4>2, <4>3, Zenon
      <4> HIDE DEF g1
      <4> QED BY <4>4, Zenon
    <3> QED BY <3>1, <3>2
  <2>3. g1 = [n \in 0 .. k |-> Body(g1, n)]
    <3> HIDE DEF Body
    <3> QED BY <2>2
  <2> QED BY <2>3
<1> HIDE DEF Exists
<1>3. T = {}
  <2> SUFFICES ASSUME T # {} PROVE FALSE
    OBVIOUS
  <2>1. T \in SUBSET Nat
    BY <1>0
  <2>2. PICK k \in T : \A j \in T : k <= j
    BY <2>1, Least
  <2>3. k # 0 /\ k \in 1 .. N
    BY <1>1, <1>0
  <2>4. k - 1 \in 0 .. N /\ k - 1 \notin T
    BY <2>2, <2>3, <1>0
  <2> QED BY <2>3, <2>4, <1>2
<1>4. Exists(N)
  BY <1>3, <1>0
<1>5. PICK F : F = DirsTo /\ F = [n \in 0 .. N |-> Body(DirsTo, n)]
  BY <1>4, Zenon DEF DirsTo, Exists, N
<1>6. \A n \in 0 .. N : DirsTo[n] = Body(DirsTo, n)
  <2> HIDE DEF Body
  <2>1. \A n \in 0 .. N : F[n] = Body(DirsTo, n)
    BY <1>5
  <2> QED BY <2>1, <1>5, Zenon
<1> QED BY <1>6 DEF N

(* The directories of the directories in X.                                *)
DirsIn(K, X) == {K[x].node : x \in {y \in DOMAIN K : K[y].dir /\ K[y].in \in X}}

(* The directories down to some depth are directories of the picture, and  *)
(* each level comes from the one above it.                                 *)
LEMMA DirsToRead ==
    ASSUME NEW D, NEW C, NEW K, NEW dep, Picture(D, C, K, dep)
    PROVE  \A n \in 0 .. Cardinality(Areas) :
             /\ DirsTo[n] \subseteq D
             /\ DirsTo[n] = {rootDirCluster} \cup IF n = 0 THEN {} ELSE DirsIn(K, DirsTo[n - 1])
<1> DEFINE N == Cardinality(Areas)
           Up(X) == UNION {{e.cluster : e \in {k \in Kids(c) : k.dir}} : c \in X}
           T == {n \in 0 .. N : ~(DirsTo[n] \subseteq D)}
<1>0. N \in Nat /\ rootDirCluster \in D
  BY ClustersFinite DEF Picture, TreeOk
<1>1. ASSUME NEW X \in SUBSET D PROVE Up(X) = DirsIn(K, X) /\ Up(X) \subseteq D
  <2>1. \A c \in X : \A e : e \in Kids(c) <=> \E x \in DOMAIN K : K[x].in = c /\ e = KidAt(x)
    BY KidsRead
  <2>2. \A x \in DOMAIN K : KidAt(x).dir = K[x].dir /\ (K[x].dir => KidAt(x).cluster = K[x].node /\ K[x].node \in D)
    BY KidFields
  <2>3. ASSUME NEW a \in Up(X) PROVE a \in DirsIn(K, X)
    <3>0. PICK c \in X : a \in {e.cluster : e \in {k \in Kids(c) : k.dir}}
      OBVIOUS
    <3>1. PICK e \in Kids(c) : e.dir /\ a = e.cluster
      BY <3>0
    <3>2. PICK x \in DOMAIN K : K[x].in = c /\ e = KidAt(x)
      BY <3>1, <2>1
    <3> QED BY <3>1, <3>2, <2>2 DEF DirsIn
  <2>4. ASSUME NEW a \in DirsIn(K, X) PROVE a \in Up(X)
    <3>1. PICK x \in DOMAIN K : K[x].dir /\ K[x].in \in X /\ a = K[x].node
      BY DEF DirsIn
    <3>2. KidAt(x) \in Kids(K[x].in) /\ KidAt(x).dir /\ a = KidAt(x).cluster
      BY <3>1, <2>1, <2>2
    <3> QED BY <3>1, <3>2
  <2>5. DirsIn(K, X) \subseteq D
    BY <2>2 DEF DirsIn
  <2> HIDE DEF Up
  <2> QED BY <2>3, <2>4, <2>5
<1>2. \A n \in 0 .. N : DirsTo[n] = {rootDirCluster} \cup IF n = 0 THEN {} ELSE Up(DirsTo[n - 1])
  BY DirsToIs
<1> HIDE DEF Up, N
<1>3. T = {}
  <2> SUFFICES ASSUME T # {} PROVE FALSE
    OBVIOUS
  <2>1. T \in SUBSET Nat
    BY <1>0
  <2>2. PICK n \in T : \A j \in T : n <= j
    BY <2>1, Least
  <2>3. CASE n = 0
    BY <2>3, <1>0, <1>2
  <2>4. CASE n # 0
    <3>1. n - 1 \in 0 .. N /\ n - 1 \notin T
      BY <2>2, <2>4, <1>0
    <3>2. DirsTo[n - 1] \subseteq D
      BY <3>1
    <3>3. Up(DirsTo[n - 1]) \subseteq D
      BY <3>2, <1>1
    <3> QED BY <3>3, <1>2, <1>0, <2>4
  <2> QED BY <2>3, <2>4
<1>4. ASSUME NEW n \in 0 .. N
      PROVE  DirsTo[n] = {rootDirCluster} \cup IF n = 0 THEN {} ELSE DirsIn(K, DirsTo[n - 1])
  <2>1. CASE n = 0
    BY <2>1, <1>2
  <2>2. CASE n # 0
    <3>1. n - 1 \in 0 .. N
      BY <2>2, <1>0
    <3>2. Up(DirsTo[n - 1]) = DirsIn(K, DirsTo[n - 1])
      BY <3>1, <1>3, <1>1
    <3> QED BY <3>2, <1>2
  <2> QED BY <2>1, <2>2
<1> QED BY <1>3, <1>4 DEF N

(* Every directory is found, with at most one level for each area.         *)
LEMMA LiveDirsRead ==
    ASSUME NEW D, NEW C, NEW K, NEW dep, Picture(D, C, K, dep)
    PROVE  LiveDirs = D
<1> DEFINE N == Cardinality(Areas)
           Good(n) == DirsTo[n] = D \/ Cardinality(DirsTo[n]) >= n + 1
           T == {n \in 0 .. N : ~(Good(n) /\ (n # 0 => DirsTo[n - 1] \subseteq DirsTo[n]))}
<1>0. /\ N \in Nat /\ IsFiniteSet(Areas)
      /\ TreeOk(rootDirCluster, Areas, D, K, dep)
  BY ClustersFinite DEF Picture
<1>1. rootDirCluster \in D /\ D \subseteq Areas /\ dep \in [D -> Nat]
  BY <1>0 DEF TreeOk
<1>2. \A n \in 0 .. N : /\ DirsTo[n] \subseteq D
                        /\ DirsTo[n] = {rootDirCluster} \cup IF n = 0 THEN {} ELSE DirsIn(K, DirsTo[n - 1])
  BY DirsToRead
<1> HIDE DEF N
<1>3. \A n \in 0 .. N : IsFiniteSet(DirsTo[n]) /\ Cardinality(DirsTo[n]) \in Nat /\ Cardinality(DirsTo[n]) <= N
  <2> TAKE n \in 0 .. N
  <2>1. DirsTo[n] \in SUBSET Areas
    BY <1>1, <1>2
  <2> QED BY <2>1, <1>0, FS_Subset, FS_CardinalityType DEF N
<1>4. ASSUME NEW n \in 1 .. N, DirsTo[n - 1] # D
      PROVE  DirsTo[n] \ DirsTo[n - 1] # {}
  <2>1. n \in 0 .. N /\ n - 1 \in 0 .. N
    BY <1>0
  <2> DEFINE M == {dep[d] : d \in D \ DirsTo[n - 1]}
  <2>2. M # {} /\ M \in SUBSET Nat
    <3>1. DirsTo[n - 1] \subseteq D
      BY <1>2, <2>1
    <3>2. D \ DirsTo[n - 1] # {}
      BY <3>1, <1>4
    <3>3. \A d \in D : dep[d] \in Nat
      BY <1>1
    <3> QED BY <3>2, <3>3
  <2>3. PICK m \in M : \A k \in M : m <= k
    BY <2>2, Least
  <2>4. PICK d \in D \ DirsTo[n - 1] : m = dep[d]
    OBVIOUS
  <2>5. d # rootDirCluster
    BY <2>1, <1>2
  <2>6. PICK x \in DOMAIN K : K[x].dir /\ K[x].node = d /\ dep[K[x].in] < dep[d]
    BY <2>5, <1>0 DEF TreeOk
  <2>7. K[x].in \in D
    BY <1>0 DEF TreeOk
  <2>8. K[x].in \in DirsTo[n - 1]
    <3> SUFFICES ASSUME K[x].in \notin DirsTo[n - 1] PROVE FALSE
      OBVIOUS
    <3>1. dep[K[x].in] \in M
      BY <2>7
    <3>2. dep[d] <= dep[K[x].in] /\ dep[d] \in Nat /\ dep[K[x].in] \in Nat
      BY <3>1, <2>3, <2>4, <2>7, <1>1
    <3> QED BY <3>2, <2>6
  <2>9. d \in DirsIn(K, DirsTo[n - 1])
    BY <2>6, <2>8 DEF DirsIn
  <2> QED BY <2>9, <2>1, <1>2
<1>5. Good(0)
  <2>1. 0 \in 0 .. N
    BY <1>0
  <2>2. DirsTo[0] = {rootDirCluster}
    BY <2>1, <1>2
  <2>3. Cardinality({rootDirCluster}) = 1
    BY FS_Singleton
  <2>4. Cardinality(DirsTo[0]) >= 0 + 1
    BY <2>2, <2>3
  <2> QED BY <2>4
<1>6. T = {}
  <2> SUFFICES ASSUME T # {} PROVE FALSE
    OBVIOUS
  <2>1. T \in SUBSET Nat
    BY <1>0
  <2>2. PICK n \in T : \A j \in T : n <= j
    BY <2>1, Least
  <2>3. n # 0 /\ n \in 1 .. N /\ n \in 0 .. N
    BY <1>5, <1>0
  <2>4. n - 1 \in 0 .. N /\ n - 1 \notin T
    BY <2>2, <2>3, <1>0
  <2>5. Good(n - 1) /\ (n - 1 # 0 => DirsTo[(n - 1) - 1] \subseteq DirsTo[n - 1])
    BY <2>4
  <2>6. DirsTo[n - 1] \subseteq DirsTo[n]
    <3>1. CASE n - 1 = 0
      BY <3>1, <2>4, <2>3, <1>2
    <3>2. CASE n - 1 # 0
      <4>1. DirsIn(K, DirsTo[(n - 1) - 1]) \subseteq DirsIn(K, DirsTo[n - 1])
        BY <2>5, <3>2 DEF DirsIn
      <4>2. DirsTo[n - 1] = {rootDirCluster} \cup DirsIn(K, DirsTo[(n - 1) - 1])
        BY <3>2, <2>4, <1>2
      <4>3. DirsTo[n] = {rootDirCluster} \cup DirsIn(K, DirsTo[n - 1])
        BY <2>3, <1>2
      <4> QED BY <4>1, <4>2, <4>3
    <3> QED BY <3>1, <3>2
  <2>7. Good(n)
    <3>1. CASE DirsTo[n - 1] = D
      BY <3>1, <2>6, <2>3, <1>2
    <3>2. CASE DirsTo[n - 1] # D
      <4>1. PICK d : d \in DirsTo[n] /\ d \notin DirsTo[n - 1]
        BY <3>2, <2>3, <1>4
      <4>2. DirsTo[n - 1] \cup {d} \in SUBSET DirsTo[n]
        <5>1. DirsTo[n - 1] \subseteq DirsTo[n]
          BY <2>6
        <5> QED BY <4>1, <5>1, Zenon
      <4>3. Cardinality(DirsTo[n - 1] \cup {d}) = Cardinality(DirsTo[n - 1]) + 1
        BY <4>1, <2>4, <1>3, FS_AddElement
      <4>4. Cardinality(DirsTo[n - 1] \cup {d}) <= Cardinality(DirsTo[n])
        BY <4>2, <2>3, <1>3, FS_Subset
      <4>5. Cardinality(DirsTo[n - 1]) >= (n - 1) + 1
        BY <2>5, <3>2
      <4>6. Cardinality(DirsTo[n]) \in Nat /\ Cardinality(DirsTo[n - 1]) \in Nat
        BY <1>3, <2>3, <2>4
      <4> QED BY <4>3, <4>4, <4>5, <4>6, <2>3
    <3> QED BY <3>1, <3>2
  <2> QED BY <2>6, <2>7
<1>7. N \in 0 .. N
  BY <1>0
<1>8. DirsTo[N] = D
  <2>1. Good(N)
    BY <1>6, <1>7
  <2> QED BY <2>1, <1>3, <1>7, <1>0
<1> QED BY <1>8 DEF LiveDirs, N

(* The rows of the tree are those of the kids.                             *)
LEMMA RowsRead ==
    ASSUME NEW D, NEW C, NEW K, NEW dep, Picture(D, C, K, dep)
    PROVE  Rows = {RowOf(K[x]) : x \in DOMAIN K}
<1>1. LiveDirs = D
  BY LiveDirsRead
<1>2. \A d \in D : \A r : r \in RowsOf(d) <=> \E x \in DOMAIN K : K[x].in = d /\ r = RowOf(K[x])
  BY RowsOfRead
<1>3. \A x \in DOMAIN K : K[x].in \in D
  BY KidFields
<1>4. Rows = UNION {RowsOf(d) : d \in D}
  BY <1>1 DEF Rows
<1> QED BY <1>2, <1>3, <1>4

-----------------------------------------------------------------------------
(* What the invariants say of a picture *)

(* What is in a sequence.                                                  *)
LEMMA RangeOf ==
    ASSUME NEW X, NEW s \in Seq(X)
    PROVE  \A c : c \in Range(s) <=> \E i \in 1 .. Len(s) : s[i] = c
<1>1. DOMAIN s = 1 .. Len(s)
  OBVIOUS
<1> QED BY <1>1 DEF Range

(* The clusters of a chain, and its last one, are those of the picture.    *)
LEMMA ChainSetRead ==
    ASSUME Types, NEW C, ChainsOk(Areas, fat, C)
    PROVE  /\ ChainSet(CLUSTER_FREE) = {}
           /\ \A h \in DOMAIN C : h # CLUSTER_FREE =>
                /\ ChainSet(h) = Range(C[h]) /\ h \in Clusters /\ h \in ChainSet(h)
                /\ \A c : c \in ChainSet(h) <=> \E i \in 1 .. Len(C[h]) : C[h][i] = c
                /\ LastCluster(h) = C[h][Len(C[h])]
<1>1. CLUSTER_FREE \notin Clusters /\ Areas \ {CLUSTER_FREE} = Clusters /\ CLUSTER_FREE = CLUSTER_ROOT
  BY TreeConstants DEF Clusters, Areas, Types
<1>2. ASSUME NEW h \in DOMAIN C, h # CLUSTER_FREE
      PROVE  /\ ChainSet(h) = Range(C[h]) /\ h \in Clusters /\ h \in ChainSet(h)
             /\ \A c : c \in ChainSet(h) <=> \E i \in 1 .. Len(C[h]) : C[h][i] = c
             /\ LastCluster(h) = C[h][Len(C[h])]
  <2>1. /\ Chain(h) = C[h] /\ C[h] \in Seq(Areas) /\ C[h][1] = h /\ h \in Areas
        /\ Len(C[h]) \in Nat /\ Len(C[h]) >= 1
    BY ChainRead, ChainLinks
  <2>2. h \in Clusters
    BY <2>1, <1>1, <1>2
  <2>3. ChainSet(h) = Range(C[h])
    BY <2>1, <2>2 DEF ChainSet
  <2>4. \A c : c \in Range(C[h]) <=> \E i \in 1 .. Len(C[h]) : C[h][i] = c
    BY <2>1, RangeOf
  <2>5. 1 \in 1 .. Len(C[h])
    BY <2>1
  <2>6. LastCluster(h) = C[h][Len(C[h])]
    BY <2>1 DEF LastCluster, Last
  <2> QED BY <2>1, <2>2, <2>3, <2>4, <2>5, <2>6
<1> QED BY <1>1, <1>2 DEF ChainSet

(* Every allocated cluster has one owner in the picture.                   *)
LEMMA OneOwnerRead ==
    ASSUME NEW D, NEW C, NEW K, NEW dep, Picture(D, C, K, dep)
    PROVE  OneOwner
<1> DEFINE heads == {rootDirCluster} \cup {r.node : r \in Rows}
<1>1. /\ Types /\ ChainsOk(Areas, fat, C) /\ TreeOk(rootDirCluster, Areas, D, K, dep) /\ HeadsOk(lost, C, D, K)
  BY DEF Picture
<1>2. Rows = {RowOf(K[x]) : x \in DOMAIN K}
  BY RowsRead
<1>3. \A k : RowOf(k).node = k.node /\ RowOf(k).dir = k.in /\ RowOf(k).name = k.name /\ RowOf(k).isDir = k.dir
  BY DEF RowOf
<1>4. heads = {rootDirCluster} \cup {K[x].node : x \in DOMAIN K}
  BY <1>2, <1>3
<1> HIDE DEF heads
<1>5. \A c \in heads : c # CLUSTER_FREE => c \in DOMAIN C /\ c \in D \cup NodesOf(K)
  BY <1>4, <1>1 DEF HeadsOk, TreeOk, NodesOf
<1>6. /\ ChainSet(CLUSTER_FREE) = {}
      /\ \A h \in DOMAIN C : h # CLUSTER_FREE => \A c : c \in ChainSet(h) <=> \E i \in 1 .. Len(C[h]) : C[h][i] = c
  BY <1>1, ChainSetRead
<1>7. ASSUME NEW c \in heads, NEW d \in heads, c # d PROVE ChainSet(c) \cap ChainSet(d) = {}
  <2>1. CASE c = CLUSTER_FREE \/ d = CLUSTER_FREE
    BY <2>1, <1>6
  <2>2. CASE c # CLUSTER_FREE /\ d # CLUSTER_FREE
    <3>1. c \in DOMAIN C /\ d \in DOMAIN C
      BY <2>2, <1>5
    <3>2. \A i \in 1 .. Len(C[c]), j \in 1 .. Len(C[d]) : C[c][i] # C[d][j]
      BY <3>1, <1>1, <1>7 DEF ChainsOk
    <3> QED BY <3>1, <3>2, <1>6, <2>2
  <2> QED BY <2>1, <2>2
<1>8. ASSUME NEW r \in Rows, NEW s \in Rows, r.node = s.node PROVE r = s \/ r.node = CLUSTER_FREE
  <2>1. PICK x \in DOMAIN K : r = RowOf(K[x])
    BY <1>2
  <2>2. PICK y \in DOMAIN K : s = RowOf(K[y])
    BY <1>2
  <2>3. K[x].node = K[y].node
    BY <2>1, <2>2, <1>3, <1>8
  <2>4. x = y \/ K[x].node = CLUSTER_FREE
    BY <2>3, <1>1 DEF TreeOk
  <2> QED BY <2>1, <2>2, <2>4, <1>3
<1>9. \A c \in DOMAIN C : c # CLUSTER_FREE => c \in heads \/ c \in lost
  <2>1. \A c \in D : c = rootDirCluster \/ \E x \in DOMAIN K : K[x].node = c
    BY <1>1 DEF TreeOk
  <2> QED BY <2>1, <1>1, <1>4 DEF HeadsOk, NodesOf
<1>10. \A c \in lost : c # CLUSTER_FREE /\ c \in DOMAIN C /\ C[c] = <<c>> /\ c \notin D \cup NodesOf(K)
  BY <1>1, TreeConstants DEF HeadsOk, Types, Clusters
<1>11. ASSUME NEW c \in Clusters, fat[c] # CLUSTER_FREE
       PROVE  c \in lost \cup UNION {ChainSet(d) : d \in heads}
  <2>1. c \in Areas \ {CLUSTER_ROOT}
    BY TreeConstants DEF Clusters, Areas, Types
  <2>2. PICK h \in DOMAIN C : \E i \in 1 .. Len(C[h]) : C[h][i] = c
    BY <2>1, <1>1, <1>11 DEF ChainsOk
  <2>3. h # CLUSTER_FREE
    <3> SUFFICES ASSUME h = CLUSTER_FREE PROVE FALSE
      OBVIOUS
    <3>1. C[h] = <<CLUSTER_ROOT>>
      BY <1>1, TreeConstants DEF ChainsOk
    <3> QED BY <3>1, <2>1, <2>2
  <2>4. c \in ChainSet(h)
    BY <2>2, <2>3, <1>6
  <2>5. CASE h \in heads
    BY <2>4, <2>5
  <2>6. CASE h \in lost
    <3>1. C[h] = <<h>>
      BY <2>6, <1>10
    <3>2. c = h
      BY <3>1, <2>2
    <3> QED BY <3>2, <2>6
  <2> QED BY <2>3, <2>5, <2>6, <1>9
<1>12. ASSUME NEW c \in Clusters, c \in lost \cup UNION {ChainSet(d) : d \in heads}
       PROVE  fat[c] # CLUSTER_FREE
  <2>1. PICK h \in DOMAIN C : h # CLUSTER_FREE /\ \E i \in 1 .. Len(C[h]) : C[h][i] = c
    <3>1. CASE c \in lost
      <4>1. C[c] = <<c>> /\ c \in DOMAIN C /\ c # CLUSTER_FREE /\ 1 \in 1 .. Len(<<c>>) /\ <<c>>[1] = c
        BY <3>1, <1>10
      <4> QED BY <4>1
    <3>2. CASE c \notin lost
      <4>1. PICK d \in heads : c \in ChainSet(d)
        BY <3>2, <1>12
      <4>2. d # CLUSTER_FREE
        BY <4>1, <1>6
      <4> QED BY <4>1, <4>2, <1>5, <1>6
    <3> QED BY <3>1, <3>2
  <2> SUFFICES ASSUME fat[c] = CLUSTER_FREE PROVE FALSE
    OBVIOUS
  <2>2. c # CLUSTER_ROOT
    BY TreeConstants DEF Clusters, Types
  <2> QED BY <2>1, <2>2, <1>1, FreeOutside
<1>13. lost \cap UNION {ChainSet(d) : d \in heads} = {}
  <2> SUFFICES ASSUME NEW c \in lost, NEW d \in heads, c \in ChainSet(d) PROVE FALSE
    OBVIOUS
  <2>1. d # CLUSTER_FREE
    BY <1>6
  <2>2. d \in DOMAIN C /\ d \in D \cup NodesOf(K)
    BY <2>1, <1>5
  <2>3. PICK i \in 1 .. Len(C[d]) : C[d][i] = c
    BY <2>1, <2>2, <1>6
  <2>4. c \in DOMAIN C /\ 1 \in 1 .. Len(C[c]) /\ C[c][1] = c
    BY <1>10
  <2>5. d = c
    BY <2>2, <2>3, <2>4, <1>1 DEF ChainsOk
  <2> QED BY <2>2, <2>5, <1>10
<1>14. /\ \A c, d \in heads : c # d => ChainSet(c) \cap ChainSet(d) = {}
       /\ \A r, s \in Rows : r.node = s.node => r = s \/ r.node = CLUSTER_FREE
       /\ \A c \in Clusters : fat[c] # CLUSTER_FREE <=> c \in lost \cup UNION {ChainSet(d) : d \in heads}
       /\ lost \cap UNION {ChainSet(d) : d \in heads} = {}
  BY <1>7, <1>8, <1>11, <1>12, <1>13
<1> QED BY <1>14 DEF OneOwner, heads

(* The entry of an open file is in the picture.                            *)
LEMMA HandlesRead ==
    ASSUME NEW D, NEW C, NEW K, NEW dep, Picture(D, C, K, dep)
    PROVE  HandlesKeepTheirEntry
<1>1. HandlesOk(files, slots, K) /\ LiveDirs = D
  BY LiveDirsRead DEF Picture
<1> SUFFICES ASSUME NEW h \in Handles, files[h].inUse
             PROVE  \E d \in LiveDirs : \E e \in Kids(d) :
                      /\ e.at = files[h].at
                      /\ ~e.dir
                      /\ (files[h].write /\ files[h].modified) \/ e.cluster = files[h].startCluster
  BY DEF HandlesKeepTheirEntry
<1> DEFINE x == files[h].at
<1>2. /\ x \in DOMAIN K /\ ~K[x].dir
      /\ (files[h].write /\ files[h].modified) \/ slots[x[1]][x[2]].cluster = files[h].startCluster
  BY <1>1 DEF HandlesOk
<1>3. /\ KidAt(x).at = x /\ KidAt(x).dir = K[x].dir /\ K[x].in \in D
      /\ KidAt(x).cluster = slots[x[1]][x[2]].cluster
  <2> HIDE DEF x
  <2> QED BY <1>2, KidFields
<1>4. \A e : e \in Kids(K[x].in) <=> \E y \in DOMAIN K : K[y].in = K[x].in /\ e = KidAt(y)
  BY <1>3, KidsRead
<1>5. KidAt(x) \in Kids(K[x].in)
  BY <1>2, <1>4
<1> QED BY <1>1, <1>2, <1>3, <1>5

-----------------------------------------------------------------------------
(* Paths *)

(* The directories that part i of path p leads to from those in X.         *)
Onward(p, X, i) == UNION {{StepInto(e) : e \in LookUp(c, p.parts[i], TRUE)} : c \in X}

(* Where a path begins.                                                    *)
Begin(p) == IF p.abs THEN rootDirCluster ELSE cwdCluster

(* The directories of a walk along the first k parts of p, one by one.     *)
IsWalk(p, k, g) == g = [i \in 0 .. k |-> IF i = 0 THEN {Begin(p)} ELSE Onward(p, g[i - 1], i)]

(* The entry of the root stands for a ".." that leads there.               *)
AsRootEntry(e) == IF rootDirCluster # CLUSTER_ROOT /\ e.dir /\ e.cluster = CLUSTER_ROOT THEN RootEntry ELSE e

(* The walk of entryFromPath is what its definition says.                  *)
LEMMA WalkIs ==
    ASSUME NEW p, NEW k \in Nat
    PROVE  \E g : /\ IsWalk(p, k, g)
                  /\ EntryFromPath(p, k) =
                       IF k = 0 THEN {RootEntry}
                       ELSE {AsRootEntry(e) : e \in UNION {LookUp(c, p.parts[k], k < Len(p.parts)) : c \in g[k - 1]}}
<1> DEFINE Body(g, i) == IF i = 0 THEN {IF p.abs THEN rootDirCluster ELSE cwdCluster}
                         ELSE UNION {{StepInto(e) : e \in LookUp(c, p.parts[i], TRUE)} : c \in g[i - 1]}
           Exists(n) == \E g : g = [i \in 0 .. n |-> Body(g, i)]
           T == {n \in 0 .. k : ~Exists(n)}
           dirs[i \in 0 .. k] ==
             IF i = 0 THEN {IF p.abs THEN rootDirCluster ELSE cwdCluster}
             ELSE UNION {{StepInto(e) : e \in LookUp(c, p.parts[i], TRUE)} : c \in dirs[i - 1]}
<1>1. Exists(0)
  <2> DEFINE g == [n \in 0 .. 0 |-> {IF p.abs THEN rootDirCluster ELSE cwdCluster}]
  <2>1. \A n \in 0 .. 0 : Body(g, n) = {IF p.abs THEN rootDirCluster ELSE cwdCluster}
    OBVIOUS
  <2>2. g = [n \in 0 .. 0 |-> Body(g, n)]
    <3> HIDE DEF Body
    <3> QED BY <2>1
  <2> QED BY <2>2
<1>2. ASSUME NEW n \in 1 .. k, Exists(n - 1) PROVE Exists(n)
  <2>1. PICK g : g = [i \in 0 .. n - 1 |-> Body(g, i)]
    BY <1>2
  <2>9. PICK G : G = g /\ G = [i \in 0 .. n - 1 |-> Body(g, i)]
    BY <2>1, Zenon
  <2> DEFINE g1 == [i \in 0 .. n |-> Body(g, i)]
  <2>2. ASSUME NEW i \in 0 .. n PROVE Body(g, i) = Body(g1, i)
    <3>1. CASE i = 0
      BY <3>1
    <3>2. CASE i # 0
      <4>1. i - 1 \in 0 .. n - 1 /\ i - 1 \in 0 .. n
        BY <3>2
      <4>2. g[i - 1] = Body(g, i - 1)
        <5> HIDE DEF Body
        <5>1. G[i - 1] = Body(g, i - 1)
          BY <2>9, <4>1
        <5> QED BY <5>1, <2>9, Zenon
      <4>3. g1[i - 1] = Body(g, i - 1)
        <5> HIDE DEF Body
        <5> QED BY <4>1
      <4>4. g1[i - 1] = g[i - 1]
        BY <4>2, <4>3, Zenon
      <4> HIDE DEF g1
      <4> QED BY <4>4, Zenon
    <3> QED BY <3>1, <3>2
  <2>3. g1 = [i \in 0 .. n |-> Body(g1, i)]
    <3> HIDE DEF Body
    <3> QED BY <2>2
  <2> QED BY <2>3
<1> HIDE DEF Exists
<1>3. T = {}
  <2> SUFFICES ASSUME T # {} PROVE FALSE
    OBVIOUS
  <2>1. T \in SUBSET Nat
    OBVIOUS
  <2>2. PICK n \in T : \A j \in T : n <= j
    BY <2>1, Least
  <2>3. n # 0 /\ n \in 1 .. k
    BY <1>1
  <2>4. n - 1 \in 0 .. k /\ n - 1 \notin T
    BY <2>2, <2>3
  <2> QED BY <2>3, <2>4, <1>2
<1>4. Exists(k)
  BY <1>3
<1>5. dirs = [i \in 0 .. k |-> Body(dirs, i)]
  BY <1>4, Zenon DEF Exists
<1>6. IsWalk(p, k, dirs)
  BY <1>5, Zenon DEF IsWalk, Onward, Begin
<1>7. EntryFromPath(p, k) =
        IF k = 0 THEN {RootEntry}
        ELSE {AsRootEntry(e) : e \in UNION {LookUp(c, p.parts[k], k < Len(p.parts)) : c \in dirs[k - 1]}}
  BY Zenon DEF EntryFromPath, AsRootEntry
<1> HIDE DEF dirs
<1> QED BY <1>6, <1>7

(* The names of the dot entries.                                           *)
Dotted == {".", ".."}

(* How an entry shows in the tree: a directory by its cluster, a file by   *)
(* its place.                                                              *)
View(e) == IF e.dir THEN <<Place(e.cluster), 0>> ELSE e.at

(* The directory above c.                                                  *)
LEMMA ParentRead ==
    ASSUME NEW D, NEW C, NEW K, NEW dep, Picture(D, C, K, dep), NEW c \in D, c # rootDirCluster
    PROVE  \E y \in DOMAIN K : /\ K[y].dir /\ K[y].node = c /\ K[y].in \in D
                               /\ ParentOf(c) = {K[y].in}
                               /\ DotsOk(slots, C[c], c, UpOf(rootDirCluster, K[y].in))
<1>1. /\ TreeOk(rootDirCluster, Areas, D, K, dep) /\ DirsOk(rootDirCluster, slots, C, D, K)
      /\ LiveDirs = D
  BY LiveDirsRead DEF Picture
<1>2. PICK y \in DOMAIN K : K[y].dir /\ K[y].node = c
  BY <1>1 DEF TreeOk
<1>3. K[y].in \in D /\ c # CLUSTER_FREE
  BY <1>2, KidFields, TreeConstants
<1>4. \A a \in D : \A e : e \in Kids(a) <=> \E x \in DOMAIN K : K[x].in = a /\ e = KidAt(x)
  BY KidsRead
<1>5. \A x \in DOMAIN K : KidAt(x).dir = K[x].dir /\ (K[x].dir => KidAt(x).cluster = K[x].node)
  BY KidFields
<1>6. KidAt(y) \in Kids(K[y].in)
  BY <1>3, <1>4
<1>7. K[y].in \in ParentOf(c)
  BY <1>1, <1>2, <1>3, <1>5, <1>6 DEF ParentOf
<1>8. ASSUME NEW a \in ParentOf(c) PROVE a = K[y].in
  <2>1. a \in D /\ \E e \in Kids(a) : e.dir /\ e.cluster = c
    BY <1>1 DEF ParentOf
  <2>2. PICK x \in DOMAIN K : K[x].in = a /\ KidAt(x).dir /\ KidAt(x).cluster = c
    BY <2>1, <1>4
  <2>3. K[x].node = c
    BY <2>2, <1>5
  <2>4. x = y
    BY <2>3, <1>1, <1>2, <1>3 DEF TreeOk
  <2> QED BY <2>2, <2>4
<1>9. DotsOk(slots, C[c], c, UpOf(rootDirCluster, K[y].in))
  BY <1>1, <1>2 DEF DirsOk
<1> QED BY <1>2, <1>3, <1>7, <1>8, <1>9

(* Place takes the two names of the root for one.                          *)
LEMMA PlaceOf ==
    ASSUME NEW D, NEW C, NEW K, NEW dep, Picture(D, C, K, dep)
    PROVE  /\ \A c \in D : Place(c) = c /\ Place(UpOf(rootDirCluster, c)) = c
           /\ \A e : StepInto(e) = Place(e.cluster)
<1>1. Types /\ D \subseteq Areas
  BY DEF Picture, TreeOk
<1>2. \A c \in Areas : Place(c) = c /\ Place(UpOf(rootDirCluster, c)) = c
  BY <1>1, TreeConstants DEF Place, Areas, Clusters, Types, UpOf
<1>3. \A e : StepInto(e) = Place(e.cluster)
  BY DEF StepInto, Place
<1> QED BY <1>1, <1>2, <1>3

(* A dot entry is there and leads where the tree says.                     *)
LEMMA DotLookUp ==
    ASSUME NEW D, NEW C, NEW K, NEW dep, Picture(D, C, K, dep), NEW c \in D, NEW n \in Dotted, NEW b \in BOOLEAN
    PROVE  /\ LookUp(c, n, b) # {}
           /\ \A e \in LookUp(c, n, b) : e.dir /\ {<<Place(e.cluster), 0>>} = StepInTree(c, n)
           /\ LookUp(c, n, b) = LookUp(c, n, FALSE)
           /\ \A e \in LookUp(c, n, b) : ~NotDot(e) /\ (e.cluster = CLUSTER_ROOT \/ e.cluster \in D)
           /\ \A e \in LookUp(c, n, b) : Place(e.cluster) \in D
<1>0. n \in {".", ".."} /\ "." # ".."
  BY DEF Dotted
<1>1. \A d \in D : Place(d) = d /\ Place(UpOf(rootDirCluster, d)) = d
  BY PlaceOf
<1>2. CASE c = rootDirCluster
  <2>1. LookUp(c, n, b) = {RootEntry} /\ LookUp(c, n, FALSE) = {RootEntry}
    BY <1>0, <1>2 DEF LookUp
  <2>2. RootEntry.dir /\ RootEntry.cluster = rootDirCluster /\ RootEntry.name = "."
    BY DEF RootEntry, Found, Entry
  <2>3. StepInTree(c, n) = {<<c, 0>>}
    <3>1. ParentOf(c) = {c}
      BY <1>2 DEF ParentOf
    <3>2. {<<a, 0>> : a \in ParentOf(c)} = {<<c, 0>>}
      BY <3>1
    <3> QED BY <1>0, <3>2 DEF StepInTree
  <2>4. Place(c) = c
    BY <1>1
  <2> QED BY <2>1, <2>2, <2>3, <2>4, <1>2 DEF NotDot
<1>3. CASE c # rootDirCluster
  <2>1. PICK y \in DOMAIN K : /\ K[y].in \in D /\ ParentOf(c) = {K[y].in}
                              /\ DotsOk(slots, C[c], c, UpOf(rootDirCluster, K[y].in))
    BY <1>3, ParentRead
  <2> DEFINE up == UpOf(rootDirCluster, K[y].in)
             ch == C[c]
  <2>2. Types /\ ChainsOk(Areas, fat, C) /\ c \in DOMAIN C /\ EndOk(slots, C[c])
    BY DEF Picture, HeadsOk, DirsOk
  <2>3. \A e : e \in Listed(c) <=>
             \E i \in 1 .. Len(ch), k \in 1 .. SlotsPerCluster :
                 slots[ch[i]][k].kind = "entry" /\ e = Found(<<ch[i], k>>, slots[ch[i]][k])
    BY <2>2, ListedRead
  <2>4. \A e : e \in LookUp(c, n, b) <=> e \in Listed(c) /\ e.name = n /\ (b => e.dir)
    BY <1>3 DEF LookUp
  <2>5. \A e : e \in LookUp(c, n, FALSE) <=> e \in Listed(c) /\ e.name = n
    BY <1>3 DEF LookUp
  <2>6. ASSUME NEW e \in Listed(c), e.name = n
        PROVE  e.dir /\ e.cluster = IF n = "." THEN c ELSE up
    <3>1. PICK i \in 1 .. Len(ch), k \in 1 .. SlotsPerCluster :
                 slots[ch[i]][k].kind = "entry" /\ e = Found(<<ch[i], k>>, slots[ch[i]][k])
      BY <2>3
    <3>2. e.name = slots[ch[i]][k].name /\ e.dir = slots[ch[i]][k].dir /\ e.cluster = slots[ch[i]][k].cluster
      BY <3>1 DEF Found
    <3>3. slots[ch[i]][k].kind = "entry" /\ slots[ch[i]][k].name = n
      BY <3>1, <3>2, <2>6
    <3>4. /\ n = "." => slots[ch[i]][k].dir /\ slots[ch[i]][k].cluster = c
          /\ n = ".." => slots[ch[i]][k].dir /\ slots[ch[i]][k].cluster = up
      BY <3>3, <2>1 DEF DotsOk
    <3>5. CASE n = "."
      BY <3>2, <3>4, <3>5
    <3>6. CASE n = ".."
      BY <3>2, <3>4, <3>6, <1>0
    <3> QED BY <3>5, <3>6, <1>0
  <2>7. \E e \in Listed(c) : e.name = n
    <3>1. PICK i \in 1 .. Len(ch) : \E k \in 1 .. SlotsPerCluster :
                 slots[ch[i]][k].kind = "entry" /\ slots[ch[i]][k].name = n
      BY <2>1, <1>0 DEF DotsOk
    <3>2. PICK k \in 1 .. SlotsPerCluster : slots[ch[i]][k].kind = "entry" /\ slots[ch[i]][k].name = n
      BY <3>1
    <3>3. Found(<<ch[i], k>>, slots[ch[i]][k]) \in Listed(c)
      BY <3>2, <2>3
    <3>4. Found(<<ch[i], k>>, slots[ch[i]][k]).name = n
      BY <3>2 DEF Found
    <3> QED BY <3>3, <3>4
  <2>8. StepInTree(c, n) = {<<Place(IF n = "." THEN c ELSE up), 0>>}
    <3>1. Place(c) = c /\ Place(up) = K[y].in
      BY <1>1, <2>1
    <3>2. {<<a, 0>> : a \in ParentOf(c)} = {<<K[y].in, 0>>}
      BY <2>1
    <3> QED BY <1>0, <3>1, <3>2 DEF StepInTree
  <2>9. up = CLUSTER_ROOT \/ up \in D
    BY <2>1 DEF UpOf
  <2>10. Place(c) \in D /\ Place(up) \in D
    BY <1>1, <2>1
  <2> HIDE DEF up, ch
  <2>11. \A e \in LookUp(c, n, b) : e \in LookUp(c, n, FALSE) /\ e.dir /\ e.cluster = IF n = "." THEN c ELSE up
    BY <2>4, <2>5, <2>6
  <2>12. LookUp(c, n, b) = LookUp(c, n, FALSE)
    BY <2>4, <2>5, <2>6
  <2>13. \A e \in LookUp(c, n, b) : ~NotDot(e)
    BY <2>4, <1>0 DEF NotDot
  <2>14. LookUp(c, n, b) # {}
    BY <2>4, <2>6, <2>7
  <2> QED BY <2>8, <2>9, <2>10, <2>11, <2>12, <2>13, <2>14
<1> QED BY <1>2, <1>3

(* What a name finds in directory c: the kid of that name.                 *)
FindsKids(K, c, n) ==
    /\ \A e : e \in LookUp(c, n, FALSE) <=> \E x \in DOMAIN K : K[x].in = c /\ K[x].name = n /\ e = KidAt(x)
    /\ \A e : e \in LookUp(c, n, TRUE) <=>
           \E x \in DOMAIN K : K[x].in = c /\ K[x].name = n /\ K[x].dir /\ e = KidAt(x)
    /\ StepInTree(c, n) = {View(e) : e \in LookUp(c, n, FALSE)}

(* A name leads to the kid of that name.                                   *)
LEMMA NameLookUp ==
    ASSUME NEW D, NEW C, NEW K, NEW dep, Picture(D, C, K, dep), NEW c \in D, NEW n \in Names
    PROVE  FindsKids(K, c, n)
<1>0. n \notin {".", ".."}
  BY TreeConstants
<1>1. \A e : e \in Kids(c) <=> \E x \in DOMAIN K : K[x].in = c /\ e = KidAt(x)
  BY KidsRead
<1>2. \A x \in DOMAIN K : KidAt(x).dir = K[x].dir /\ KidAt(x).name = K[x].name /\ KidAt(x).at = x
                          /\ (K[x].dir => KidAt(x).cluster = K[x].node /\ K[x].node \in D)
  BY KidFields
<1>3. \A bb \in BOOLEAN : \A e : e \in LookUp(c, n, bb) <=> e \in Kids(c) /\ e.name = n /\ (bb => e.dir)
  <2>1. \A bb \in BOOLEAN : LookUp(c, n, bb) = {e \in Listed(c) : e.name = n /\ (bb => e.dir)}
    BY <1>0 DEF LookUp
  <2> QED BY <1>0, <2>1 DEF Kids
<1>4. StepInTree(c, n) = {View(e) : e \in LookUp(c, n, FALSE)}
  <2>1. StepInTree(c, n) = {IF e.dir THEN <<e.cluster, 0>> ELSE e.at : e \in {k \in Kids(c) : k.name = n}}
    BY <1>0 DEF StepInTree
  <2>2. {k \in Kids(c) : k.name = n} = LookUp(c, n, FALSE)
    BY <1>3
  <2>3. ASSUME NEW e \in LookUp(c, n, FALSE) PROVE View(e) = IF e.dir THEN <<e.cluster, 0>> ELSE e.at
    <3>1. PICK x \in DOMAIN K : K[x].in = c /\ e = KidAt(x)
      BY <1>1, <1>3
    <3>2. e.dir => Place(e.cluster) = e.cluster
      BY <3>1, <1>2, PlaceOf
    <3> QED BY <3>2 DEF View
  <2> QED BY <2>1, <2>2, <2>3
<1>5. \A e : e \in LookUp(c, n, FALSE) <=> \E x \in DOMAIN K : K[x].in = c /\ K[x].name = n /\ e = KidAt(x)
  <2>1. \A e : e \in LookUp(c, n, FALSE) <=> e \in Kids(c) /\ e.name = n
    BY <1>3
  <2>2. \A x \in DOMAIN K : KidAt(x).name = K[x].name
    BY <1>2
  <2>3. ASSUME NEW e, e \in LookUp(c, n, FALSE)
        PROVE  \E x \in DOMAIN K : K[x].in = c /\ K[x].name = n /\ e = KidAt(x)
    BY <2>1, <2>2, <2>3, <1>1
  <2>4. ASSUME NEW x \in DOMAIN K, K[x].in = c, K[x].name = n PROVE KidAt(x) \in LookUp(c, n, FALSE)
    BY <2>1, <2>2, <2>4, <1>1
  <2> QED BY <2>3, <2>4
<1>6. ASSUME NEW e
      PROVE  e \in LookUp(c, n, TRUE) <=>
                \E x \in DOMAIN K : K[x].in = c /\ K[x].name = n /\ K[x].dir /\ e = KidAt(x)
  <2>1. e \in LookUp(c, n, TRUE) <=> e \in Kids(c) /\ e.name = n /\ e.dir
    BY <1>3
  <2>2. ASSUME e \in LookUp(c, n, TRUE)
        PROVE  \E x \in DOMAIN K : K[x].in = c /\ K[x].name = n /\ K[x].dir /\ e = KidAt(x)
    <3>1. PICK x \in DOMAIN K : K[x].in = c /\ e = KidAt(x)
      BY <1>1, <2>1, <2>2
    <3> QED BY <3>1, <1>2, <2>1, <2>2
  <2>3. ASSUME NEW x \in DOMAIN K, K[x].in = c, K[x].name = n, K[x].dir, e = KidAt(x)
        PROVE  e \in LookUp(c, n, TRUE)
    BY <1>1, <1>2, <2>1, <2>3
  <2> QED BY <2>2, <2>3
<1> QED BY <1>4, <1>5, <1>6 DEF FindsKids

(* What one part of a path finds in directory c: what the tree has there,  *)
(* one thing at most, and directories for a part that must be one.         *)
PartFinds(D, K, c, n) ==
    /\ \A y : y \in StepInTree(c, n) <=> \E e \in LookUp(c, n, FALSE) : y = View(e)
    /\ \A e : e \in LookUp(c, n, TRUE) <=> e \in LookUp(c, n, FALSE) /\ e.dir
    /\ \A e, f \in LookUp(c, n, FALSE) : View(e) = View(f)
    /\ \A e \in LookUp(c, n, FALSE) :
          /\ IF e.dir THEN Place(e.cluster) \in D ELSE e.at[2] # 0
          /\ (e.dir /\ NotDot(e)) \/ ~e.dir => \E x \in DOMAIN K : K[x].in = c /\ e = KidAt(x)
          /\ e.dir => e.cluster = CLUSTER_ROOT \/ e.cluster \in D
    /\ n \in Dotted => LookUp(c, n, FALSE) # {}

(* One part of a path leads where the tree says, to one thing at most.     *)
LEMMA PartLookUp ==
    ASSUME NEW D, NEW C, NEW K, NEW dep, Picture(D, C, K, dep), NEW c \in D, NEW n \in Names \cup Dotted
    PROVE  PartFinds(D, K, c, n)
<1>1. CASE n \in Dotted
  <2>1. /\ LookUp(c, n, FALSE) # {}
        /\ \A e \in LookUp(c, n, FALSE) : e.dir /\ {<<Place(e.cluster), 0>>} = StepInTree(c, n)
        /\ \A e \in LookUp(c, n, FALSE) : ~NotDot(e) /\ (e.cluster = CLUSTER_ROOT \/ e.cluster \in D)
        /\ \A e \in LookUp(c, n, FALSE) : Place(e.cluster) \in D
    BY <1>1, DotLookUp
  <2>2. LookUp(c, n, TRUE) = LookUp(c, n, FALSE)
    BY <1>1, DotLookUp
  <2>3. \A e \in LookUp(c, n, FALSE) : {View(e)} = StepInTree(c, n)
    BY <2>1 DEF View
  <2>4. {View(e) : e \in LookUp(c, n, FALSE)} = StepInTree(c, n)
    BY <2>1, <2>3
  <2> QED BY <2>1, <2>2, <2>3, <2>4 DEF PartFinds
<1>2. CASE n \in Names
  <2>0. FindsKids(K, c, n)
    BY <1>2, NameLookUp
  <2>1. \A e : e \in LookUp(c, n, FALSE) <=> \E x \in DOMAIN K : K[x].in = c /\ K[x].name = n /\ e = KidAt(x)
    BY <2>0 DEF FindsKids
  <2>2. \A e : e \in LookUp(c, n, TRUE) <=> \E x \in DOMAIN K : K[x].in = c /\ K[x].name = n /\ K[x].dir /\ e = KidAt(x)
    BY <2>0 DEF FindsKids
  <2>11. StepInTree(c, n) = {View(e) : e \in LookUp(c, n, FALSE)}
    BY <2>0 DEF FindsKids
  <2>3. \A x \in DOMAIN K : /\ KidAt(x).dir = K[x].dir /\ KidAt(x).at = x /\ x[2] # 0
                            /\ K[x].dir => KidAt(x).cluster = K[x].node /\ K[x].node \in D
    BY KidFields
  <2>4. \A x, y \in DOMAIN K : K[x].in = K[y].in /\ K[x].name = K[y].name => x = y
    BY DEF Picture, TreeOk
  <2>5. ASSUME NEW e \in LookUp(c, n, FALSE), NEW f \in LookUp(c, n, FALSE) PROVE e = f
    <3>1. PICK x \in DOMAIN K : K[x].in = c /\ K[x].name = n /\ e = KidAt(x)
      BY <2>1
    <3>2. PICK y \in DOMAIN K : K[y].in = c /\ K[y].name = n /\ f = KidAt(y)
      BY <2>1
    <3> QED BY <3>1, <3>2, <2>4
  <2>6. LookUp(c, n, TRUE) = {e \in LookUp(c, n, FALSE) : e.dir}
    <3>1. ASSUME NEW e, e \in LookUp(c, n, TRUE) PROVE e \in LookUp(c, n, FALSE) /\ e.dir
      <4>1. PICK x \in DOMAIN K : K[x].in = c /\ K[x].name = n /\ K[x].dir /\ e = KidAt(x)
        BY <3>1, <2>2
      <4> QED BY <4>1, <2>1, <2>3
    <3>2. ASSUME NEW e, e \in LookUp(c, n, FALSE), e.dir PROVE e \in LookUp(c, n, TRUE)
      <4>1. PICK x \in DOMAIN K : K[x].in = c /\ K[x].name = n /\ e = KidAt(x)
        BY <3>2, <2>1
      <4> QED BY <4>1, <3>2, <2>2, <2>3
    <3> QED BY <3>1, <3>2
  <2>7. n \notin Dotted
    BY <1>2, TreeConstants DEF Dotted
  <2>8. \A a \in D : Place(a) = a
    BY PlaceOf
  <2>9. ASSUME NEW e \in LookUp(c, n, FALSE)
        PROVE  /\ IF e.dir THEN Place(e.cluster) \in D ELSE e.at[2] # 0
               /\ e.dir => e.cluster = CLUSTER_ROOT \/ e.cluster \in D
    <3>1. PICK x \in DOMAIN K : K[x].in = c /\ e = KidAt(x)
      BY <2>1
    <3> QED BY <3>1, <2>3, <2>8
  <2>12. ASSUME NEW e \in LookUp(c, n, FALSE) PROVE \E x \in DOMAIN K : K[x].in = c /\ e = KidAt(x)
    BY <2>1
  <2> QED BY <2>5, <2>6, <2>7, <2>9, <2>11, <2>12 DEF PartFinds
<1> QED BY <1>1, <1>2

(* A path as the calls take one.                                           *)
IsPath(p) == p.abs \in BOOLEAN /\ p.parts \in Seq(Names \cup Dotted)

(* One step of a walk.                                                     *)
LEMMA WalkSteps ==
    ASSUME NEW p, NEW k \in Nat, NEW g, IsWalk(p, k, g)
    PROVE  /\ g[0] = {Begin(p)}
           /\ \A i \in 1 .. k : g[i] = Onward(p, g[i - 1], i)
<1>0. g = [i \in 0 .. k |-> IF i = 0 THEN {Begin(p)} ELSE Onward(p, g[i - 1], i)]
  BY DEF IsWalk
<1>1. PICK F : F = g /\ F = [i \in 0 .. k |-> IF i = 0 THEN {Begin(p)} ELSE Onward(p, g[i - 1], i)]
  BY <1>0, Zenon
<1>2. F[0] = {Begin(p)}
  BY <1>1
<1>3. ASSUME NEW i \in 1 .. k PROVE F[i] = Onward(p, g[i - 1], i)
  <2>1. i \in 0 .. k /\ i # 0
    OBVIOUS
  <2>2. F[i] = IF i = 0 THEN {Begin(p)} ELSE Onward(p, g[i - 1], i)
    BY <1>1, <2>1, Zenon
  <2> QED BY <2>1, <2>2
<1> QED BY <1>1, <1>2, <1>3, Zenon

(* Two walks are the same for k parts.                                     *)
SameWalk(k, f, g) == \A i \in 0 .. k : f[i] = g[i]

(* A shorter walk is the beginning of a longer one.                        *)
LEMMA WalksAgree ==
    ASSUME NEW p, NEW k \in Nat, NEW l \in Nat, k <= l, NEW f, NEW g, IsWalk(p, k, f), IsWalk(p, l, g)
    PROVE  SameWalk(k, f, g)
<1> DEFINE T == {i \in 0 .. k : f[i] # g[i]}
<1>1. f[0] = g[0] /\ (\A i \in 1 .. k : f[i] = Onward(p, f[i - 1], i)) /\ (\A i \in 1 .. l : g[i] = Onward(p, g[i - 1], i))
  BY WalkSteps
<1>2. T = {}
  <2> SUFFICES ASSUME T # {} PROVE FALSE
    OBVIOUS
  <2>1. T \in SUBSET Nat
    OBVIOUS
  <2>2. PICK i \in T : \A j \in T : i <= j
    BY <2>1, Least
  <2>3. i \in 1 .. k /\ i \in 1 .. l /\ i - 1 \in 0 .. k
    BY <1>1
  <2>4. f[i - 1] = g[i - 1]
    BY <2>2, <2>3
  <2> QED BY <1>1, <2>2, <2>3, <2>4
<1> QED BY <1>2 DEF SameWalk

(* There is one of them at most.                                           *)
Single(X) == \A a, b \in X : a = b

(* What the tree has at part i of path p, for the directories in X: it is  *)
(* where the walk goes on to.                                              *)
LeadsOn(D, p, X, i) ==
    /\ Onward(p, X, i) \subseteq D
    /\ Single(Onward(p, X, i))
    /\ \A a : a \in Onward(p, X, i) <=> \E c \in X : \E y \in StepInTree(c, p.parts[i]) : y[2] = 0 /\ y[1] = a

(* The directories that part i leads to from those in X, one at most, are  *)
(* those that the tree has there.                                          *)
LEMMA OnwardRead ==
    ASSUME NEW D, NEW C, NEW K, NEW dep, Picture(D, C, K, dep), NEW p, IsPath(p), NEW i \in 1 .. Len(p.parts),
           NEW X \in SUBSET D, Single(X)
    PROVE  LeadsOn(D, p, X, i)
<1> DEFINE n == p.parts[i]
<1>0. n \in Names \cup Dotted
  BY DEF IsPath
<1> HIDE DEF n
<1>1. \A c \in X : PartFinds(D, K, c, n)
  BY <1>0, PartLookUp
<1>2. \A e : StepInto(e) = Place(e.cluster)
  BY PlaceOf
<1>3. \A a : a \in Onward(p, X, i) <=> \E c \in X : \E e \in LookUp(c, n, TRUE) : a = StepInto(e)
  <2> DEFINE M(c) == {StepInto(e) : e \in LookUp(c, n, TRUE)}
  <2>1. Onward(p, X, i) = UNION {M(c) : c \in X}
    BY Zenon DEF Onward, n
  <2>2. \A c : \A a : a \in M(c) <=> \E e \in LookUp(c, n, TRUE) : a = StepInto(e)
    OBVIOUS
  <2> HIDE DEF M
  <2>3. \A a : a \in Onward(p, X, i) <=> \E c \in X : a \in M(c)
    BY <2>1
  <2>4. ASSUME NEW a, NEW c \in X, NEW e \in LookUp(c, n, TRUE), a = StepInto(e) PROVE a \in Onward(p, X, i)
    <3>1. a \in M(c)
      BY <2>2, <2>4
    <3> QED BY <3>1, <2>3
  <2>5. ASSUME NEW a \in Onward(p, X, i) PROVE \E c \in X : \E e \in LookUp(c, n, TRUE) : a = StepInto(e)
    <3>1. PICK c \in X : a \in M(c)
      BY <2>3
    <3>2. \E e \in LookUp(c, n, TRUE) : a = StepInto(e)
      BY <2>2, <3>1
    <3> QED BY <3>2
  <2> QED BY <2>4, <2>5
<1>4. ASSUME NEW a \in Onward(p, X, i)
      PROVE  \E c \in X : \E e \in LookUp(c, n, FALSE) : e.dir /\ a = Place(e.cluster) /\ a \in D
  <2>1. PICK c \in X : \E e \in LookUp(c, n, TRUE) : a = StepInto(e)
    BY <1>3
  <2>2. PICK e \in LookUp(c, n, TRUE) : a = StepInto(e)
    BY <2>1
  <2>3. e \in LookUp(c, n, FALSE) /\ e.dir /\ Place(e.cluster) \in D
    BY <1>1 DEF PartFinds
  <2> QED BY <2>2, <2>3, <1>2
<1>5. ASSUME NEW a \in Onward(p, X, i), NEW b \in Onward(p, X, i) PROVE a = b
  <2>1. PICK c \in X : \E e \in LookUp(c, n, FALSE) : e.dir /\ a = Place(e.cluster)
    BY <1>4
  <2>2. PICK e \in LookUp(c, n, FALSE) : e.dir /\ a = Place(e.cluster)
    BY <2>1
  <2>3. PICK d \in X : \E f \in LookUp(d, n, FALSE) : f.dir /\ b = Place(f.cluster)
    BY <1>4
  <2>4. PICK f \in LookUp(d, n, FALSE) : f.dir /\ b = Place(f.cluster)
    BY <2>3
  <2>5. c = d
    BY DEF Single
  <2>6. View(e) = View(f)
    BY <2>5, <1>1 DEF PartFinds
  <2> QED BY <2>2, <2>4, <2>6 DEF View
<1>6. ASSUME NEW a \in Onward(p, X, i)
      PROVE  \E c \in X : \E y \in StepInTree(c, n) : y[2] = 0 /\ y[1] = a
  <2>1. PICK c \in X : \E e \in LookUp(c, n, FALSE) : e.dir /\ a = Place(e.cluster)
    BY <1>4
  <2>2. PICK e \in LookUp(c, n, FALSE) : e.dir /\ a = Place(e.cluster)
    BY <2>1
  <2>3. View(e) \in StepInTree(c, n)
    BY <1>1 DEF PartFinds
  <2>4. View(e)[2] = 0 /\ View(e)[1] = a
    BY <2>2 DEF View
  <2> QED BY <2>3, <2>4
<1>7. ASSUME NEW a, NEW c \in X, NEW y \in StepInTree(c, n), y[2] = 0, y[1] = a
      PROVE  a \in Onward(p, X, i)
  <2>1. PICK e \in LookUp(c, n, FALSE) : y = View(e)
    <3>1. \A z : z \in StepInTree(c, n) <=> \E e \in LookUp(c, n, FALSE) : z = View(e)
      BY <1>1 DEF PartFinds
    <3> QED BY <3>1, <1>7, Zenon
  <2>2. e.dir
    BY <2>1, <1>1, <1>7 DEF View, PartFinds
  <2>3. a = StepInto(e)
    BY <2>1, <2>2, <1>2, <1>7 DEF View
  <2>4. e \in LookUp(c, n, TRUE)
    BY <2>1, <2>2, <1>1 DEF PartFinds
  <2> QED BY <2>3, <2>4, <1>3
<1>8. Onward(p, X, i) \subseteq D
  BY <1>4
<1> QED BY <1>5, <1>6, <1>7, <1>8 DEF n, LeadsOn, Single

(* A walk stays in the tree and has one directory at most at a time.       *)
LEMMA WalkRead ==
    ASSUME NEW D, NEW C, NEW K, NEW dep, Picture(D, C, K, dep), NEW p, IsPath(p),
           NEW k \in 0 .. Len(p.parts), NEW g, IsWalk(p, k, g)
    PROVE  \A i \in 0 .. k : g[i] \subseteq D /\ Single(g[i])
<1> DEFINE Good(i) == g[i] \subseteq D /\ Single(g[i])
           T == {i \in 0 .. k : ~Good(i)}
<1>0. Len(p.parts) \in Nat /\ k \in Nat
  BY DEF IsPath
<1>1. g[0] = {Begin(p)} /\ \A i \in 1 .. k : g[i] = Onward(p, g[i - 1], i)
  BY <1>0, WalkSteps
<1>2. Begin(p) \in D
  BY DEF Begin, Picture, TreeOk
<1>3. T = {}
  <2> SUFFICES ASSUME T # {} PROVE FALSE
    OBVIOUS
  <2>1. T \in SUBSET Nat
    BY <1>0
  <2>2. PICK i \in T : \A j \in T : i <= j
    BY <2>1, Least
  <2>3. Good(0)
    BY <1>1, <1>2 DEF Single
  <2>4. i \in 1 .. k /\ i \in 1 .. Len(p.parts) /\ i - 1 \in 0 .. k
    BY <2>2, <2>3, <1>0
  <2>5. Good(i - 1)
    BY <2>2, <2>4
  <2>6. g[i] = Onward(p, g[i - 1], i)
    BY <1>1, <2>4
  <2>7. LeadsOn(D, p, g[i - 1], i)
    BY <2>4, <2>5, OnwardRead
  <2>8. Good(i)
    BY <2>6, <2>7 DEF LeadsOn
  <2> QED BY <2>2, <2>8
<1> QED BY <1>3

(* What part i of path p means in the tree from the places in X.           *)
OnwardInTree(p, X, i) == UNION {StepInTree(x[1], p.parts[i]) : x \in {y \in X : y[2] = 0}}

(* The walk that MeansInTree describes, step by step.                      *)
LEMMA MeansIs ==
    ASSUME NEW p, IsPath(p)
    PROVE  \E m : /\ m[0] = {<<Begin(p), 0>>}
                  /\ \A i \in 1 .. Len(p.parts) : m[i] = OnwardInTree(p, m[i - 1], i)
                  /\ MeansInTree(p) = m[Len(p.parts)]
<1> DEFINE k == Len(p.parts)
           Body(g, i) == IF i = 0 THEN {<<IF p.abs THEN rootDirCluster ELSE cwdCluster, 0>>}
                         ELSE UNION {StepInTree(x[1], p.parts[i]) : x \in {y \in g[i - 1] : y[2] = 0}}
           Exists(n) == \E g : g = [i \in 0 .. n |-> Body(g, i)]
           T == {n \in 0 .. k : ~Exists(n)}
           reach[i \in 0 .. Len(p.parts)] ==
             IF i = 0 THEN {<<IF p.abs THEN rootDirCluster ELSE cwdCluster, 0>>}
             ELSE UNION {StepInTree(x[1], p.parts[i]) : x \in {y \in reach[i - 1] : y[2] = 0}}
<1>0. k \in Nat
  BY DEF IsPath
<1>1. Exists(0)
  <2> DEFINE g == [n \in 0 .. 0 |-> {<<IF p.abs THEN rootDirCluster ELSE cwdCluster, 0>>}]
  <2>1. \A n \in 0 .. 0 : Body(g, n) = {<<IF p.abs THEN rootDirCluster ELSE cwdCluster, 0>>}
    OBVIOUS
  <2>2. g = [n \in 0 .. 0 |-> Body(g, n)]
    <3> HIDE DEF Body
    <3> QED BY <2>1
  <2> QED BY <2>2
<1>2. ASSUME NEW n \in 1 .. k, Exists(n - 1) PROVE Exists(n)
  <2>1. PICK g : g = [i \in 0 .. n - 1 |-> Body(g, i)]
    BY <1>2
  <2>9. PICK G : G = g /\ G = [i \in 0 .. n - 1 |-> Body(g, i)]
    BY <2>1, Zenon
  <2> DEFINE g1 == [i \in 0 .. n |-> Body(g, i)]
  <2>2. ASSUME NEW i \in 0 .. n PROVE Body(g, i) = Body(g1, i)
    <3>1. CASE i = 0
      BY <3>1
    <3>2. CASE i # 0
      <4> HIDE DEF k
      <4>1. i - 1 \in 0 .. n - 1 /\ i - 1 \in 0 .. n
        BY <3>2, <1>0
      <4>2. g[i - 1] = Body(g, i - 1)
        <5> HIDE DEF Body
        <5>1. G[i - 1] = Body(g, i - 1)
          BY <2>9, <4>1
        <5> QED BY <5>1, <2>9, Zenon
      <4>3. g1[i - 1] = Body(g, i - 1)
        <5> HIDE DEF Body
        <5> QED BY <4>1
      <4>4. g1[i - 1] = g[i - 1]
        BY <4>2, <4>3, Zenon
      <4> HIDE DEF g1
      <4> QED BY <4>4, Zenon
    <3> QED BY <3>1, <3>2
  <2>3. g1 = [i \in 0 .. n |-> Body(g1, i)]
    <3> HIDE DEF Body
    <3> QED BY <2>2
  <2> QED BY <2>3
<1> HIDE DEF Exists
<1>3. T = {}
  <2> SUFFICES ASSUME T # {} PROVE FALSE
    OBVIOUS
  <2> HIDE DEF k
  <2>1. T \in SUBSET Nat
    BY <1>0
  <2>2. PICK n \in T : \A j \in T : n <= j
    BY <2>1, Least
  <2>3. n # 0 /\ n \in 1 .. k
    BY <1>1, <1>0
  <2>4. n - 1 \in 0 .. k /\ n - 1 \notin T
    BY <2>2, <2>3, <1>0
  <2> QED BY <2>3, <2>4, <1>2
<1>4. Exists(k)
  <2> HIDE DEF k
  <2> QED BY <1>3, <1>0
<1>5. reach = [i \in 0 .. k |-> Body(reach, i)]
  BY <1>4, Zenon DEF Exists
<1>6. reach = [i \in 0 .. Len(p.parts) |-> IF i = 0 THEN {<<Begin(p), 0>>} ELSE OnwardInTree(p, reach[i - 1], i)]
  BY <1>5, Zenon DEF OnwardInTree, Begin
<1>7. MeansInTree(p) = reach[Len(p.parts)]
  BY Zenon DEF MeansInTree
<1> HIDE DEF reach
<1>8. PICK F : F = reach /\ F = [i \in 0 .. Len(p.parts) |-> IF i = 0 THEN {<<Begin(p), 0>>} ELSE OnwardInTree(p, reach[i - 1], i)]
  BY <1>6, Zenon
<1>9. F[0] = {<<Begin(p), 0>>}
  BY <1>8, <1>0
<1>10. ASSUME NEW i \in 1 .. Len(p.parts) PROVE F[i] = OnwardInTree(p, reach[i - 1], i)
  <2>1. i \in 0 .. Len(p.parts) /\ i # 0
    BY <1>0
  <2>2. F[i] = IF i = 0 THEN {<<Begin(p), 0>>} ELSE OnwardInTree(p, reach[i - 1], i)
    BY <1>8, <2>1, Zenon
  <2> QED BY <2>1, <2>2
<1>11. /\ F[0] = {<<Begin(p), 0>>}
       /\ \A i \in 1 .. Len(p.parts) : F[i] = OnwardInTree(p, F[i - 1], i)
       /\ MeansInTree(p) = F[Len(p.parts)]
  BY <1>7, <1>8, <1>9, <1>10, Zenon
<1> QED BY <1>11

(* The walk along the entries and the walk in the tree stay together.      *)
LEMMA WalksTogether ==
    ASSUME NEW D, NEW C, NEW K, NEW dep, Picture(D, C, K, dep), NEW p, IsPath(p),
           NEW k \in 0 .. Len(p.parts), NEW g, IsWalk(p, k, g),
           NEW m, m[0] = {<<Begin(p), 0>>}, \A i \in 1 .. Len(p.parts) : m[i] = OnwardInTree(p, m[i - 1], i)
    PROVE  \A i \in 0 .. k : \A a : a \in g[i] <=> \E y \in m[i] : y[2] = 0 /\ y[1] = a
<1> DEFINE Same(i) == \A a : a \in g[i] <=> \E y \in m[i] : y[2] = 0 /\ y[1] = a
           T == {i \in 0 .. k : ~Same(i)}
<1>0. Len(p.parts) \in Nat /\ k \in Nat
  BY DEF IsPath
<1>1. g[0] = {Begin(p)} /\ \A i \in 1 .. k : g[i] = Onward(p, g[i - 1], i)
  BY <1>0, WalkSteps
<1>2. \A i \in 0 .. k : g[i] \subseteq D /\ Single(g[i])
  BY WalkRead
<1>3. T = {}
  <2> SUFFICES ASSUME T # {} PROVE FALSE
    OBVIOUS
  <2>1. T \in SUBSET Nat
    BY <1>0
  <2>2. PICK i \in T : \A j \in T : i <= j
    BY <2>1, Least
  <2>3. Same(0)
    <3>1. <<Begin(p), 0>>[2] = 0 /\ <<Begin(p), 0>>[1] = Begin(p)
      OBVIOUS
    <3> QED BY <1>1, <3>1
  <2>4. i \in 1 .. k /\ i \in 1 .. Len(p.parts) /\ i - 1 \in 0 .. k
    <3> HIDE DEF Same
    <3> QED BY <2>2, <2>3, <1>0
  <2>5. Same(i - 1)
    BY <2>2, <2>4
  <2> DEFINE X == g[i - 1]
             n == p.parts[i]
  <2>6. X \in SUBSET D /\ Single(X)
    BY <2>4, <1>2
  <2>7. \A a : a \in Onward(p, X, i) <=> \E c \in X : \E y \in StepInTree(c, n) : y[2] = 0 /\ y[1] = a
    <3> HIDE DEF X
    <3>1. LeadsOn(D, p, X, i)
      BY <2>4, <2>6, OnwardRead
    <3> QED BY <3>1 DEF LeadsOn, n
  <2>8. g[i] = Onward(p, X, i) /\ m[i] = OnwardInTree(p, m[i - 1], i)
    BY <1>1, <2>4
  <2>9. \A y : y \in m[i] <=> \E x \in m[i - 1] : x[2] = 0 /\ y \in StepInTree(x[1], n)
    BY <2>8 DEF OnwardInTree
  <2>10. \A y : y \in m[i] <=> \E c \in X : y \in StepInTree(c, n)
    BY <2>5, <2>9
  <2> HIDE DEF X, n
  <2>11. Same(i)
    BY <2>7, <2>8, <2>10
  <2> QED BY <2>2, <2>11
<1> QED BY <1>3

(* The entry of the root in place of a ".." shows the same in the tree.    *)
LEMMA AsRootRead ==
    ASSUME NEW D, NEW C, NEW K, NEW dep, Picture(D, C, K, dep), NEW e
    PROVE  /\ e.dir => AsRootEntry(e).dir /\ AsRootEntry(e).cluster = Place(e.cluster)
           /\ ~e.dir => AsRootEntry(e) = e
           /\ NotDot(AsRootEntry(e)) => AsRootEntry(e) = e
           /\ e.dir => Place(Place(e.cluster)) = Place(e.cluster)
<1>1. RootEntry.dir /\ RootEntry.cluster = rootDirCluster /\ RootEntry.name = "."
  BY DEF RootEntry, Found, Entry
<1>2. rootDirCluster \in {CLUSTER_ROOT, RootCluster}
  BY DEF Picture, Types
<1>3. \A c : Place(c) = IF c = CLUSTER_ROOT THEN rootDirCluster ELSE c
  BY DEF Place
<1> QED BY <1>1, <1>2, <1>3 DEF AsRootEntry, NotDot

(* A path leads where the tree says.                                       *)
LEMMA WalkAgreesOn ==
    ASSUME NEW D, NEW C, NEW K, NEW dep, Picture(D, C, K, dep), NEW p, IsPath(p), p.parts # <<>>
    PROVE  AgreesOn(p)
<1> DEFINE l == Len(p.parts)
           n == p.parts[l]
<1>0. l \in Nat /\ l # 0 /\ l \in 1 .. l /\ l - 1 \in 0 .. l /\ n \in Names \cup Dotted
  BY DEF IsPath
<1>1. PICK g : /\ IsWalk(p, l, g)
               /\ EntryFromPath(p, l) =
                    IF l = 0 THEN {RootEntry}
                    ELSE {AsRootEntry(e) : e \in UNION {LookUp(c, p.parts[l], l < Len(p.parts)) : c \in g[l - 1]}}
  BY <1>0, WalkIs
<1>2. PICK m : /\ m[0] = {<<Begin(p), 0>>}
               /\ \A i \in 1 .. Len(p.parts) : m[i] = OnwardInTree(p, m[i - 1], i)
               /\ MeansInTree(p) = m[Len(p.parts)]
  BY MeansIs
<1>3. (l < Len(p.parts)) = FALSE
  BY <1>0
<1> HIDE DEF l
<1>4. Target(p) = {AsRootEntry(e) : e \in UNION {LookUp(c, n, FALSE) : c \in g[l - 1]}}
  BY <1>0, <1>1, <1>3 DEF Target, l
<1>5. \A i \in 0 .. l : g[i] \subseteq D
  BY <1>0, <1>1, WalkRead DEF l
<1>6. \A i \in 0 .. l : \A a : a \in g[i] <=> \E y \in m[i] : y[2] = 0 /\ y[1] = a
  BY <1>0, <1>1, <1>2, WalksTogether DEF l
<1> DEFINE X == g[l - 1]
<1>7. X \subseteq D /\ \A a : a \in X <=> \E y \in m[l - 1] : y[2] = 0 /\ y[1] = a
  BY <1>0, <1>5, <1>6
<1>8. MeansInTree(p) = OnwardInTree(p, m[l - 1], l)
  BY <1>0, <1>2 DEF l
<1>9. \A y : y \in MeansInTree(p) <=> \E c \in X : y \in StepInTree(c, n)
  <2>1. \A y : y \in MeansInTree(p) <=> \E x \in m[l - 1] : x[2] = 0 /\ y \in StepInTree(x[1], n)
    BY <1>8 DEF OnwardInTree
  <2> QED BY <2>1, <1>7
<1> HIDE DEF X
<1>10. \A c \in X : PartFinds(D, K, c, n)
  BY <1>0, <1>7, PartLookUp
<1>11. \A e : /\ e.dir => AsRootEntry(e).dir /\ AsRootEntry(e).cluster = Place(e.cluster)
              /\ ~e.dir => AsRootEntry(e) = e
              /\ e.dir => Place(Place(e.cluster)) = Place(e.cluster)
  BY AsRootRead
<1> DEFINE Show(e) == IF e.dir THEN <<Place(e.cluster), 0>> ELSE e.at
<1>12. \A e : Show(AsRootEntry(e)) = View(e)
  BY <1>11 DEF View
<1> HIDE DEF Show
<1>13. \A t : t \in Target(p) <=> \E c \in X : \E e \in LookUp(c, n, FALSE) : t = AsRootEntry(e)
  BY <1>4 DEF X
<1>14. ASSUME NEW t \in Target(p) PROVE Show(t) \in MeansInTree(p)
  <2>1. PICK c \in X : \E e \in LookUp(c, n, FALSE) : t = AsRootEntry(e)
    BY <1>13
  <2>2. PICK e \in LookUp(c, n, FALSE) : t = AsRootEntry(e)
    BY <2>1
  <2>3. View(e) \in StepInTree(c, n)
    BY <1>10 DEF PartFinds
  <2> QED BY <2>2, <2>3, <1>9, <1>12
<1>15. ASSUME NEW y \in MeansInTree(p) PROVE \E t \in Target(p) : y = Show(t)
  <2>1. PICK c \in X : y \in StepInTree(c, n)
    BY <1>9
  <2>2. PICK e \in LookUp(c, n, FALSE) : y = View(e)
    BY <2>1, <1>10 DEF PartFinds
  <2>3. AsRootEntry(e) \in Target(p)
    BY <1>13
  <2> QED BY <2>2, <2>3, <1>12
<1>16. {Show(t) : t \in Target(p)} = MeansInTree(p)
  BY <1>14, <1>15
<1> QED BY <1>16, Zenon DEF AgreesOn, Show

(* What the calls need to know of a path: the entries that it means, and   *)
(* the directory and the name that a new entry of it gets.                 *)
PathMeans(D, K, p) ==
    /\ \A e \in Target(p) : e.dir => e.cluster \in D
    /\ \A e \in Target(p) : ~e.dir \/ NotDot(e) =>
          \E x \in DOMAIN K : e = KidAt(x) /\ \A c \in ParentCluster(p) : K[x].in = c
    /\ Target(p) = {} =>
          \A c \in ParentCluster(p) :
             /\ c \in D /\ NewName(p) \in Names
             /\ \A x \in DOMAIN K : ~(K[x].in = c /\ K[x].name = NewName(p))

(* The directory that a path's entry is in is where the walk is before its *)
(* last part.                                                              *)
LEMMA ParentIsThere ==
    ASSUME NEW D, NEW C, NEW K, NEW dep, Picture(D, C, K, dep), NEW p, IsPath(p), p.parts # <<>>,
           NEW g, IsWalk(p, Len(p.parts), g)
    PROVE  ParentCluster(p) \subseteq g[Len(p.parts) - 1]
<1> DEFINE l == Len(p.parts)
           k == l - 1
<1>0. l \in Nat /\ l # 0 /\ k \in Nat /\ k <= l /\ k \in 0 .. l /\ k < Len(p.parts) /\ Len(p.parts) \in Nat
  BY DEF IsPath
<1>1. PICK f : /\ IsWalk(p, k, f)
               /\ EntryFromPath(p, k) =
                    IF k = 0 THEN {RootEntry}
                    ELSE {AsRootEntry(e) : e \in UNION {LookUp(c, p.parts[k], k < Len(p.parts)) : c \in f[k - 1]}}
  BY <1>0, WalkIs
<1>2. IsWalk(p, l, g)
  OBVIOUS
<1> HIDE DEF k, l
<1>3. \A i \in 0 .. k : f[i] = g[i]
  <2>1. k \in Nat /\ l \in Nat /\ k <= l /\ IsWalk(p, k, f) /\ IsWalk(p, l, g)
    BY <1>0, <1>1, <1>2
  <2>2. SameWalk(k, f, g)
    BY <2>1, WalksAgree
  <2> QED BY <2>2 DEF SameWalk
<1>4. f[0] = {Begin(p)} /\ \A i \in 1 .. k : f[i] = Onward(p, f[i - 1], i)
  BY <1>0, <1>1, WalkSteps
<1>5. CASE k = 0
  <2>1. g[0] = {Begin(p)}
    BY <1>3, <1>4, <1>0
  <2>2. l = 1
    BY <1>0, <1>5 DEF k
  <2>3. EntryFromPath(p, k) = {RootEntry}
    BY <1>1, <1>5
  <2>4. RootEntry.cluster = rootDirCluster
    BY DEF RootEntry, Found, Entry
  <2>5. ASSUME NEW c \in ParentCluster(p) PROVE c = Begin(p)
    <3>1. CASE p.abs
      <4>1. ParentCluster(p) = {e.cluster : e \in {d \in EntryFromPath(p, k) : d.dir}}
        BY <3>1 DEF ParentCluster, k, l
      <4> QED BY <4>1, <2>3, <2>4, <3>1 DEF Begin
    <3>2. CASE ~p.abs
      BY <2>2, <3>2 DEF ParentCluster, Begin, l
    <3> QED BY <3>1, <3>2
  <2> QED BY <2>1, <2>5, <1>5 DEF k, l
<1>6. CASE k # 0
  <2>1. k \in 1 .. k /\ k \in 1 .. Len(p.parts) /\ k - 1 \in 0 .. k
    BY <1>0, <1>6
  <2>10. l # 1
    BY <1>6 DEF k
  <2> DEFINE X == f[k - 1]
             n == p.parts[k]
  <2>2. ParentCluster(p) = {e.cluster : e \in {d \in EntryFromPath(p, k) : d.dir}}
    BY <2>10 DEF ParentCluster, k, l
  <2>3. (k < Len(p.parts)) = TRUE
    BY <1>0
  <2>4. EntryFromPath(p, k) = {AsRootEntry(e) : e \in UNION {LookUp(c, n, TRUE) : c \in X}}
    BY <1>1, <1>6, <2>3
  <2>5. n \in Names \cup Dotted
    BY <2>1 DEF IsPath
  <2>6. X \subseteq D
    BY <2>1, <1>0, <1>1, WalkRead DEF l
  <2>7. \A c \in X : PartFinds(D, K, c, n)
    <3> HIDE DEF X, n
    <3> QED BY <2>5, <2>6, PartLookUp
  <2>8. ASSUME NEW a \in ParentCluster(p) PROVE a \in Onward(p, X, k)
    <3>1. PICK e \in EntryFromPath(p, k) : e.dir /\ a = e.cluster
      BY <2>2
    <3>2. PICK c \in X : \E h \in LookUp(c, n, TRUE) : e = AsRootEntry(h)
      BY <2>4
    <3>3. PICK h \in LookUp(c, n, TRUE) : e = AsRootEntry(h)
      BY <3>2
    <3>4. h.dir
      BY <2>7 DEF PartFinds
    <3>5. a = Place(h.cluster)
      BY <3>1, <3>3, <3>4, AsRootRead
    <3>6. StepInto(h) = Place(h.cluster)
      BY PlaceOf
    <3>7. a \in {StepInto(b) : b \in LookUp(c, n, TRUE)}
      BY <3>5, <3>6
    <3> QED BY <3>7, Zenon DEF Onward
  <2>9. g[k] = Onward(p, X, k)
    BY <1>3, <1>4, <2>1
  <2> QED BY <2>8, <2>9 DEF k, l
<1> QED BY <1>5, <1>6

(* A path means what the calls need it to mean.                            *)
LEMMA PathRead ==
    ASSUME NEW D, NEW C, NEW K, NEW dep, Picture(D, C, K, dep), NEW p, IsPath(p)
    PROVE  PathMeans(D, K, p)
<1>0. Len(p.parts) \in Nat
  BY DEF IsPath
<1>1. CASE p.parts = <<>>
  <2>1. Len(p.parts) = 0
    BY <1>1
  <2>2. Target(p) = {RootEntry}
    BY <2>1, <1>0, WalkIs DEF Target
  <2>3. RootEntry.dir /\ RootEntry.cluster = rootDirCluster /\ ~NotDot(RootEntry)
    BY DEF RootEntry, Found, Entry, NotDot
  <2>4. rootDirCluster \in D
    BY DEF Picture, TreeOk
  <2> QED BY <2>2, <2>3, <2>4 DEF PathMeans
<1>2. CASE p.parts # <<>>
  <2> DEFINE l == Len(p.parts)
             n == p.parts[l]
  <2>0. l \in Nat /\ l # 0 /\ l \in 1 .. l /\ l - 1 \in 0 .. l /\ n \in Names \cup Dotted
    BY <1>2, <1>0 DEF IsPath
  <2>1. PICK g : /\ IsWalk(p, l, g)
                 /\ EntryFromPath(p, l) =
                    IF l = 0 THEN {RootEntry}
                    ELSE {AsRootEntry(e) : e \in UNION {LookUp(c, p.parts[l], l < Len(p.parts)) : c \in g[l - 1]}}
    BY <2>0, WalkIs
  <2>2. (l < Len(p.parts)) = FALSE
    BY <2>0
  <2> HIDE DEF l
  <2> DEFINE X == g[l - 1]
  <2>3. Target(p) = {AsRootEntry(e) : e \in UNION {LookUp(c, n, FALSE) : c \in X}}
    BY <2>0, <2>1, <2>2 DEF Target, l
  <2>4. X \subseteq D /\ Single(X)
    BY <2>0, <2>1, WalkRead DEF l
  <2>5. ParentCluster(p) \subseteq X
    BY <1>2, <2>1, ParentIsThere DEF l
  <2> HIDE DEF X
  <2>6. \A c \in X : PartFinds(D, K, c, n)
    BY <2>0, <2>4, PartLookUp
  <2>7. \A t : t \in Target(p) <=> \E c \in X : \E e \in LookUp(c, n, FALSE) : t = AsRootEntry(e)
    BY <2>3
  <2>8. \A e : /\ e.dir => AsRootEntry(e).dir /\ AsRootEntry(e).cluster = Place(e.cluster)
               /\ ~e.dir => AsRootEntry(e) = e
               /\ NotDot(AsRootEntry(e)) => AsRootEntry(e) = e
    BY AsRootRead
  <2>9. ASSUME NEW t \in Target(p), t.dir PROVE t.cluster \in D
    <3>1. PICK c \in X : \E e \in LookUp(c, n, FALSE) : t = AsRootEntry(e)
      BY <2>7
    <3>2. PICK e \in LookUp(c, n, FALSE) : t = AsRootEntry(e)
      BY <3>1
    <3>3. e.dir
      BY <3>2, <2>8, <2>9
    <3>4. Place(e.cluster) \in D
      BY <3>3, <2>6 DEF PartFinds
    <3> QED BY <3>2, <3>3, <3>4, <2>8
  <2>10. ASSUME NEW t \in Target(p), ~t.dir \/ NotDot(t)
         PROVE  \E x \in DOMAIN K : t = KidAt(x) /\ \A c \in ParentCluster(p) : K[x].in = c
    <3>1. PICK c \in X : \E e \in LookUp(c, n, FALSE) : t = AsRootEntry(e)
      BY <2>7
    <3>2. PICK e \in LookUp(c, n, FALSE) : t = AsRootEntry(e)
      BY <3>1
    <3>3. t = e
      BY <3>2, <2>8, <2>10
    <3>4. (e.dir /\ NotDot(e)) \/ ~e.dir
      BY <3>3, <2>10
    <3>7. PartFinds(D, K, c, n)
      BY <2>6
    <3>5. PICK x \in DOMAIN K : K[x].in = c /\ e = KidAt(x)
      BY <3>4, <3>7 DEF PartFinds, NotDot
    <3>6. \A b \in ParentCluster(p) : b = c
      BY <2>4, <2>5 DEF Single
    <3> QED BY <3>3, <3>5, <3>6
  <2>11. ASSUME Target(p) = {}, NEW c \in ParentCluster(p)
         PROVE  /\ c \in D /\ NewName(p) \in Names
                /\ \A x \in DOMAIN K : ~(K[x].in = c /\ K[x].name = NewName(p))
    <3>1. c \in X /\ c \in D /\ NewName(p) = n
      BY <2>4, <2>5 DEF NewName, l
    <3>2. LookUp(c, n, FALSE) = {}
      BY <3>1, <2>7, <2>11
    <3>3. n \in Names
      BY <3>1, <3>2, <2>0, <2>6 DEF PartFinds
    <3>4. FindsKids(K, c, n)
      BY <3>1, <3>3, NameLookUp
    <3>5. ASSUME NEW x \in DOMAIN K, K[x].in = c, K[x].name = n PROVE FALSE
      <4>1. KidAt(x) \in LookUp(c, n, FALSE)
        BY <3>4, <3>5 DEF FindsKids
      <4> QED BY <4>1, <3>2
    <3> HIDE DEF n
    <3> QED BY <3>1, <3>3, <3>5
  <2> QED BY <2>9, <2>10, <2>11 DEF PathMeans
<1> QED BY <1>1, <1>2

-----------------------------------------------------------------------------
(* Gaps for a new entry *)

(* The first of the numbers in I, 0 if there is none.                      *)
IsFirst(m, n, I) ==
    \/ m = 0 /\ I = {}
    \/ m \in 1 .. n /\ m \in I /\ \A j \in 1 .. n : j < m => j \notin I

(* What SelectInSeq looks for.                                             *)
LEMMA FirstIn ==
    ASSUME NEW n \in Nat, NEW I \in SUBSET (1 .. n)
    PROVE  IsFirst(IF I # {} THEN Min(I) ELSE 0, n, I)
<1>1. CASE I = {}
  BY <1>1 DEF IsFirst
<1>2. CASE I # {}
  <2>1. \E x \in I : \A y \in I : x <= y
    BY <1>2, Least
  <2>2. Min(I) \in I /\ \A y \in I : Min(I) <= y
    BY <2>1 DEF Min
  <2>3. PICK m : m = Min(I) /\ m \in I /\ \A y \in I : m <= y
    BY <2>2, Zenon
  <2>4. m \in 1 .. n
    BY <2>3
  <2>5. ASSUME NEW j \in 1 .. n, j < m PROVE j \notin I
    BY <2>3, <2>4, <2>5
  <2> QED BY <1>2, <2>3, <2>4, <2>5 DEF IsFirst
<1> QED BY <1>1, <1>2

(* Place i, k comes before j, l in a chain.                                *)
Before(i, k, j, l) == i < j \/ (i = j /\ k < l)

(* The chain of c with the cluster that it has grown by, and the slots     *)
(* after that.                                                             *)
GrownChain(ch, g) == IF g = CLUSTER_FREE THEN ch ELSE Append(ch, g)

(* The slots after that: the new cluster is cleared.                       *)
GrownSlots(s, g) == IF g = CLUSTER_FREE THEN s ELSE [s EXCEPT ![g] = Cleared]

(* y is a gap of the chain ch, and nothing in front of it is its end.      *)
GapAt(s, ch, y, i, k) ==
    /\ y = <<ch[i], k>> /\ IsGap(s[ch[i]][k])
    /\ \A j \in 1 .. Len(ch), l \in 1 .. SlotsPerCluster : Before(j, l, i, k) => s[ch[j]][l] # DIR_ENTRY_LAST

(* There is such a gap at place y.                                         *)
HasGap(s, ch, y) == \E i \in 1 .. Len(ch), k \in 1 .. SlotsPerCluster : GapAt(s, ch, y, i, k)

(* A gap of directory c, perhaps in a free cluster that it grows by, which *)
(* is not a taken one; the root directory of FAT12 and FAT16 does not      *)
(* grow.                                                                   *)
GapOk(s, ch, c, gap, taken) ==
    /\ gap.grow = CLUSTER_FREE \/ (gap.grow \in FreeClusters \ taken /\ c # CLUSTER_ROOT)
    /\ HasGap(GrownSlots(s, gap.grow), GrownChain(ch, gap.grow), gap.at)

(* What findEntryGap finds is a gap with no end in front of it, in the     *)
(* directory or in the cluster that it grows by.                           *)
LEMMA GapRead ==
    ASSUME NEW D, NEW C, NEW K, NEW dep, Picture(D, C, K, dep), NEW c \in D, NEW taken,
           NEW gap \in EntryGap(c, taken)
    PROVE  GapOk(slots, C[c], c, gap, taken)
<1> DEFINE ch == C[c]
           GapsOf(d) == {k \in 1 .. SlotsPerCluster : IsGap(slots[d][k])}
           I == {i \in 1 .. Len(ch) : \E k \in 1 .. SlotsPerCluster : IsGap(slots[ch[i]][k])}
           i == IF I # {} THEN Min(I) ELSE 0
           J == {k \in 1 .. SlotsPerCluster : IsGap(slots[ch[i]][k])}
           k == IF J # {} THEN Min(J) ELSE 0
           at == <<ch[i], k>>
<1>0. SlotsPerCluster \in Nat /\ SlotsPerCluster > 2 /\ CLUSTER_FREE = 0 /\ CLUSTER_ROOT = 0
  BY TreeConstants
<1>1. Types /\ ChainsOk(Areas, fat, C) /\ c \in DOMAIN C
  BY DEF Picture, HeadsOk
<1>2. /\ Chain(c) = ch /\ Place(c) = c /\ ch \in Seq(Areas) /\ Len(ch) \in Nat
  BY <1>1, ChainRead, ChainLinks
<1>3. \A j \in 1 .. Len(ch) : ch[j] \in Areas
  BY <1>2
<1>4. \A d \in Areas : Place(d) = d
  BY <1>1, TreeConstants DEF Place, Areas, Clusters, Types
<1>5. \A d \in Areas : Len(slots[d]) = SlotsPerCluster
  <2> TAKE d \in Areas
  <2>1. slots[d] \in [1 .. SlotsPerCluster -> Slot(Areas)]
    BY <1>1 DEF Types, SlotsOk
  <2>2. slots[d] \in Seq(Slot(Areas))
    BY <2>1, <1>0
  <2>3. DOMAIN slots[d] = 1 .. SlotsPerCluster /\ DOMAIN slots[d] = 1 .. Len(slots[d]) /\ Len(slots[d]) \in Nat
    BY <2>1, <2>2
  <2> QED BY <2>3, <1>0
<1>6. SelectInSeq(Chain(c), LAMBDA d : \E n \in 1 .. SlotsPerCluster : IsGap(slots[Place(d)][n])) = i
  <2>1. {j \in 1 .. Len(ch) : \E n \in 1 .. SlotsPerCluster : IsGap(slots[Place(ch[j])][n])} = I
    BY <1>3, <1>4
  <2> QED BY <2>1, <1>2, Zenon DEF SelectInSeq
<1>7. IsFirst(i, Len(ch), I)
  BY <1>2, FirstIn
<1>8. i \in 1 .. Len(ch) => SelectInSeq(slots[Place(ch[i])], IsGap) = k
  <2> SUFFICES ASSUME i \in 1 .. Len(ch) PROVE SelectInSeq(slots[Place(ch[i])], IsGap) = k
    OBVIOUS
  <2> HIDE DEF i
  <2>1. Place(ch[i]) = ch[i] /\ Len(slots[ch[i]]) = SlotsPerCluster
    BY <1>3, <1>4, <1>5
  <2>2. SelectInSeq(slots[ch[i]], IsGap) = k
    BY <2>1, Zenon DEF SelectInSeq
  <2> QED BY <2>1, <2>2
<1>9. IsFirst(k, SlotsPerCluster, J)
  BY <1>0, FirstIn
<1> DEFINE i0 == SelectInSeq(Chain(c), LAMBDA d : \E n \in 1 .. SlotsPerCluster : IsGap(slots[Place(d)][n]))
           k0 == SelectInSeq(slots[Place(Chain(c)[i0])], IsGap)
           at0 == <<Chain(c)[i0], k0>>
<1>10. EntryGap(c, taken) =
         IF i0 # 0 /\ (SlotAt(at0) = DIR_ENTRY_FREE \/ i0 < Len(Chain(c)) \/ k0 < SlotsPerCluster)
         THEN {[at |-> at0, grow |-> CLUSTER_FREE]}
         ELSE IF Place(c) = CLUSTER_ROOT THEN {}
         ELSE {[at |-> IF i0 # 0 THEN at0 ELSE <<g, 1>>, grow |-> g] : g \in FreeClusters \ taken}
  BY Zenon DEF EntryGap
<1>11. i0 = i
  BY <1>6
<1> HIDE DEF i0
<1>12. i \in 1 .. Len(ch) => k0 = k
  BY <1>2, <1>8, <1>11
<1> HIDE DEF k0, k, i
<1>13. /\ \A j \in 1 .. Len(ch), l \in 1 .. SlotsPerCluster : (i = 0 \/ j < i) => ~IsGap(slots[ch[j]][l])
       /\ i = 0 \/ i \in 1 .. Len(ch)
  BY <1>7 DEF IsFirst
<1>14. i # 0 => /\ k \in 1 .. SlotsPerCluster /\ IsGap(slots[ch[i]][k])
                /\ \A l \in 1 .. SlotsPerCluster : l < k => ~IsGap(slots[ch[i]][l])
  <2>1. i # 0 => J # {}
    BY <1>7 DEF IsFirst
  <2> QED BY <2>1, <1>9 DEF IsFirst
<1>15. \A j \in 1 .. Len(ch), l \in 1 .. SlotsPerCluster :
          slots[ch[j]][l] = DIR_ENTRY_LAST => i # 0 /\ ~Before(j, l, i, k)
  BY <1>13, <1>14 DEF Before, IsGap
<1>16. CASE gap.grow = CLUSTER_FREE
  <2>1. i # 0 /\ gap.at = <<ch[i], k>>
    <3>1. \A g \in FreeClusters : g # CLUSTER_FREE
      BY <1>0, TreeConstants, <1>1 DEF FreeClusters, Clusters, Types
    <3>2. i0 # 0 /\ gap.at = at0
      BY <3>1, <1>10, <1>16
    <3> QED BY <3>2, <1>2, <1>11, <1>12, <1>13
  <2>2. GapAt(slots, ch, gap.at, i, k)
    BY <2>1, <1>14, <1>15 DEF GapAt
  <2>3. HasGap(slots, ch, gap.at)
    BY <2>1, <2>2, <1>13, <1>14 DEF HasGap
  <2> QED BY <2>3, <1>16 DEF GapOk, GrownSlots, GrownChain
<1>17. CASE gap.grow # CLUSTER_FREE
  <2> DEFINE g == gap.grow
             ch1 == Append(ch, g)
             s1 == [slots EXCEPT ![g] = Cleared]
  <2>1. /\ g \in FreeClusters \ taken /\ c # CLUSTER_ROOT
        /\ gap.at = IF i # 0 THEN <<ch[i], k>> ELSE <<g, 1>>
    <3>1. gap.grow = g /\ g # CLUSTER_FREE /\ gap \in EntryGap(c, taken)
      BY <1>17
    <3>2. gap \in {[at |-> IF i0 # 0 THEN at0 ELSE <<x, 1>>, grow |-> x] : x \in FreeClusters \ taken} /\ Place(c) # CLUSTER_ROOT
      BY <1>10, <1>17
    <3>3. g \in FreeClusters \ taken /\ gap.at = IF i0 # 0 THEN at0 ELSE <<g, 1>>
      BY <3>2
    <3> QED BY <3>2, <3>3, <1>2, <1>11, <1>12, <1>13
  <2>2. g \in Clusters /\ fat[g] = CLUSTER_FREE /\ g # CLUSTER_ROOT /\ g \in Areas
    BY <2>1, <1>17, <1>0 DEF FreeClusters, Areas
  <2>3. \A j \in 1 .. Len(ch) : ch[j] # g
    BY <1>1, <2>2, FreeOutside
  <2>4. /\ Len(ch1) = Len(ch) + 1 /\ ch1[Len(ch) + 1] = g
        /\ \A j \in 1 .. Len(ch) : ch1[j] = ch[j]
    BY <1>2, <2>2
  <2>5. /\ \A d \in Areas : d # g => s1[d] = slots[d]
        /\ s1[g] = Cleared
    BY <2>2, <1>1 DEF Types, SlotsOk
  <2>6. \A l \in 1 .. SlotsPerCluster : s1[g][l] = DIR_ENTRY_LAST
    BY <2>5 DEF Cleared
  <2> HIDE DEF s1, ch1, g
  <2>7. \A j \in 1 .. Len(ch) : s1[ch1[j]] = slots[ch[j]]
    BY <2>3, <2>4, <2>5, <1>3
  <2>8. CASE i # 0
    <3>1. i \in 1 .. Len(ch1) /\ ch1[i] = ch[i] /\ i \in 1 .. Len(ch)
      BY <2>4, <2>8, <1>2, <1>13
    <3>2. \A j \in 1 .. Len(ch1), l \in 1 .. SlotsPerCluster : Before(j, l, i, k) => j \in 1 .. Len(ch)
      BY <2>4, <3>1, <1>2 DEF Before
    <3>3. GapAt(s1, ch1, gap.at, i, k)
      BY <2>1, <2>7, <2>8, <3>1, <3>2, <1>14, <1>15 DEF GapAt
    <3>4. HasGap(s1, ch1, gap.at)
      BY <3>1, <3>3, <2>8, <1>14 DEF HasGap
    <3> QED BY <3>4, <2>1, <1>17 DEF GapOk, GrownSlots, GrownChain, ch1, s1, g
  <2>9. CASE i = 0
    <3> DEFINE n == Len(ch) + 1
    <3>1. n \in 1 .. Len(ch1) /\ 1 \in 1 .. SlotsPerCluster /\ gap.at = <<ch1[n], 1>> /\ s1[ch1[n]][1] = DIR_ENTRY_LAST
      BY <2>1, <2>4, <2>6, <2>9, <1>0, <1>2
    <3>2. \A j \in 1 .. Len(ch1), l \in 1 .. SlotsPerCluster : Before(j, l, n, 1) => j \in 1 .. Len(ch)
      BY <2>4, <1>2, <1>0 DEF Before
    <3>3. GapAt(s1, ch1, gap.at, n, 1)
      BY <2>7, <2>9, <3>1, <3>2, <1>15 DEF GapAt, IsGap
    <3>4. HasGap(s1, ch1, gap.at)
      BY <3>1, <3>3 DEF HasGap
    <3> QED BY <3>4, <2>1, <1>17 DEF GapOk, GrownSlots, GrownChain, ch1, s1, g
  <2> QED BY <2>8, <2>9
<1> QED BY <1>16, <1>17
=============================================================================
