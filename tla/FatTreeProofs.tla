--------------------------- MODULE FatTreeProofs ----------------------------
(***************************************************************************)
(* Proofs that every call leaves a volume with a picture, which the        *)
(* theorems on the tree of directories rest on, for every number of        *)
(* clusters, slots, names, handles and paths.                              *)
(*                                                                         *)
(* First what one entry, one kid or one handle more, less or changed does  *)
(* to the parts of the picture, then one lemma per call that it arrives in *)
(* a picture again, and what it has made of the tree; then the rows of     *)
(* FileTree, and the theorems.                                             *)
(***************************************************************************)
EXTENDS FatTreePicture

-----------------------------------------------------------------------------
(* Entries come, go and change *)

(* K with one more kid.                                                    *)
AddK(K, y, k) == [x \in DOMAIN K \cup {y} |-> IF x = y THEN k ELSE K[x]]

(* K without the kid x.                                                    *)
DropK(K, x) == [y \in DOMAIN K \ {x} |-> K[y]]

(* K with a file x that holds v.                                           *)
SetNode(K, x, v) == [y \in DOMAIN K |-> IF y = x THEN [K[y] EXCEPT !.node = v] ELSE K[y]]

(* The chains of the directories D have no cluster in common.              *)
Apart(A, C, D) ==
    /\ \A d \in D : C[d] \in Seq(A)
    /\ \A d, e \in D : \A i \in 1 .. Len(C[d]), j \in 1 .. Len(C[e]) : C[d][i] = C[e][j] => d = e /\ i = j

(* t is s with e in place y.                                               *)
Puts(A, s, t, y, e) ==
    \A b \in A, l \in 1 .. SlotsPerCluster : t[b][l] = IF <<b, l>> = y THEN e ELSE s[b][l]

(* The directories of K are in D.                                          *)
KidDirs(K, D) == \A x \in DOMAIN K : K[x].dir => K[x].node \in D

(* No dot entry.                                                           *)
NoDot(v) == v.kind = "entry" => v.name \notin {".", ".."}

(* The dot entries stay when a place that has none of them changes.        *)
LEMMA DotsStay ==
    ASSUME NEW A, NEW s, NEW t, NEW ch \in Seq(A), NEW d, NEW up, DotsOk(s, ch, d, up),
           NEW y, NEW e, Puts(A, s, t, y, e), NoDot(e),
           \A b \in A, l \in 1 .. SlotsPerCluster : <<b, l>> = y => NoDot(s[b][l])
    PROVE  DotsOk(t, ch, d, up)
<1>1. \A i \in 1 .. Len(ch) : ch[i] \in A
  OBVIOUS
<1>2. \A i \in 1 .. Len(ch), k \in 1 .. SlotsPerCluster :
         t[ch[i]][k] = IF <<ch[i], k>> = y THEN e ELSE s[ch[i]][k]
  BY <1>1 DEF Puts
<1>3. ASSUME NEW n \in {".", ".."}
      PROVE  \E i \in 1 .. Len(ch), k \in 1 .. SlotsPerCluster : t[ch[i]][k].kind = "entry" /\ t[ch[i]][k].name = n
  <2>1. PICK i \in 1 .. Len(ch), k \in 1 .. SlotsPerCluster : s[ch[i]][k].kind = "entry" /\ s[ch[i]][k].name = n
    BY DEF DotsOk
  <2>2. <<ch[i], k>> # y
    BY <2>1, <1>1 DEF NoDot
  <2> QED BY <2>1, <2>2, <1>2
<1>4. ASSUME NEW i \in 1 .. Len(ch), NEW k \in 1 .. SlotsPerCluster, t[ch[i]][k].kind = "entry"
      PROVE  /\ t[ch[i]][k].name = "." => t[ch[i]][k].dir /\ t[ch[i]][k].cluster = d
             /\ t[ch[i]][k].name = ".." => t[ch[i]][k].dir /\ t[ch[i]][k].cluster = up
  <2>1. CASE <<ch[i], k>> = y
    BY <2>1, <1>2, <1>4 DEF NoDot
  <2>2. CASE <<ch[i], k>> # y
    <3>1. t[ch[i]][k] = s[ch[i]][k]
      BY <2>2, <1>2
    <3> QED BY <3>1, <1>4 DEF DotsOk
  <2> QED BY <2>1, <2>2
<1> QED BY <1>3, <1>4 DEF DotsOk

(* The end stays where it is when no end comes or goes.                    *)
LEMMA EndStays ==
    ASSUME NEW A, NEW s, NEW t, NEW ch \in Seq(A), EndOk(s, ch),
           NEW y, NEW e, Puts(A, s, t, y, e), e # DIR_ENTRY_LAST,
           \A b \in A, l \in 1 .. SlotsPerCluster : <<b, l>> = y => s[b][l] # DIR_ENTRY_LAST
    PROVE  EndOk(t, ch)
<1>1. \A i \in 1 .. Len(ch) : ch[i] \in A
  OBVIOUS
<1>2. \A i \in 1 .. Len(ch), k \in 1 .. SlotsPerCluster :
         t[ch[i]][k] = DIR_ENTRY_LAST <=> s[ch[i]][k] = DIR_ENTRY_LAST
  BY <1>1 DEF Puts
<1> QED BY <1>2 DEF EndOk

(* An entry goes into a gap of directory d.                                *)
LEMMA PutEntry ==
    ASSUME NEW A, NEW r, NEW s, NEW t, NEW C, NEW D, NEW K, DirsOk(r, s, C, D, K), Apart(A, C, D), KidDirs(K, D),
           NEW d \in D, NEW y, HasGap(s, C[d], y), NEW e, IsKid(e), Puts(A, s, t, y, e),
           NEW k, k.in = d, k.name = e.name, k.dir = e.dir,
           k.dir => k.node \in D /\ DotsOk(s, C[k.node], k.node, UpOf(r, d))
    PROVE  /\ y \notin DOMAIN K
           /\ DirsOk(r, t, C, D, AddK(K, y, k))
<1> DEFINE K1 == AddK(K, y, k)
           ch == C[d]
<1>0. /\ \A f \in D : \A i \in 1 .. Len(C[f]) : C[f][i] \in A
      /\ \A f \in D : C[f] \in Seq(A) /\ Len(C[f]) \in Nat
  BY DEF Apart
<1>1. PICK i0 \in 1 .. Len(ch), k0 \in 1 .. SlotsPerCluster : GapAt(s, ch, y, i0, k0)
  BY DEF HasGap
<1>2. /\ y = <<ch[i0], k0>> /\ IsGap(s[ch[i0]][k0])
      /\ \A j \in 1 .. Len(ch), l \in 1 .. SlotsPerCluster : Before(j, l, i0, k0) => s[ch[j]][l] # DIR_ENTRY_LAST
  BY <1>1 DEF GapAt
<1>3. \A f \in D : \A i \in 1 .. Len(C[f]), l \in 1 .. SlotsPerCluster :
         t[C[f][i]][l] = IF <<C[f][i], l>> = y THEN e ELSE s[C[f][i]][l]
  BY <1>0 DEF Puts
<1>4. s[y[1]][y[2]].kind # "entry" /\ y[1] = ch[i0] /\ y[2] = k0
  BY <1>2 DEF IsGap, DIR_ENTRY_LAST, DIR_ENTRY_FREE
<1>5. \A x \in DOMAIN K : x # y
  <2>1. \A x \in DOMAIN K : IsKid(s[x[1]][x[2]])
    BY DEF DirsOk, KidsOk
  <2> QED BY <2>1, <1>4 DEF IsKid
<1>6. e # DIR_ENTRY_LAST
  BY DEF IsKid, DIR_ENTRY_LAST
<1>7. ASSUME NEW f \in D PROVE EndOk(t, C[f])
  <2> SUFFICES ASSUME NEW i \in 1 .. Len(C[f]), NEW j \in 1 .. Len(C[f]),
                      NEW m \in 1 .. SlotsPerCluster, NEW l \in 1 .. SlotsPerCluster,
                      t[C[f][i]][m] = DIR_ENTRY_LAST, i < j \/ (i = j /\ m < l)
               PROVE  t[C[f][j]][l] = DIR_ENTRY_LAST
    BY DEF EndOk
  <2>1. s[C[f][i]][m] = DIR_ENTRY_LAST
    BY <1>3, <1>6
  <2>2. EndOk(s, C[f])
    BY DEF DirsOk
  <2>3. s[C[f][j]][l] = DIR_ENTRY_LAST
    BY <2>1, <2>2 DEF EndOk
  <2>4. <<C[f][j], l>> # y
    <3> SUFFICES ASSUME <<C[f][j], l>> = y PROVE FALSE
      OBVIOUS
    <3>1. C[f][j] = C[d][i0] /\ l = k0
      BY <1>2
    <3>2. f = d /\ j = i0
      BY <3>1 DEF Apart
    <3>3. Before(i, m, i0, k0)
      BY <3>1, <3>2 DEF Before
    <3> QED BY <2>1, <3>2, <3>3, <1>2
  <2> QED BY <2>3, <2>4, <1>3
<1>8. /\ DOMAIN K1 = DOMAIN K \cup {y}
      /\ K1[y] = k
      /\ \A x \in DOMAIN K : K1[x] = K[x]
  BY <1>5 DEF AddK
<1> HIDE DEF K1
<1>9. KidsOk(t, C, D, K1)
  <2>1. ASSUME NEW f \in D, NEW i \in 1 .. Len(C[f]), NEW l \in 1 .. SlotsPerCluster, IsKid(t[C[f][i]][l])
        PROVE  <<C[f][i], l>> \in DOMAIN K1
    <3>1. CASE <<C[f][i], l>> = y
      BY <3>1, <1>8
    <3>2. CASE <<C[f][i], l>> # y
      <4>1. IsKid(s[C[f][i]][l])
        BY <3>2, <2>1, <1>3
      <4> QED BY <4>1, <1>8 DEF DirsOk, KidsOk
    <3> QED BY <3>1, <3>2
  <2>2. ASSUME NEW x \in DOMAIN K
        PROVE  /\ K[x].in \in D
               /\ \E i \in 1 .. Len(C[K[x].in]), l \in 1 .. SlotsPerCluster : x = <<C[K[x].in][i], l>>
               /\ IsKid(t[x[1]][x[2]])
               /\ t[x[1]][x[2]].name = K[x].name
               /\ t[x[1]][x[2]].dir = K[x].dir
    <3>1. /\ K[x].in \in D
          /\ \E i \in 1 .. Len(C[K[x].in]), l \in 1 .. SlotsPerCluster : x = <<C[K[x].in][i], l>>
          /\ IsKid(s[x[1]][x[2]])
          /\ s[x[1]][x[2]].name = K[x].name
          /\ s[x[1]][x[2]].dir = K[x].dir
      BY DEF DirsOk, KidsOk
    <3>2. PICK i \in 1 .. Len(C[K[x].in]), l \in 1 .. SlotsPerCluster : x = <<C[K[x].in][i], l>>
      BY <3>1
    <3>3. t[x[1]][x[2]] = s[x[1]][x[2]]
      <4>1. x # y /\ K[x].in \in D /\ x[1] = C[K[x].in][i] /\ x[2] = l
        BY <3>1, <3>2, <1>5
      <4> QED BY <4>1, <3>2, <1>3
    <3> QED BY <3>1, <3>3
  <2>3. t[y[1]][y[2]] = e
    BY <1>2, <1>3, <1>4
  <2>4. /\ K1[y].in \in D
        /\ \E i \in 1 .. Len(C[K1[y].in]), l \in 1 .. SlotsPerCluster : y = <<C[K1[y].in][i], l>>
        /\ IsKid(t[y[1]][y[2]])
        /\ t[y[1]][y[2]].name = K1[y].name
        /\ t[y[1]][y[2]].dir = K1[y].dir
    BY <2>3, <1>2, <1>8
  <2>5. ASSUME NEW x \in DOMAIN K1
        PROVE  /\ K1[x].in \in D
               /\ \E i \in 1 .. Len(C[K1[x].in]), l \in 1 .. SlotsPerCluster : x = <<C[K1[x].in][i], l>>
               /\ IsKid(t[x[1]][x[2]])
               /\ t[x[1]][x[2]].name = K1[x].name
               /\ t[x[1]][x[2]].dir = K1[x].dir
    <3>1. CASE x = y
      BY <3>1, <2>4
    <3>2. CASE x \in DOMAIN K
      <4>1. K1[x] = K[x]
        BY <3>2, <1>8
      <4> QED BY <3>2, <4>1, <2>2
    <3> QED BY <3>1, <3>2, <1>8
  <2> QED BY <2>1, <2>5 DEF KidsOk
<1>10. ASSUME NEW ch1 \in Seq(A), NEW n, NEW up, DotsOk(s, ch1, n, up) PROVE DotsOk(t, ch1, n, up)
  <2>1. NoDot(e)
    BY DEF NoDot, IsKid
  <2>2. \A b \in A, l \in 1 .. SlotsPerCluster : <<b, l>> = y => NoDot(s[b][l])
    BY <1>4 DEF NoDot
  <2> QED BY <2>1, <2>2, <1>10, DotsStay
<1>11. ASSUME NEW x \in DOMAIN K1, K1[x].dir
       PROVE  DotsOk(t, C[K1[x].node], K1[x].node, UpOf(r, K1[x].in))
  <2>1. CASE x = y
    BY <2>1, <1>0, <1>8, <1>10, <1>11
  <2>2. CASE x \in DOMAIN K
    <3>1. K1[x] = K[x] /\ K[x].dir
      BY <2>2, <1>8, <1>11
    <3>2. C[K[x].node] \in Seq(A)
      BY <2>2, <3>1, <1>0 DEF KidDirs
    <3>3. DotsOk(s, C[K[x].node], K[x].node, UpOf(r, K[x].in))
      BY <2>2, <3>1 DEF DirsOk
    <3> QED BY <3>1, <3>2, <3>3, <1>10
  <2> QED BY <2>1, <2>2, <1>8
<1>12. y \notin DOMAIN K
  BY <1>5
<1> QED BY <1>7, <1>9, <1>11, <1>12 DEF DirsOk, K1

(* What the picture says of kid x and its slot.                            *)
KidIs(s, C, D, K, x) ==
    /\ K[x].in \in D
    /\ \E i \in 1 .. Len(C[K[x].in]), l \in 1 .. SlotsPerCluster : x = <<C[K[x].in][i], l>>
    /\ IsKid(s[x[1]][x[2]])
    /\ s[x[1]][x[2]].name = K[x].name
    /\ s[x[1]][x[2]].dir = K[x].dir

(* The entry x is removed.                                                 *)
LEMMA TakeEntry ==
    ASSUME NEW A, NEW r, NEW s, NEW t, NEW C, NEW D, NEW K, DirsOk(r, s, C, D, K), Apart(A, C, D), KidDirs(K, D),
           NEW x \in DOMAIN K, Puts(A, s, t, x, DIR_ENTRY_FREE)
    PROVE  DirsOk(r, t, C, D, DropK(K, x))
<1> DEFINE K1 == DropK(K, x)
<1>0. /\ \A f \in D : \A i \in 1 .. Len(C[f]) : C[f][i] \in A
      /\ \A f \in D : C[f] \in Seq(A)
  BY DEF Apart
<1>1. \A f \in D : \A i \in 1 .. Len(C[f]), l \in 1 .. SlotsPerCluster :
         t[C[f][i]][l] = IF <<C[f][i], l>> = x THEN DIR_ENTRY_FREE ELSE s[C[f][i]][l]
  BY <1>0 DEF Puts
<1>2. \A y \in DOMAIN K : KidIs(s, C, D, K, y)
  BY DEF DirsOk, KidsOk, KidIs
<1>3. DIR_ENTRY_FREE.kind = "free" /\ DIR_ENTRY_FREE # DIR_ENTRY_LAST /\ DIR_ENTRY_LAST.kind = "last"
  BY DEF DIR_ENTRY_FREE, DIR_ENTRY_LAST
<1>4. IsKid(s[x[1]][x[2]])
  BY <1>2 DEF KidIs
<1>5. \A b \in A, l \in 1 .. SlotsPerCluster : <<b, l>> = x => NoDot(s[b][l]) /\ s[b][l] # DIR_ENTRY_LAST
  BY <1>3, <1>4 DEF IsKid, NoDot
<1>6. /\ DOMAIN K1 = DOMAIN K \ {x}
      /\ \A y \in DOMAIN K1 : K1[y] = K[y]
  BY DEF DropK
<1> HIDE DEF K1
<1>7. ASSUME NEW f \in D PROVE EndOk(t, C[f])
  <2>1. EndOk(s, C[f])
    BY DEF DirsOk
  <2> QED BY <2>1, <1>0, <1>3, <1>5, EndStays
<1>8. KidsOk(t, C, D, K1)
  <2>1. ASSUME NEW f \in D, NEW i \in 1 .. Len(C[f]), NEW l \in 1 .. SlotsPerCluster, IsKid(t[C[f][i]][l])
        PROVE  <<C[f][i], l>> \in DOMAIN K1
    <3>1. <<C[f][i], l>> # x /\ IsKid(s[C[f][i]][l])
      BY <2>1, <1>1, <1>3 DEF IsKid
    <3> QED BY <3>1, <1>6 DEF DirsOk, KidsOk
  <2>2. ASSUME NEW y \in DOMAIN K1 PROVE KidIs(t, C, D, K1, y)
    <3>1. y \in DOMAIN K /\ K1[y] = K[y] /\ y # x
      BY <1>6
    <3>2. KidIs(s, C, D, K, y)
      BY <3>1, <1>2
    <3>3. PICK i \in 1 .. Len(C[K[y].in]), l \in 1 .. SlotsPerCluster : y = <<C[K[y].in][i], l>>
      BY <3>2 DEF KidIs
    <3>4. t[y[1]][y[2]] = s[y[1]][y[2]]
      BY <3>1, <3>2, <3>3, <1>1 DEF KidIs
    <3> QED BY <3>1, <3>2, <3>4 DEF KidIs
  <2> QED BY <2>1, <2>2 DEF KidsOk, KidIs
<1>9. ASSUME NEW y \in DOMAIN K1, K1[y].dir
      PROVE  DotsOk(t, C[K1[y].node], K1[y].node, UpOf(r, K1[y].in))
  <2>1. y \in DOMAIN K /\ K1[y] = K[y] /\ K[y].dir
    BY <1>6, <1>9
  <2>2. C[K[y].node] \in Seq(A)
    BY <2>1, <1>0 DEF KidDirs
  <2>3. DotsOk(s, C[K[y].node], K[y].node, UpOf(r, K[y].in))
    BY <2>1 DEF DirsOk
  <2>4. NoDot(DIR_ENTRY_FREE)
    BY <1>3 DEF NoDot
  <2>5. DotsOk(t, C[K[y].node], K[y].node, UpOf(r, K[y].in))
    BY <2>2, <2>3, <2>4, <1>5, DotsStay
  <2> QED BY <2>1, <2>5
<1> QED BY <1>7, <1>8, <1>9 DEF DirsOk, K1

(* Other fields of the entry x change.                                     *)
LEMMA EditEntry ==
    ASSUME NEW A, NEW r, NEW s, NEW t, NEW C, NEW D, NEW K, DirsOk(r, s, C, D, K), Apart(A, C, D), KidDirs(K, D),
           NEW x \in DOMAIN K, NEW e, IsKid(e), e.name = K[x].name, e.dir = K[x].dir, Puts(A, s, t, x, e)
    PROVE  DirsOk(r, t, C, D, K)
<1>0. /\ \A f \in D : \A i \in 1 .. Len(C[f]) : C[f][i] \in A
      /\ \A f \in D : C[f] \in Seq(A)
  BY DEF Apart
<1>1. \A f \in D : \A i \in 1 .. Len(C[f]), l \in 1 .. SlotsPerCluster :
         t[C[f][i]][l] = IF <<C[f][i], l>> = x THEN e ELSE s[C[f][i]][l]
  BY <1>0 DEF Puts
<1>2. \A y \in DOMAIN K : KidIs(s, C, D, K, y)
  BY DEF DirsOk, KidsOk, KidIs
<1>3. e # DIR_ENTRY_LAST /\ NoDot(e)
  BY DEF DIR_ENTRY_LAST, IsKid, NoDot
<1>4. IsKid(s[x[1]][x[2]])
  BY <1>2 DEF KidIs
<1>5. \A b \in A, l \in 1 .. SlotsPerCluster : <<b, l>> = x => NoDot(s[b][l]) /\ s[b][l] # DIR_ENTRY_LAST
  BY <1>4 DEF IsKid, NoDot, DIR_ENTRY_LAST
<1>7. ASSUME NEW f \in D PROVE EndOk(t, C[f])
  <2>1. EndOk(s, C[f])
    BY DEF DirsOk
  <2> QED BY <2>1, <1>0, <1>3, <1>5, EndStays
<1>8. KidsOk(t, C, D, K)
  <2>1. ASSUME NEW f \in D, NEW i \in 1 .. Len(C[f]), NEW l \in 1 .. SlotsPerCluster, IsKid(t[C[f][i]][l])
        PROVE  <<C[f][i], l>> \in DOMAIN K
    <3>1. CASE <<C[f][i], l>> = x
      BY <3>1
    <3>2. CASE <<C[f][i], l>> # x
      <4>1. IsKid(s[C[f][i]][l])
        BY <2>1, <3>2, <1>1
      <4> QED BY <4>1 DEF DirsOk, KidsOk
    <3> QED BY <3>1, <3>2
  <2>2. ASSUME NEW y \in DOMAIN K PROVE KidIs(t, C, D, K, y)
    <3>2. KidIs(s, C, D, K, y)
      BY <1>2
    <3>3. PICK i \in 1 .. Len(C[K[y].in]), l \in 1 .. SlotsPerCluster : y = <<C[K[y].in][i], l>>
      BY <3>2 DEF KidIs
    <3>4. t[y[1]][y[2]] = IF y = x THEN e ELSE s[y[1]][y[2]]
      BY <3>2, <3>3, <1>1 DEF KidIs
    <3> QED BY <3>2, <3>4 DEF KidIs
  <2> QED BY <2>1, <2>2 DEF KidsOk, KidIs
<1>9. ASSUME NEW y \in DOMAIN K, K[y].dir
      PROVE  DotsOk(t, C[K[y].node], K[y].node, UpOf(r, K[y].in))
  <2>2. C[K[y].node] \in Seq(A)
    BY <1>9, <1>0 DEF KidDirs
  <2>3. DotsOk(s, C[K[y].node], K[y].node, UpOf(r, K[y].in))
    BY <1>9 DEF DirsOk
  <2> QED BY <2>2, <2>3, <1>3, <1>5, DotsStay
<1> QED BY <1>7, <1>8, <1>9 DEF DirsOk

(* Clusters outside the directories change.                                *)
LEMMA DirsFrame ==
    ASSUME NEW r, NEW s, NEW t, NEW C, NEW B, NEW D, NEW K, DirsOk(r, s, C, D, K), KidDirs(K, D),
           \A d \in D : B[d] = C[d],
           \A d \in D : \A i \in 1 .. Len(C[d]) : t[C[d][i]] = s[C[d][i]]
    PROVE  DirsOk(r, t, B, D, K)
<1>1. ASSUME NEW d \in D PROVE EndOk(t, B[d])
  <2>1. EndOk(s, C[d]) /\ B[d] = C[d]
    BY DEF DirsOk
  <2> QED BY <2>1 DEF EndOk
<1>2. \A y \in DOMAIN K : KidIs(s, C, D, K, y)
  BY DEF DirsOk, KidsOk, KidIs
<1>3. ASSUME NEW y \in DOMAIN K PROVE KidIs(t, B, D, K, y)
  <2>1. KidIs(s, C, D, K, y)
    BY <1>2
  <2>2. PICK i \in 1 .. Len(C[K[y].in]), l \in 1 .. SlotsPerCluster : y = <<C[K[y].in][i], l>>
    BY <2>1 DEF KidIs
  <2>3. t[y[1]] = s[y[1]] /\ B[K[y].in] = C[K[y].in]
    BY <2>1, <2>2 DEF KidIs
  <2> QED BY <2>1, <2>2, <2>3 DEF KidIs
<1>4. KidsOk(t, B, D, K)
  <2>1. \A d \in D : \A i \in 1 .. Len(B[d]), k \in 1 .. SlotsPerCluster :
          IsKid(t[B[d][i]][k]) => <<B[d][i], k>> \in DOMAIN K
    BY DEF DirsOk, KidsOk
  <2> QED BY <2>1, <1>3 DEF KidsOk, KidIs
<1>5. ASSUME NEW y \in DOMAIN K, K[y].dir
      PROVE  DotsOk(t, B[K[y].node], K[y].node, UpOf(r, K[y].in))
  <2>1. K[y].node \in D
    BY <1>5 DEF KidDirs
  <2>2. DotsOk(s, C[K[y].node], K[y].node, UpOf(r, K[y].in)) /\ B[K[y].node] = C[K[y].node]
    BY <1>5, <2>1 DEF DirsOk
  <2>3. \A i \in 1 .. Len(C[K[y].node]) : t[C[K[y].node][i]] = s[C[K[y].node][i]]
    BY <2>1
  <2> DEFINE ch == C[K[y].node]
             f == K[y].node
             up == UpOf(r, K[y].in)
  <2>4. DotsOk(s, ch, f, up) /\ \A i \in 1 .. Len(ch) : t[ch[i]] = s[ch[i]]
    BY <2>2, <2>3
  <2> HIDE DEF ch, f, up
  <2>5. ASSUME NEW n \in {".", ".."}
        PROVE  \E i \in 1 .. Len(ch), k \in 1 .. SlotsPerCluster : t[ch[i]][k].kind = "entry" /\ t[ch[i]][k].name = n
    BY <2>4 DEF DotsOk
  <2>6. ASSUME NEW i \in 1 .. Len(ch), NEW k \in 1 .. SlotsPerCluster, t[ch[i]][k].kind = "entry"
        PROVE  /\ t[ch[i]][k].name = "." => t[ch[i]][k].dir /\ t[ch[i]][k].cluster = f
               /\ t[ch[i]][k].name = ".." => t[ch[i]][k].dir /\ t[ch[i]][k].cluster = up
    <3>1. t[ch[i]] = s[ch[i]]
      BY <2>4
    <3> QED BY <3>1, <2>4, <2>6 DEF DotsOk
  <2>7. DotsOk(t, ch, f, up)
    BY <2>5, <2>6 DEF DotsOk
  <2> QED BY <2>2, <2>7 DEF ch, f, up
<1> QED BY <1>1, <1>4, <1>5 DEF DirsOk

(* Directory d grows by the cleared cluster g.                             *)
LEMMA DirGrows ==
    ASSUME NEW A, NEW r, NEW s, NEW t, NEW C, NEW B, NEW D, NEW K, DirsOk(r, s, C, D, K), Apart(A, C, D), KidDirs(K, D),
           NEW d \in D, NEW g \in A,
           \A f \in D : \A i \in 1 .. Len(C[f]) : C[f][i] # g,
           \A f \in D : B[f] = IF f = d THEN Append(C[d], g) ELSE C[f],
           \A b \in A : b # g => t[b] = s[b],
           \A l \in 1 .. SlotsPerCluster : t[g][l] = DIR_ENTRY_LAST
    PROVE  DirsOk(r, t, B, D, K) /\ Apart(A, B, D)
<1>1. ASSUME NEW f \in D
      PROVE  /\ C[f] \in Seq(A) /\ Len(C[f]) \in Nat
             /\ \A i \in 1 .. Len(C[f]) : C[f][i] \in A /\ C[f][i] # g /\ B[f][i] = C[f][i] /\ t[B[f][i]] = s[C[f][i]]
             /\ B[f] \in Seq(A)
             /\ f # d => Len(B[f]) = Len(C[f])
             /\ f = d => Len(B[f]) = Len(C[f]) + 1 /\ B[f][Len(C[f]) + 1] = g
  <2>1. C[f] \in Seq(A) /\ Len(C[f]) \in Nat
    BY DEF Apart
  <2>2. \A i \in 1 .. Len(C[f]) : C[f][i] \in A /\ C[f][i] # g
    BY <2>1
  <2>3. CASE f = d
    <3>1. B[f] = Append(C[f], g)
      BY <2>3
    <3>2. Append(C[f], g) \in Seq(A) /\ Len(Append(C[f], g)) = Len(C[f]) + 1
          /\ Append(C[f], g)[Len(C[f]) + 1] = g /\ \A i \in 1 .. Len(C[f]) : Append(C[f], g)[i] = C[f][i]
      BY <2>1
    <3> QED BY <2>1, <2>2, <2>3, <3>1, <3>2
  <2>4. CASE f # d
    BY <2>1, <2>2, <2>4
  <2> QED BY <2>3, <2>4
<1>2. ASSUME NEW f \in D, NEW i \in 1 .. Len(B[f]), i \notin 1 .. Len(C[f])
      PROVE  f = d /\ i = Len(C[f]) + 1 /\ B[f][i] = g /\ Len(B[f]) = Len(C[f]) + 1
  BY <1>1, <1>2
<1>3. Apart(A, B, D)
  <2>1. ASSUME NEW e \in D, NEW f \in D, NEW i \in 1 .. Len(B[e]), NEW j \in 1 .. Len(B[f]), B[e][i] = B[f][j]
        PROVE  e = f /\ i = j
    <3>1. CASE i \in 1 .. Len(C[e]) /\ j \in 1 .. Len(C[f])
      BY <2>1, <3>1, <1>1 DEF Apart
    <3>2. CASE i \notin 1 .. Len(C[e]) /\ j \in 1 .. Len(C[f])
      BY <2>1, <3>2, <1>1, <1>2
    <3>3. CASE i \in 1 .. Len(C[e]) /\ j \notin 1 .. Len(C[f])
      BY <2>1, <3>3, <1>1, <1>2
    <3>4. CASE i \notin 1 .. Len(C[e]) /\ j \notin 1 .. Len(C[f])
      BY <3>4, <1>2
    <3> QED BY <3>1, <3>2, <3>3, <3>4
  <2> QED BY <2>1, <1>1 DEF Apart
<1>4. ASSUME NEW f \in D PROVE EndOk(t, B[f])
  <2> SUFFICES ASSUME NEW i \in 1 .. Len(B[f]), NEW j \in 1 .. Len(B[f]),
                      NEW m \in 1 .. SlotsPerCluster, NEW l \in 1 .. SlotsPerCluster,
                      t[B[f][i]][m] = DIR_ENTRY_LAST, i < j \/ (i = j /\ m < l)
               PROVE  t[B[f][j]][l] = DIR_ENTRY_LAST
    BY DEF EndOk
  <2>1. CASE j \in 1 .. Len(C[f])
    <3>1. i \in 1 .. Len(C[f])
      BY <2>1, <1>1
    <3>2. s[C[f][i]][m] = DIR_ENTRY_LAST
      BY <3>1, <1>1
    <3>3. EndOk(s, C[f])
      BY DEF DirsOk
    <3>4. s[C[f][j]][l] = DIR_ENTRY_LAST
      BY <2>1, <3>1, <3>2, <3>3 DEF EndOk
    <3> QED BY <2>1, <3>4, <1>1
  <2>2. CASE j \notin 1 .. Len(C[f])
    BY <2>2, <1>2
  <2> QED BY <2>1, <2>2
<1>5. DIR_ENTRY_LAST.kind = "last"
  BY DEF DIR_ENTRY_LAST
<1>6. KidsOk(t, B, D, K)
  <2>1. ASSUME NEW f \in D, NEW i \in 1 .. Len(B[f]), NEW l \in 1 .. SlotsPerCluster, IsKid(t[B[f][i]][l])
        PROVE  <<B[f][i], l>> \in DOMAIN K
    <3>1. i \in 1 .. Len(C[f])
      BY <2>1, <1>2, <1>5 DEF IsKid
    <3>2. IsKid(s[C[f][i]][l]) /\ B[f][i] = C[f][i]
      BY <2>1, <3>1, <1>1
    <3> QED BY <3>1, <3>2 DEF DirsOk, KidsOk
  <2>2. ASSUME NEW y \in DOMAIN K PROVE KidIs(t, B, D, K, y)
    <3>1. KidIs(s, C, D, K, y)
      BY DEF DirsOk, KidsOk, KidIs
    <3>2. PICK i \in 1 .. Len(C[K[y].in]), l \in 1 .. SlotsPerCluster : y = <<C[K[y].in][i], l>>
      BY <3>1 DEF KidIs
    <3>3. i \in 1 .. Len(B[K[y].in]) /\ y = <<B[K[y].in][i], l>> /\ t[y[1]] = s[y[1]]
      <4>1. K[y].in \in D
        BY <3>1 DEF KidIs
      <4> QED BY <4>1, <3>2, <1>1
    <3> QED BY <3>1, <3>3 DEF KidIs
  <2> QED BY <2>1, <2>2 DEF KidsOk, KidIs
<1>7. ASSUME NEW y \in DOMAIN K, K[y].dir
      PROVE  DotsOk(t, B[K[y].node], K[y].node, UpOf(r, K[y].in))
  <2> DEFINE f == K[y].node
             up == UpOf(r, K[y].in)
  <2>1. f \in D
    BY <1>7 DEF KidDirs
  <2>2. DotsOk(s, C[f], f, up)
    BY <1>7 DEF DirsOk
  <2> HIDE DEF f, up
  <2>3. ASSUME NEW n \in {".", ".."}
        PROVE  \E i \in 1 .. Len(B[f]), k \in 1 .. SlotsPerCluster :
                  t[B[f][i]][k].kind = "entry" /\ t[B[f][i]][k].name = n
    <3>1. PICK i \in 1 .. Len(C[f]), k \in 1 .. SlotsPerCluster : s[C[f][i]][k].kind = "entry" /\ s[C[f][i]][k].name = n
      BY <2>2 DEF DotsOk
    <3>2. i \in 1 .. Len(B[f]) /\ t[B[f][i]] = s[C[f][i]]
      BY <3>1, <2>1, <1>1
    <3> QED BY <3>1, <3>2
  <2>4. ASSUME NEW i \in 1 .. Len(B[f]), NEW k \in 1 .. SlotsPerCluster, t[B[f][i]][k].kind = "entry"
        PROVE  /\ t[B[f][i]][k].name = "." => t[B[f][i]][k].dir /\ t[B[f][i]][k].cluster = f
               /\ t[B[f][i]][k].name = ".." => t[B[f][i]][k].dir /\ t[B[f][i]][k].cluster = up
    <3>1. i \in 1 .. Len(C[f])
      BY <2>1, <2>4, <1>2, <1>5
    <3>2. t[B[f][i]] = s[C[f][i]]
      BY <3>1, <2>1, <1>1
    <3> QED BY <3>1, <3>2, <2>2, <2>4 DEF DotsOk
  <2>5. DotsOk(t, B[f], f, up)
    BY <2>3, <2>4 DEF DotsOk
  <2> QED BY <2>5 DEF f, up
<1> QED BY <1>3, <1>4, <1>6, <1>7 DEF DirsOk

(* The slots w of a new directory n: its dot entries and nothing else.     *)
DotsIn(w, n, up) ==
    /\ w[1].kind = "entry" /\ w[1].name = "." /\ w[1].dir /\ w[1].cluster = n
    /\ w[2].kind = "entry" /\ w[2].name = ".." /\ w[2].dir /\ w[2].cluster = up
    /\ \A l \in 1 .. SlotsPerCluster : l = 1 \/ l = 2 \/ w[l] = DIR_ENTRY_LAST

(* That is what mkdir writes.                                              *)
LEMMA DotsAreIn ==
    ASSUME NEW c, NEW n
    PROVE  DotsIn(Dots(c, n), n, DotDotCluster(c))
<1>0. SlotsPerCluster \in Nat /\ SlotsPerCluster > 2
  BY TreeConstants
<1> DEFINE e1 == Entry(".", TRUE, FALSE, n)
           e2 == Entry("..", TRUE, FALSE, DotDotCluster(c))
<1>1. /\ e1.kind = "entry" /\ e1.name = "." /\ e1.dir /\ e1.cluster = n
      /\ e2.kind = "entry" /\ e2.name = ".." /\ e2.dir /\ e2.cluster = DotDotCluster(c)
  BY DEF Entry
<1>2. Dots(c, n) = [Cleared EXCEPT ![1] = e1, ![2] = e2]
  BY DEF Dots
<1> HIDE DEF e1, e2
<1>3. Dots(c, n)[1] = e1 /\ Dots(c, n)[2] = e2
      /\ \A l \in 1 .. SlotsPerCluster : l = 1 \/ l = 2 \/ Dots(c, n)[l] = DIR_ENTRY_LAST
  BY <1>0, <1>2 DEF Cleared
<1> QED BY <1>1, <1>3 DEF DotsIn

(* The first clusters of the directories are chained as before.            *)
ChainsStay(C, B, D) == \A d \in D : B[d] = C[d]

(* Cluster n belongs to no directory.                                      *)
AwayFrom(C, D, n) == \A d \in D : \A i \in 1 .. Len(C[d]) : C[d][i] # n

(* Every area but n keeps its slots.                                       *)
OthersStay(A, s, t, n) == \A b \in A : b # n => t[b] = s[b]

(* A new directory n with its dot entries; nobody is its parent yet.       *)
LEMMA DirBegins ==
    ASSUME NEW A, NEW r, NEW s, NEW t, NEW C, NEW B, NEW D, NEW K, DirsOk(r, s, C, D, K), Apart(A, C, D), KidDirs(K, D),
           NEW n \in A, n \notin D, NEW up,
           AwayFrom(C, D, n), ChainsStay(C, B, D), B[n] = <<n>>, OthersStay(A, s, t, n), DotsIn(t[n], n, up)
    PROVE  DirsOk(r, t, B, D \cup {n}, K) /\ Apart(A, B, D \cup {n}) /\ DotsOk(t, B[n], n, up)
<1>0. SlotsPerCluster \in Nat /\ SlotsPerCluster > 2
  BY TreeConstants
<1>1. /\ \A f \in D : C[f] \in Seq(A) /\ \A i \in 1 .. Len(C[f]) : C[f][i] \in A /\ t[C[f][i]] = s[C[f][i]]
      /\ \A f \in D : B[f] = C[f]
      /\ \A f \in D : \A i \in 1 .. Len(C[f]) : C[f][i] # n
  BY DEF Apart, AwayFrom, ChainsStay, OthersStay
<1>2. DirsOk(r, t, B, D, K)
  BY <1>1, DirsFrame
<1> DEFINE w == t[n]
<1>3. /\ w[1].kind = "entry" /\ w[1].name = "." /\ w[1].dir /\ w[1].cluster = n
      /\ w[2].kind = "entry" /\ w[2].name = ".." /\ w[2].dir /\ w[2].cluster = up
      /\ \A l \in 1 .. SlotsPerCluster : l = 1 \/ l = 2 \/ w[l] = DIR_ENTRY_LAST
  BY DEF DotsIn
<1>4. Len(B[n]) = 1 /\ B[n][1] = n /\ B[n] \in Seq(A) /\ \A i \in 1 .. Len(B[n]) : i = 1
  OBVIOUS
<1>5. \A i \in 1 .. Len(B[n]) : t[B[n][i]] = w
  BY <1>4
<1>6. DIR_ENTRY_LAST.kind = "last"
  BY DEF DIR_ENTRY_LAST
<1> HIDE DEF w
<1>8. EndOk(t, B[n])
  <2> SUFFICES ASSUME NEW i \in 1 .. Len(B[n]), NEW j \in 1 .. Len(B[n]),
                      NEW m \in 1 .. SlotsPerCluster, NEW l \in 1 .. SlotsPerCluster,
                      t[B[n][i]][m] = DIR_ENTRY_LAST, i < j \/ (i = j /\ m < l)
               PROVE  t[B[n][j]][l] = DIR_ENTRY_LAST
    BY DEF EndOk
  <2>1. i = 1 /\ j = 1 /\ t[B[n][i]] = w /\ t[B[n][j]] = w
    BY <1>4, <1>5
  <2>2. m # 1 /\ m # 2
    BY <2>1, <1>3, <1>6
  <2>3. l # 1 /\ l # 2
    BY <2>1, <2>2, <1>0
  <2> QED BY <2>1, <2>3, <1>3
<1>9. DotsOk(t, B[n], n, up)
  <2>1. 1 \in 1 .. Len(B[n]) /\ 1 \in 1 .. SlotsPerCluster /\ 2 \in 1 .. SlotsPerCluster /\ t[B[n][1]] = w
    BY <1>0, <1>4, <1>5
  <2>2. ASSUME NEW x \in {".", ".."}
        PROVE  \E i \in 1 .. Len(B[n]), k \in 1 .. SlotsPerCluster :
                  t[B[n][i]][k].kind = "entry" /\ t[B[n][i]][k].name = x
    <3>1. CASE x = "."
      BY <2>1, <3>1, <1>3
    <3>2. CASE x = ".."
      BY <2>1, <3>2, <1>3
    <3> QED BY <3>1, <3>2
  <2>3. ASSUME NEW i \in 1 .. Len(B[n]), NEW k \in 1 .. SlotsPerCluster, t[B[n][i]][k].kind = "entry"
        PROVE  /\ t[B[n][i]][k].name = "." => t[B[n][i]][k].dir /\ t[B[n][i]][k].cluster = n
               /\ t[B[n][i]][k].name = ".." => t[B[n][i]][k].dir /\ t[B[n][i]][k].cluster = up
    <3>1. t[B[n][i]] = w
      BY <1>5
    <3>2. k = 1 \/ k = 2
      BY <3>1, <2>3, <1>3, <1>6
    <3>3. CASE k = 1
      BY <3>1, <3>3, <1>3
    <3>4. CASE k = 2
      BY <3>1, <3>4, <1>3
    <3> QED BY <3>2, <3>3, <3>4
  <2> QED BY <2>2, <2>3 DEF DotsOk
<1>10. Apart(A, B, D \cup {n})
  <2>1. ASSUME NEW e \in D \cup {n}, NEW f \in D \cup {n}, NEW i \in 1 .. Len(B[e]), NEW j \in 1 .. Len(B[f]), B[e][i] = B[f][j]
        PROVE  e = f /\ i = j
    <3>1. CASE e = n /\ f = n
      BY <3>1, <1>4
    <3>2. CASE e = n /\ f # n
      BY <2>1, <3>2, <1>1, <1>4
    <3>3. CASE e # n /\ f = n
      BY <2>1, <3>3, <1>1, <1>4
    <3>4. CASE e # n /\ f # n
      BY <2>1, <3>4, <1>1 DEF Apart
    <3> QED BY <3>1, <3>2, <3>3, <3>4
  <2>2. \A f \in D \cup {n} : B[f] \in Seq(A)
    BY <1>1, <1>4
  <2> QED BY <2>1, <2>2 DEF Apart
<1>11. KidsOk(t, B, D \cup {n}, K)
  <2>1. ASSUME NEW f \in D \cup {n}, NEW i \in 1 .. Len(B[f]), NEW k \in 1 .. SlotsPerCluster, IsKid(t[B[f][i]][k])
        PROVE  <<B[f][i], k>> \in DOMAIN K
    <3>1. CASE f = n
      <4>1. t[B[f][i]] = w
        BY <3>1, <1>5
      <4>2. k = 1 \/ k = 2
        BY <4>1, <2>1, <1>3, <1>6 DEF IsKid
      <4>3. w[k].name \notin {".", ".."}
        BY <4>1, <2>1 DEF IsKid
      <4> QED BY <4>2, <4>3, <1>3
    <3>2. CASE f # n
      BY <2>1, <3>2, <1>1, <1>2 DEF DirsOk, KidsOk
    <3> QED BY <3>1, <3>2
  <2>2. ASSUME NEW y \in DOMAIN K PROVE KidIs(t, B, D \cup {n}, K, y)
    <3>1. KidIs(t, B, D, K, y)
      BY <1>2 DEF DirsOk, KidsOk, KidIs
    <3> QED BY <3>1 DEF KidIs
  <2> QED BY <2>1, <2>2 DEF KidsOk, KidIs
<1>12. \A f \in D \cup {n} : EndOk(t, B[f])
  BY <1>2, <1>8 DEF DirsOk
<1>13. \A x \in DOMAIN K : K[x].dir => DotsOk(t, B[K[x].node], K[x].node, UpOf(r, K[x].in))
  BY <1>2 DEF DirsOk
<1> QED BY <1>9, <1>10, <1>11, <1>12, <1>13 DEF DirsOk

(* The directory v, which has no kids and is nobody's kid, is forgotten.   *)
LEMMA DirGoes ==
    ASSUME NEW A, NEW r, NEW s, NEW C, NEW D, NEW K, DirsOk(r, s, C, D, K), Apart(A, C, D),
           NEW v, \A x \in DOMAIN K : K[x].in # v
    PROVE  DirsOk(r, s, C, D \ {v}, K) /\ Apart(A, C, D \ {v})
<1>1. Apart(A, C, D \ {v})
  BY DEF Apart
<1>2. KidsOk(s, C, D \ {v}, K)
  <2>1. ASSUME NEW y \in DOMAIN K PROVE KidIs(s, C, D \ {v}, K, y)
    <3>1. KidIs(s, C, D, K, y)
      BY DEF DirsOk, KidsOk, KidIs
    <3> QED BY <3>1 DEF KidIs
  <2>2. \A d \in D \ {v} : \A i \in 1 .. Len(C[d]), k \in 1 .. SlotsPerCluster :
          IsKid(s[C[d][i]][k]) => <<C[d][i], k>> \in DOMAIN K
    BY DEF DirsOk, KidsOk
  <2> QED BY <2>1, <2>2 DEF KidsOk, KidIs
<1>3. (\A d \in D \ {v} : EndOk(s, C[d])) /\ \A x \in DOMAIN K : K[x].dir => DotsOk(s, C[K[x].node], K[x].node, UpOf(r, K[x].in))
  BY DEF DirsOk
<1> QED BY <1>1, <1>2, <1>3 DEF DirsOk

-----------------------------------------------------------------------------
(* The tree of kids *)

(* What the tree says of one kid.                                          *)
KidType(r, A, D, k) ==
    /\ k \in [in : D, name : Names, dir : BOOLEAN, node : A \cup {CLUSTER_FREE}]
    /\ k.dir => k.node \in D \ {r}
    /\ ~k.dir /\ k.node # CLUSTER_FREE => k.node \notin D

(* No kid of directory d has the name n.                                   *)
NewIn(K, d, n) == \A x \in DOMAIN K : ~(K[x].in = d /\ K[x].name = n)

(* v is neither a directory nor held by a kid.                             *)
Fresh(A, D, K, v) == v \in A /\ v # CLUSTER_FREE /\ v \notin D /\ \A x \in DOMAIN K : K[x].node # v

(* A kid that needs no directory of its own: a new file is empty.          *)
LEMMA TreeAddsFile ==
    ASSUME NEW r, NEW A, NEW D, NEW K, NEW dep, TreeOk(r, A, D, K, dep),
           NEW y, y \notin DOMAIN K, NEW k, KidType(r, A, D, k), ~k.dir, k.node = CLUSTER_FREE, NewIn(K, k.in, k.name)
    PROVE  TreeOk(r, A, D, AddK(K, y, k), dep)
<1> DEFINE K1 == AddK(K, y, k)
<1>1. /\ DOMAIN K1 = DOMAIN K \cup {y} /\ K1[y] = k
      /\ \A x \in DOMAIN K : x # y /\ K1[x] = K[x]
      /\ K1 = [x \in DOMAIN K1 |-> K1[x]]
  BY DEF AddK
<1> HIDE DEF K1
<1>2. \A x \in DOMAIN K : KidType(r, A, D, K[x])
  BY DEF TreeOk, KidType
<1>3. \A x \in DOMAIN K1 : KidType(r, A, D, K1[x])
  BY <1>1, <1>2
<1>4. \A d \in D \ {r} : \E x \in DOMAIN K1 : K1[x].dir /\ K1[x].node = d /\ dep[K1[x].in] < dep[d]
  <2> TAKE d \in D \ {r}
  <2>1. PICK x \in DOMAIN K : K[x].dir /\ K[x].node = d /\ dep[K[x].in] < dep[d]
    BY DEF TreeOk
  <2> QED BY <2>1, <1>1
<1>5. \A x, z \in DOMAIN K1 : K1[x].in = K1[z].in /\ K1[x].name = K1[z].name => x = z
  <2> SUFFICES ASSUME NEW x \in DOMAIN K1, NEW z \in DOMAIN K1, K1[x].in = K1[z].in, K1[x].name = K1[z].name
               PROVE  x = z
    OBVIOUS
  <2>1. CASE x \in DOMAIN K /\ z \in DOMAIN K
    BY <2>1, <1>1 DEF TreeOk
  <2>2. CASE x = y /\ z \in DOMAIN K
    BY <2>2, <1>1 DEF NewIn
  <2>3. CASE z = y /\ x \in DOMAIN K
    BY <2>3, <1>1 DEF NewIn
  <2> QED BY <2>1, <2>2, <2>3, <1>1
<1>6. \A x, z \in DOMAIN K1 : K1[x].node = K1[z].node => x = z \/ K1[x].node = CLUSTER_FREE
  <2> SUFFICES ASSUME NEW x \in DOMAIN K1, NEW z \in DOMAIN K1, K1[x].node = K1[z].node
               PROVE  x = z \/ K1[x].node = CLUSTER_FREE
    OBVIOUS
  <2>1. CASE x \in DOMAIN K /\ z \in DOMAIN K
    BY <2>1, <1>1 DEF TreeOk
  <2>2. CASE x = y \/ z = y
    BY <2>2, <1>1
  <2> QED BY <2>1, <2>2, <1>1
<1>7. r \in D /\ D \subseteq A /\ dep \in [D -> Nat]
  BY DEF TreeOk
<1> QED BY <1>1, <1>3, <1>4, <1>5, <1>6, <1>7 DEF TreeOk, KidType, K1

(* A new directory is one level below the one that it is in.               *)
LEMMA TreeAddsDir ==
    ASSUME NEW r, NEW A, NEW D, NEW K, NEW dep, TreeOk(r, A, D, K, dep),
           NEW y, y \notin DOMAIN K, NEW k, k \in [in : D, name : Names, dir : BOOLEAN, node : A \cup {CLUSTER_FREE}],
           k.dir, Fresh(A, D, K, k.node), NewIn(K, k.in, k.name)
    PROVE  \E dep2 : TreeOk(r, A, D \cup {k.node}, AddK(K, y, k), dep2)
<1> DEFINE K1 == AddK(K, y, k)
           v == k.node
           E == D \cup {v}
           dep2 == [d \in E |-> IF d = v THEN dep[k.in] + 1 ELSE dep[d]]
<1>0. v \in A /\ v # CLUSTER_FREE /\ v \notin D /\ (\A x \in DOMAIN K : K[x].node # v) /\ k.in \in D /\ v \in E
  BY DEF Fresh
<1>1. /\ DOMAIN K1 = DOMAIN K \cup {y} /\ K1[y] = k
      /\ \A x \in DOMAIN K : x # y /\ K1[x] = K[x]
      /\ K1 = [x \in DOMAIN K1 |-> K1[x]]
  BY DEF AddK
<1>7. r \in D /\ D \subseteq A /\ dep \in [D -> Nat]
  BY DEF TreeOk
<1>8. /\ dep2 \in [E -> Nat]
      /\ dep2[v] = dep[k.in] + 1
      /\ \A d \in D : dep2[d] = dep[d]
  BY <1>0, <1>7
<1> HIDE DEF K1, v, dep2
<1>2. \A x \in DOMAIN K : KidType(r, A, D, K[x])
  BY DEF TreeOk, KidType
<1>3. ASSUME NEW x \in DOMAIN K1 PROVE KidType(r, A, E, K1[x])
  <2>1. CASE x \in DOMAIN K
    <3>1. KidType(r, A, D, K[x]) /\ K[x].node # v /\ K1[x] = K[x]
      BY <2>1, <1>0, <1>1, <1>2
    <3> QED BY <3>1 DEF KidType
  <2>2. CASE x = y
    BY <2>2, <1>0, <1>1, <1>7 DEF KidType, v
  <2> QED BY <2>1, <2>2, <1>1
<1>4. ASSUME NEW d \in E \ {r}
      PROVE  \E x \in DOMAIN K1 : K1[x].dir /\ K1[x].node = d /\ dep2[K1[x].in] < dep2[d]
  <2>1. CASE d = v
    <3>1. dep2[k.in] = dep[k.in] /\ dep[k.in] \in Nat
      BY <1>0, <1>7, <1>8
    <3>2. dep2[k.in] < dep2[d]
      BY <3>1, <2>1, <1>8
    <3> QED BY <2>1, <3>2, <1>1 DEF v
  <2>2. CASE d # v
    <3>1. PICK x \in DOMAIN K : K[x].dir /\ K[x].node = d /\ dep[K[x].in] < dep[d]
      BY <2>2 DEF TreeOk
    <3>2. K[x].in \in D /\ d \in D
      BY <2>2, <1>2 DEF KidType
    <3>3. dep2[K[x].in] < dep2[d]
      BY <3>1, <3>2, <1>8
    <3> QED BY <3>1, <3>3, <1>1
  <2> QED BY <2>1, <2>2
<1>5. \A x, z \in DOMAIN K1 : K1[x].in = K1[z].in /\ K1[x].name = K1[z].name => x = z
  <2> SUFFICES ASSUME NEW x \in DOMAIN K1, NEW z \in DOMAIN K1, K1[x].in = K1[z].in, K1[x].name = K1[z].name
               PROVE  x = z
    OBVIOUS
  <2>1. CASE x \in DOMAIN K /\ z \in DOMAIN K
    BY <2>1, <1>1 DEF TreeOk
  <2>2. CASE x = y /\ z \in DOMAIN K
    BY <2>2, <1>1 DEF NewIn
  <2>3. CASE z = y /\ x \in DOMAIN K
    BY <2>3, <1>1 DEF NewIn
  <2> QED BY <2>1, <2>2, <2>3, <1>1
<1>6. \A x, z \in DOMAIN K1 : K1[x].node = K1[z].node => x = z \/ K1[x].node = CLUSTER_FREE
  <2> SUFFICES ASSUME NEW x \in DOMAIN K1, NEW z \in DOMAIN K1, K1[x].node = K1[z].node
               PROVE  x = z \/ K1[x].node = CLUSTER_FREE
    OBVIOUS
  <2>1. CASE x \in DOMAIN K /\ z \in DOMAIN K
    BY <2>1, <1>1 DEF TreeOk
  <2>2. CASE (x = y /\ z \in DOMAIN K) \/ (z = y /\ x \in DOMAIN K)
    BY <2>2, <1>0, <1>1 DEF v
  <2> QED BY <2>1, <2>2, <1>1
<1>9. TreeOk(r, A, E, K1, dep2)
  BY <1>0, <1>1, <1>3, <1>4, <1>5, <1>6, <1>7, <1>8 DEF TreeOk, KidType
<1> QED BY <1>9 DEF K1, v

(* A file goes.                                                            *)
LEMMA TreeDropsFile ==
    ASSUME NEW r, NEW A, NEW D, NEW K, NEW dep, TreeOk(r, A, D, K, dep), NEW x \in DOMAIN K, ~K[x].dir
    PROVE  TreeOk(r, A, D, DropK(K, x), dep)
<1> DEFINE K1 == DropK(K, x)
<1>1. /\ DOMAIN K1 = DOMAIN K \ {x}
      /\ \A y \in DOMAIN K1 : y \in DOMAIN K /\ K1[y] = K[y]
      /\ K1 = [y \in DOMAIN K1 |-> K1[y]]
  BY DEF DropK
<1> HIDE DEF K1
<1>2. \A d \in D \ {r} : \E y \in DOMAIN K1 : K1[y].dir /\ K1[y].node = d /\ dep[K1[y].in] < dep[d]
  <2> TAKE d \in D \ {r}
  <2>1. PICK y \in DOMAIN K : K[y].dir /\ K[y].node = d /\ dep[K[y].in] < dep[d]
    BY DEF TreeOk
  <2> QED BY <2>1, <1>1
<1>3. \A y \in DOMAIN K1 : KidType(r, A, D, K1[y])
  BY <1>1 DEF TreeOk, KidType
<1>4. /\ \A y, z \in DOMAIN K1 : K1[y].in = K1[z].in /\ K1[y].name = K1[z].name => y = z
      /\ \A y, z \in DOMAIN K1 : K1[y].node = K1[z].node => y = z \/ K1[y].node = CLUSTER_FREE
  BY <1>1 DEF TreeOk
<1>5. r \in D /\ D \subseteq A /\ dep \in [D -> Nat]
  BY DEF TreeOk
<1> QED BY <1>1, <1>2, <1>3, <1>4, <1>5 DEF TreeOk, KidType, K1

(* A directory with no kids goes.                                          *)
LEMMA TreeDropsDir ==
    ASSUME NEW r, NEW A, NEW D, NEW K, NEW dep, TreeOk(r, A, D, K, dep), NEW x \in DOMAIN K, K[x].dir,
           K[x].node # CLUSTER_FREE, \A y \in DOMAIN K : K[y].in # K[x].node
    PROVE  TreeOk(r, A, D \ {K[x].node}, DropK(K, x), [d \in D \ {K[x].node} |-> dep[d]])
<1> DEFINE K1 == DropK(K, x)
           v == K[x].node
           E == D \ {v}
           dep2 == [d \in E |-> dep[d]]
<1>1. /\ DOMAIN K1 = DOMAIN K \ {x}
      /\ \A y \in DOMAIN K1 : y \in DOMAIN K /\ K1[y] = K[y]
      /\ K1 = [y \in DOMAIN K1 |-> K1[y]]
  BY DEF DropK
<1>5. r \in D /\ D \subseteq A /\ dep \in [D -> Nat] /\ v \in D /\ v # r /\ v # CLUSTER_FREE
  BY DEF TreeOk
<1>6. dep2 \in [E -> Nat] /\ \A d \in E : dep2[d] = dep[d]
  BY <1>5
<1> HIDE DEF K1, v, dep2
<1>2. ASSUME NEW d \in E \ {r}
      PROVE  \E y \in DOMAIN K1 : K1[y].dir /\ K1[y].node = d /\ dep2[K1[y].in] < dep2[d]
  <2>1. PICK y \in DOMAIN K : K[y].dir /\ K[y].node = d /\ dep[K[y].in] < dep[d]
    BY DEF TreeOk
  <2>2. y # x /\ K[y].in \in D /\ K[y].in # v
    BY <2>1 DEF v, TreeOk
  <2> QED BY <2>1, <2>2, <1>1, <1>6
<1>3. ASSUME NEW y \in DOMAIN K1 PROVE KidType(r, A, E, K1[y])
  <2>1. y \in DOMAIN K /\ K1[y] = K[y] /\ y # x
    BY <1>1
  <2>2. KidType(r, A, D, K[y])
    BY <2>1 DEF TreeOk, KidType
  <2>3. K[y].node # v /\ K[y].in # v
    BY <2>1, <1>5 DEF TreeOk, v
  <2> QED BY <2>1, <2>2, <2>3 DEF KidType
<1>4. /\ \A y, z \in DOMAIN K1 : K1[y].in = K1[z].in /\ K1[y].name = K1[z].name => y = z
      /\ \A y, z \in DOMAIN K1 : K1[y].node = K1[z].node => y = z \/ K1[y].node = CLUSTER_FREE
  BY <1>1 DEF TreeOk
<1>7. TreeOk(r, A, E, K1, dep2)
  BY <1>1, <1>2, <1>3, <1>4, <1>5, <1>6 DEF TreeOk, KidType
<1> QED BY <1>7 DEF K1, v, dep2

(* A file gets contents or loses them.                                     *)
LEMMA TreeSets ==
    ASSUME NEW r, NEW A, NEW D, NEW K, NEW dep, TreeOk(r, A, D, K, dep), NEW x \in DOMAIN K, ~K[x].dir,
           NEW v, v = CLUSTER_FREE \/ Fresh(A, D, K, v)
    PROVE  TreeOk(r, A, D, SetNode(K, x, v), dep)
<1> DEFINE K1 == SetNode(K, x, v)
<1>0. K[x] \in [in : D, name : Names, dir : BOOLEAN, node : A \cup {CLUSTER_FREE}]
  BY DEF TreeOk
<1>1. /\ DOMAIN K1 = DOMAIN K
      /\ \A y \in DOMAIN K : y # x => K1[y] = K[y]
      /\ K1[x] = [K[x] EXCEPT !.node = v]
      /\ K1 = [y \in DOMAIN K1 |-> K1[y]]
  BY DEF SetNode
<1>2. K1[x].in = K[x].in /\ K1[x].name = K[x].name /\ K1[x].dir = K[x].dir /\ K1[x].node = v
      /\ K1[x] \in [in : D, name : Names, dir : BOOLEAN, node : A \cup {CLUSTER_FREE}]
  BY <1>0, <1>1 DEF Fresh
<1> HIDE DEF K1
<1>3. \A y \in DOMAIN K1 : KidType(r, A, D, K1[y])
  <2> TAKE y \in DOMAIN K1
  <2>1. CASE y = x
    BY <2>1, <1>2 DEF KidType, Fresh
  <2>2. CASE y # x
    BY <2>2, <1>1 DEF KidType, TreeOk
  <2> QED BY <2>1, <2>2
<1>4. \A d \in D \ {r} : \E y \in DOMAIN K1 : K1[y].dir /\ K1[y].node = d /\ dep[K1[y].in] < dep[d]
  <2> TAKE d \in D \ {r}
  <2>1. PICK y \in DOMAIN K : K[y].dir /\ K[y].node = d /\ dep[K[y].in] < dep[d]
    BY DEF TreeOk
  <2> QED BY <2>1, <1>1
<1>5. \A y, z \in DOMAIN K1 : K1[y].in = K1[z].in /\ K1[y].name = K1[z].name => y = z
  <2>1. \A y \in DOMAIN K1 : y \in DOMAIN K /\ K1[y].in = K[y].in /\ K1[y].name = K[y].name
    BY <1>1, <1>2
  <2> QED BY <2>1 DEF TreeOk
<1>6. \A y, z \in DOMAIN K1 : K1[y].node = K1[z].node => y = z \/ K1[y].node = CLUSTER_FREE
  <2>1. \A y \in DOMAIN K : y # x => K[y].node # v \/ v = CLUSTER_FREE
    BY DEF Fresh
  <2> SUFFICES ASSUME NEW y \in DOMAIN K1, NEW z \in DOMAIN K1, K1[y].node = K1[z].node
               PROVE  y = z \/ K1[y].node = CLUSTER_FREE
    OBVIOUS
  <2>2. CASE y # x /\ z # x
    BY <2>2, <1>1 DEF TreeOk
  <2>3. CASE y = x \/ z = x
    BY <2>1, <2>3, <1>1, <1>2
  <2> QED BY <2>2, <2>3
<1>7. r \in D /\ D \subseteq A /\ dep \in [D -> Nat]
  BY DEF TreeOk
<1> QED BY <1>1, <1>3, <1>4, <1>5, <1>6, <1>7 DEF TreeOk, KidType, K1

(* A kid moves: a directory within the one that it is in.                  *)
LEMMA TreeMoves ==
    ASSUME NEW r, NEW A, NEW D, NEW K, NEW dep, TreeOk(r, A, D, K, dep), NEW x \in DOMAIN K,
           NEW y, y \notin DOMAIN K, NEW k, k \in [in : D, name : Names, dir : BOOLEAN, node : A \cup {CLUSTER_FREE}],
           k.dir = K[x].dir, k.node = K[x].node, k.dir => k.in = K[x].in, NewIn(K, k.in, k.name)
    PROVE  TreeOk(r, A, D, DropK(AddK(K, y, k), x), dep)
<1> DEFINE K1 == DropK(AddK(K, y, k), x)
<1>1. /\ DOMAIN K1 = (DOMAIN K \cup {y}) \ {x} /\ K1[y] = k /\ x # y
      /\ \A z \in DOMAIN K : z # x => z # y /\ K1[z] = K[z]
      /\ K1 = [z \in DOMAIN K1 |-> K1[z]]
  BY DEF AddK, DropK
<1> HIDE DEF K1
<1>2. \A z \in DOMAIN K : KidType(r, A, D, K[z])
  BY DEF TreeOk, KidType
<1>3. \A z \in DOMAIN K1 : KidType(r, A, D, K1[z])
  <2> TAKE z \in DOMAIN K1
  <2>1. CASE z = y
    <3>1. KidType(r, A, D, K[x])
      BY <1>2
    <3> QED BY <2>1, <3>1, <1>1 DEF KidType
  <2>2. CASE z # y
    BY <2>2, <1>1, <1>2
  <2> QED BY <2>1, <2>2
<1>4. \A d \in D \ {r} : \E z \in DOMAIN K1 : K1[z].dir /\ K1[z].node = d /\ dep[K1[z].in] < dep[d]
  <2> TAKE d \in D \ {r}
  <2>1. PICK z \in DOMAIN K : K[z].dir /\ K[z].node = d /\ dep[K[z].in] < dep[d]
    BY DEF TreeOk
  <2>2. CASE z = x
    BY <2>1, <2>2, <1>1
  <2>3. CASE z # x
    BY <2>1, <2>3, <1>1
  <2> QED BY <2>2, <2>3
<1>5. \A w, z \in DOMAIN K1 : K1[w].in = K1[z].in /\ K1[w].name = K1[z].name => w = z
  <2> SUFFICES ASSUME NEW w \in DOMAIN K1, NEW z \in DOMAIN K1, K1[w].in = K1[z].in, K1[w].name = K1[z].name
               PROVE  w = z
    OBVIOUS
  <2>1. CASE w # y /\ z # y
    BY <2>1, <1>1 DEF TreeOk
  <2>2. CASE w = y /\ z # y
    BY <2>2, <1>1 DEF NewIn
  <2>3. CASE z = y /\ w # y
    BY <2>3, <1>1 DEF NewIn
  <2> QED BY <2>1, <2>2, <2>3
<1>6. \A w, z \in DOMAIN K1 : K1[w].node = K1[z].node => w = z \/ K1[w].node = CLUSTER_FREE
  <2> SUFFICES ASSUME NEW w \in DOMAIN K1, NEW z \in DOMAIN K1, K1[w].node = K1[z].node
               PROVE  w = z \/ K1[w].node = CLUSTER_FREE
    OBVIOUS
  <2>1. CASE w # y /\ z # y
    BY <2>1, <1>1 DEF TreeOk
  <2>2. CASE w = y /\ z # y
    <3>1. K[x].node = K[z].node /\ z # x /\ z \in DOMAIN K
      BY <2>2, <1>1
    <3> QED BY <3>1, <2>2, <1>1 DEF TreeOk
  <2>3. CASE z = y /\ w # y
    <3>1. K[x].node = K[w].node /\ w # x /\ w \in DOMAIN K
      BY <2>3, <1>1
    <3> QED BY <3>1, <2>3, <1>1 DEF TreeOk
  <2> QED BY <2>1, <2>2, <2>3
<1>7. r \in D /\ D \subseteq A /\ dep \in [D -> Nat]
  BY DEF TreeOk
<1> QED BY <1>1, <1>3, <1>4, <1>5, <1>6, <1>7 DEF TreeOk, KidType, K1

-----------------------------------------------------------------------------
(* Open files *)

(* The nodes of the kids when a kid comes, goes or changes.                *)
LEMMA NodesAdd ==
    ASSUME NEW K, NEW y, y \notin DOMAIN K, NEW k
    PROVE  NodesOf(AddK(K, y, k)) = NodesOf(K) \cup ({k.node} \ {CLUSTER_FREE})
BY DEF NodesOf, AddK

(* A kid that goes takes its node along.                                   *)
LEMMA NodesDrop ==
    ASSUME NEW r, NEW A, NEW D, NEW K, NEW dep, TreeOk(r, A, D, K, dep), NEW x \in DOMAIN K
    PROVE  NodesOf(DropK(K, x)) = NodesOf(K) \ {K[x].node}
<1>1. \A y, z \in DOMAIN K : K[y].node = K[z].node => y = z \/ K[y].node = CLUSTER_FREE
  BY DEF TreeOk
<1>2. /\ DOMAIN DropK(K, x) = DOMAIN K \ {x}
      /\ \A y \in DOMAIN K \ {x} : DropK(K, x)[y] = K[y]
  BY DEF DropK
<1>3. ASSUME NEW v \in NodesOf(K) \ {K[x].node} PROVE v \in NodesOf(DropK(K, x))
  <2>1. PICK y \in DOMAIN K : v = K[y].node
    BY DEF NodesOf
  <2>2. y # x
    BY <2>1
  <2> QED BY <2>1, <2>2, <1>2 DEF NodesOf
<1>4. ASSUME NEW v \in NodesOf(DropK(K, x)) PROVE v \in NodesOf(K) \ {K[x].node}
  <2>1. PICK y \in DOMAIN K \ {x} : v = K[y].node
    BY <1>2 DEF NodesOf
  <2>2. v # CLUSTER_FREE
    BY DEF NodesOf
  <2> QED BY <2>1, <2>2, <1>1 DEF NodesOf
<1> QED BY <1>3, <1>4

(* A file that gets other contents.                                        *)
LEMMA NodesSet ==
    ASSUME NEW r, NEW A, NEW D, NEW K, NEW dep, TreeOk(r, A, D, K, dep), NEW x \in DOMAIN K, NEW v
    PROVE  NodesOf(SetNode(K, x, v)) = (NodesOf(K) \ {K[x].node}) \cup ({v} \ {CLUSTER_FREE})
<1>1. \A y, z \in DOMAIN K : K[y].node = K[z].node => y = z \/ K[y].node = CLUSTER_FREE
  BY DEF TreeOk
<1>2. K[x] \in [in : D, name : Names, dir : BOOLEAN, node : A \cup {CLUSTER_FREE}]
  BY DEF TreeOk
<1> DEFINE K1 == SetNode(K, x, v)
<1>3. /\ DOMAIN K1 = DOMAIN K
      /\ \A y \in DOMAIN K \ {x} : K1[y] = K[y]
      /\ K1[x] = [K[x] EXCEPT !.node = v]
  BY DEF SetNode
<1>4. K1[x].node = v
  BY <1>2, <1>3
<1> HIDE DEF K1
<1>5. ASSUME NEW w \in NodesOf(K1) PROVE w \in (NodesOf(K) \ {K[x].node}) \cup ({v} \ {CLUSTER_FREE})
  <2>1. w # CLUSTER_FREE /\ \E y \in DOMAIN K : w = K1[y].node
    BY <1>3 DEF NodesOf
  <2>2. PICK y \in DOMAIN K : w = K1[y].node
    BY <2>1
  <2>3. CASE y = x
    BY <2>1, <2>2, <2>3, <1>4
  <2>4. CASE y # x
    <3>1. w = K[y].node
      BY <2>2, <2>4, <1>3
    <3> QED BY <2>1, <2>4, <3>1, <1>1 DEF NodesOf
  <2> QED BY <2>3, <2>4
<1>6. ASSUME NEW w \in NodesOf(K) \ {K[x].node} PROVE w \in NodesOf(K1)
  <2>1. PICK y \in DOMAIN K : w = K[y].node
    BY DEF NodesOf
  <2>2. y # x
    BY <2>1
  <2> QED BY <2>1, <2>2, <1>3 DEF NodesOf
<1>7. v # CLUSTER_FREE => v \in NodesOf(K1)
  BY <1>3, <1>4 DEF NodesOf
<1> QED BY <1>5, <1>6, <1>7 DEF K1

-----------------------------------------------------------------------------
(* The slots t give the kids of K the clusters that s gives them.          *)
SameClusters(s, t, K) == \A x \in DOMAIN K : t[x[1]][x[2]].cluster = s[x[1]][x[2]].cluster

(* Handle h is the only one that changes.                                  *)
OnlyHandle(fs, gs, h) == \A g \in Handles : g # h => gs[g] = fs[g]

(* Nothing that concerns an open file changes.                             *)
LEMMA HandlesStay ==
    ASSUME NEW fs, NEW s, NEW t, NEW K, HandlesOk(fs, s, K), SameClusters(s, t, K)
    PROVE  HandlesOk(fs, t, K)
BY DEF HandlesOk, SameClusters

(* A file is opened.                                                       *)
LEMMA HandleOpens ==
    ASSUME NEW fs, NEW gs, NEW s, NEW K, HandlesOk(fs, s, K),
           NEW h \in Handles, ~fs[h].inUse, OnlyHandle(fs, gs, h),
           NEW x \in DOMAIN K, ~K[x].dir, gs[h].at = x, gs[h].startCluster = K[x].node,
           s[x[1]][x[2]].cluster = K[x].node,
           \A g \in Handles : fs[g].inUse /\ fs[g].at = x => ~fs[g].write /\ ~gs[h].write
    PROVE  HandlesOk(gs, s, K)
<1>1. ASSUME NEW g \in Handles, gs[g].inUse
      PROVE  /\ gs[g].at \in DOMAIN K /\ ~K[gs[g].at].dir
             /\ gs[g].write =>
                  /\ K[gs[g].at].node = gs[g].startCluster
                  /\ \A f \in Handles : f # g /\ gs[f].inUse => gs[f].at # gs[g].at
             /\ (gs[g].write /\ gs[g].modified) \/ s[gs[g].at[1]][gs[g].at[2]].cluster = gs[g].startCluster
  <2>1. CASE g = h
    BY <2>1 DEF OnlyHandle
  <2>2. CASE g # h
    <3>1. gs[g] = fs[g]
      BY <2>2 DEF OnlyHandle
    <3>2. /\ fs[g].at \in DOMAIN K /\ ~K[fs[g].at].dir
          /\ fs[g].write =>
               /\ K[fs[g].at].node = fs[g].startCluster
               /\ \A f \in Handles : f # g /\ fs[f].inUse => fs[f].at # fs[g].at
          /\ (fs[g].write /\ fs[g].modified) \/ s[fs[g].at[1]][fs[g].at[2]].cluster = fs[g].startCluster
      BY <1>1, <3>1 DEF HandlesOk
    <3>3. ASSUME fs[g].write, NEW f \in Handles, f # g, gs[f].inUse PROVE gs[f].at # gs[g].at
      BY <3>1, <3>2, <3>3, <1>1 DEF OnlyHandle
    <3> QED BY <3>1, <3>2, <3>3
  <2> QED BY <2>1, <2>2
<1>2. ASSUME NEW y \in DOMAIN K
      PROVE  (\E g \in Handles : gs[g].inUse /\ gs[g].write /\ gs[g].at = y) \/ s[y[1]][y[2]].cluster = K[y].node
  <2>1. CASE \E g \in Handles : fs[g].inUse /\ fs[g].write /\ fs[g].at = y
    <3>1. PICK g \in Handles : fs[g].inUse /\ fs[g].write /\ fs[g].at = y
      BY <2>1
    <3>2. gs[g] = fs[g]
      BY <3>1 DEF OnlyHandle
    <3> QED BY <3>1, <3>2
  <2>2. CASE s[y[1]][y[2]].cluster = K[y].node
    BY <2>2
  <2> QED BY <2>1, <2>2 DEF HandlesOk
<1> QED BY <1>1, <1>2 DEF HandlesOk

(* A writer gives its file other contents.                                 *)
LEMMA HandleWrites ==
    ASSUME NEW fs, NEW gs, NEW s, NEW t, NEW K, HandlesOk(fs, s, K), SameClusters(s, t, K),
           NEW h \in Handles, fs[h].inUse, fs[h].write, OnlyHandle(fs, gs, h),
           gs[h].inUse, gs[h].write, gs[h].modified, gs[h].at = fs[h].at,
           K[fs[h].at] \in [in : {K[fs[h].at].in}, name : {K[fs[h].at].name}, dir : {K[fs[h].at].dir}, node : {K[fs[h].at].node}]
    PROVE  HandlesOk(gs, t, SetNode(K, fs[h].at, gs[h].startCluster))
<1> DEFINE x == fs[h].at
           v == gs[h].startCluster
           K1 == SetNode(K, x, v)
<1>1. x \in DOMAIN K /\ ~K[x].dir /\ \A g \in Handles : g # h /\ fs[g].inUse => fs[g].at # x
  BY DEF HandlesOk
<1>2. /\ DOMAIN K1 = DOMAIN K
      /\ \A y \in DOMAIN K \ {x} : K1[y] = K[y]
      /\ K1[x] = [K[x] EXCEPT !.node = v]
  BY <1>1 DEF SetNode
<1>3. K1[x].node = v /\ K1[x].dir = K[x].dir
  BY <1>2
<1> HIDE DEF K1, v
<1>4. ASSUME NEW g \in Handles, gs[g].inUse
      PROVE  /\ gs[g].at \in DOMAIN K1 /\ ~K1[gs[g].at].dir
             /\ gs[g].write =>
                  /\ K1[gs[g].at].node = gs[g].startCluster
                  /\ \A f \in Handles : f # g /\ gs[f].inUse => gs[f].at # gs[g].at
             /\ (gs[g].write /\ gs[g].modified) \/ t[gs[g].at[1]][gs[g].at[2]].cluster = gs[g].startCluster
  <2>1. CASE g = h
    <3>1. \A f \in Handles : f # g /\ gs[f].inUse => gs[f].at # gs[g].at
      BY <2>1, <1>1 DEF OnlyHandle
    <3> QED BY <2>1, <3>1, <1>1, <1>2, <1>3 DEF v
  <2>2. CASE g # h
    <3>1. gs[g] = fs[g]
      BY <2>2 DEF OnlyHandle
    <3>2. /\ fs[g].at \in DOMAIN K /\ ~K[fs[g].at].dir
          /\ fs[g].write =>
               /\ K[fs[g].at].node = fs[g].startCluster
               /\ \A f \in Handles : f # g /\ fs[f].inUse => fs[f].at # fs[g].at
          /\ (fs[g].write /\ fs[g].modified) \/ s[fs[g].at[1]][fs[g].at[2]].cluster = fs[g].startCluster
      BY <1>4, <3>1 DEF HandlesOk
    <3>3. fs[g].at # x
      BY <1>1, <1>4, <2>2, <3>1
    <3>4. K1[gs[g].at] = K[fs[g].at] /\ t[fs[g].at[1]][fs[g].at[2]].cluster = s[fs[g].at[1]][fs[g].at[2]].cluster
      BY <3>1, <3>2, <3>3, <1>2 DEF SameClusters
    <3>5. ASSUME fs[g].write, NEW f \in Handles, f # g, gs[f].inUse PROVE gs[f].at # gs[g].at
      BY <3>1, <3>2, <3>3, <3>5, <1>4 DEF OnlyHandle
    <3> QED BY <3>1, <3>2, <3>4, <3>5, <1>2
  <2> QED BY <2>1, <2>2
<1>5. ASSUME NEW y \in DOMAIN K1
      PROVE  (\E g \in Handles : gs[g].inUse /\ gs[g].write /\ gs[g].at = y) \/ t[y[1]][y[2]].cluster = K1[y].node
  <2>1. CASE y = x
    BY <2>1
  <2>2. CASE y # x
    <3>1. K1[y] = K[y] /\ t[y[1]][y[2]].cluster = s[y[1]][y[2]].cluster /\ y \in DOMAIN K
      BY <2>2, <1>2 DEF SameClusters
    <3>2. CASE \E g \in Handles : fs[g].inUse /\ fs[g].write /\ fs[g].at = y
      <4>1. PICK g \in Handles : fs[g].inUse /\ fs[g].write /\ fs[g].at = y
        BY <3>2
      <4>2. g # h /\ gs[g] = fs[g]
        BY <4>1, <2>2 DEF OnlyHandle
      <4> QED BY <4>1, <4>2
    <3>3. CASE s[y[1]][y[2]].cluster = K[y].node
      BY <3>1, <3>3
    <3> QED BY <3>1, <3>2, <3>3 DEF HandlesOk
  <2> QED BY <2>1, <2>2
<1>6. HandlesOk(gs, t, K1)
  BY <1>4, <1>5 DEF HandlesOk
<1> QED BY <1>6 DEF K1, v

(* The start cluster of an open file goes to its entry, and perhaps the    *)
(* file is closed.                                                         *)
Synced(fs, h, s, t, K) ==
    \A y \in DOMAIN K :
        t[y[1]][y[2]].cluster = IF fs[h].write /\ fs[h].modified /\ y = fs[h].at THEN fs[h].startCluster
                                ELSE s[y[1]][y[2]].cluster

(* A handle that has written its entry, or has closed, is in order.        *)
LEMMA HandleSyncs ==
    ASSUME NEW fs, NEW gs, NEW s, NEW t, NEW K, HandlesOk(fs, s, K),
           NEW h \in Handles, fs[h].inUse, OnlyHandle(fs, gs, h), Synced(fs, h, s, t, K),
           \/ ~gs[h].inUse
           \/ gs[h].write = fs[h].write /\ gs[h].at = fs[h].at /\ gs[h].startCluster = fs[h].startCluster /\ gs[h].inUse
    PROVE  HandlesOk(gs, t, K)
<1> DEFINE x == fs[h].at
<1>1. /\ x \in DOMAIN K /\ ~K[x].dir
      /\ fs[h].write =>
           /\ K[x].node = fs[h].startCluster
           /\ \A g \in Handles : g # h /\ fs[g].inUse => fs[g].at # x
      /\ (fs[h].write /\ fs[h].modified) \/ s[x[1]][x[2]].cluster = fs[h].startCluster
  BY DEF HandlesOk
<1>2. t[x[1]][x[2]].cluster = fs[h].startCluster
  BY <1>1 DEF Synced
<1>3. ASSUME NEW g \in Handles, gs[g].inUse
      PROVE  /\ gs[g].at \in DOMAIN K /\ ~K[gs[g].at].dir
             /\ gs[g].write =>
                  /\ K[gs[g].at].node = gs[g].startCluster
                  /\ \A f \in Handles : f # g /\ gs[f].inUse => gs[f].at # gs[g].at
             /\ (gs[g].write /\ gs[g].modified) \/ t[gs[g].at[1]][gs[g].at[2]].cluster = gs[g].startCluster
  <2>1. CASE g = h
    <3>1. ASSUME fs[h].write, NEW f \in Handles, f # g, gs[f].inUse PROVE gs[f].at # gs[g].at
      BY <2>1, <3>1, <1>1, <1>3 DEF OnlyHandle
    <3> QED BY <2>1, <3>1, <1>1, <1>2, <1>3
  <2>2. CASE g # h
    <3>1. gs[g] = fs[g]
      BY <2>2 DEF OnlyHandle
    <3>2. /\ fs[g].at \in DOMAIN K /\ ~K[fs[g].at].dir
          /\ fs[g].write =>
               /\ K[fs[g].at].node = fs[g].startCluster
               /\ \A f \in Handles : f # g /\ fs[f].inUse => fs[f].at # fs[g].at
          /\ (fs[g].write /\ fs[g].modified) \/ s[fs[g].at[1]][fs[g].at[2]].cluster = fs[g].startCluster
      BY <1>3, <3>1 DEF HandlesOk
    <3>3. fs[h].write => fs[g].at # x
      BY <1>1, <1>3, <2>2, <3>1
    <3>4. t[fs[g].at[1]][fs[g].at[2]].cluster = s[fs[g].at[1]][fs[g].at[2]].cluster
      BY <3>2, <3>3 DEF Synced
    <3>5. ASSUME fs[g].write, NEW f \in Handles, f # g, gs[f].inUse PROVE gs[f].at # gs[g].at
      <4>1. CASE f = h
        BY <3>1, <3>2, <3>5, <4>1
      <4>2. CASE f # h
        BY <3>1, <3>2, <3>5, <4>2 DEF OnlyHandle
      <4> QED BY <4>1, <4>2
    <3> QED BY <3>1, <3>2, <3>4, <3>5
  <2> QED BY <2>1, <2>2
<1>5. ASSUME NEW y \in DOMAIN K
      PROVE  (\E g \in Handles : gs[g].inUse /\ gs[g].write /\ gs[g].at = y) \/ t[y[1]][y[2]].cluster = K[y].node
  <2>1. CASE y = x /\ fs[h].write
    BY <2>1, <1>1, <1>2
  <2>2. CASE ~(y = x /\ fs[h].write)
    <3>1. t[y[1]][y[2]].cluster = s[y[1]][y[2]].cluster
      BY <2>2 DEF Synced
    <3>2. CASE \E g \in Handles : fs[g].inUse /\ fs[g].write /\ fs[g].at = y
      <4>1. PICK g \in Handles : fs[g].inUse /\ fs[g].write /\ fs[g].at = y
        BY <3>2
      <4>2. g # h /\ gs[g] = fs[g]
        BY <4>1, <2>2 DEF OnlyHandle
      <4> QED BY <4>1, <4>2
    <3>3. CASE s[y[1]][y[2]].cluster = K[y].node
      BY <3>1, <3>3
    <3> QED BY <3>1, <3>2, <3>3 DEF HandlesOk
  <2> QED BY <2>1, <2>2
<1> QED BY <1>3, <1>5 DEF HandlesOk

(* A kid that no open file is at goes.                                     *)
LEMMA HandlesDrop ==
    ASSUME NEW fs, NEW s, NEW t, NEW K, HandlesOk(fs, s, K),
           NEW x \in DOMAIN K, \A h \in Handles : fs[h].inUse => fs[h].at # x,
           SameClusters(s, t, DropK(K, x))
    PROVE  HandlesOk(fs, t, DropK(K, x))
<1>1. /\ DOMAIN DropK(K, x) = DOMAIN K \ {x}
      /\ \A y \in DOMAIN K \ {x} : DropK(K, x)[y] = K[y]
  BY DEF DropK
<1> QED BY <1>1 DEF HandlesOk, SameClusters

(* A kid with its node in its slot comes.                                  *)
LEMMA HandlesAdd ==
    ASSUME NEW fs, NEW s, NEW t, NEW K, HandlesOk(fs, s, K),
           NEW y, y \notin DOMAIN K, NEW k, t[y[1]][y[2]].cluster = k.node, SameClusters(s, t, K)
    PROVE  HandlesOk(fs, t, AddK(K, y, k))
<1>1. /\ DOMAIN AddK(K, y, k) = DOMAIN K \cup {y} /\ AddK(K, y, k)[y] = k
      /\ \A x \in DOMAIN K : AddK(K, y, k)[x] = K[x]
  BY DEF AddK
<1>2. ASSUME NEW h \in Handles, fs[h].inUse
      PROVE  /\ fs[h].at \in DOMAIN AddK(K, y, k) /\ ~AddK(K, y, k)[fs[h].at].dir
             /\ fs[h].write =>
                  /\ AddK(K, y, k)[fs[h].at].node = fs[h].startCluster
                  /\ \A g \in Handles : g # h /\ fs[g].inUse => fs[g].at # fs[h].at
             /\ (fs[h].write /\ fs[h].modified) \/ t[fs[h].at[1]][fs[h].at[2]].cluster = fs[h].startCluster
  BY <1>1, <1>2 DEF HandlesOk, SameClusters
<1>3. ASSUME NEW x \in DOMAIN K
      PROVE  (\E h \in Handles : fs[h].inUse /\ fs[h].write /\ fs[h].at = x) \/ t[x[1]][x[2]].cluster = AddK(K, y, k)[x].node
  BY <1>1 DEF HandlesOk, SameClusters
<1> QED BY <1>1, <1>2, <1>3 DEF HandlesOk

-----------------------------------------------------------------------------
(* The next picture *)

(* What follows from the picture for the steps.                            *)
LEMMA PictureFacts ==
    ASSUME NEW D, NEW C, NEW K, NEW dep, Picture(D, C, K, dep)
    PROVE  /\ Apart(Areas, C, D) /\ KidDirs(K, D) /\ TableType(Areas, fat)
           /\ D \subseteq DOMAIN C /\ D \subseteq Areas /\ rootDirCluster \in D
           /\ NodesOf(K) \subseteq DOMAIN C
           /\ Areas \ {CLUSTER_ROOT} = Clusters /\ Clusters \subseteq Areas
           /\ \A b \in Areas : Place(b) = b
           /\ CLUSTER_EOF \notin Areas
           /\ \A c \in DOMAIN C : C[c] \in Seq(Areas)
<1>0. /\ Types /\ ChainsOk(Areas, fat, C) /\ DirsOk(rootDirCluster, slots, C, D, K)
      /\ TreeOk(rootDirCluster, Areas, D, K, dep) /\ HeadsOk(lost, C, D, K)
  BY DEF Picture
<1>1. D \subseteq DOMAIN C /\ D \subseteq Areas /\ rootDirCluster \in D /\ NodesOf(K) \subseteq DOMAIN C
  BY <1>0 DEF TreeOk, HeadsOk
<1>2. (\A c \in DOMAIN C : C[c] \in Seq(Areas)) /\ Apart(Areas, C, D)
  BY <1>0, <1>1 DEF ChainsOk, Apart
<1>3. KidDirs(K, D)
  BY <1>0 DEF TreeOk, KidDirs
<1>4. Areas \ {CLUSTER_ROOT} = Clusters /\ Clusters \subseteq Areas
  BY <1>0, TreeConstants DEF Types, Areas, Clusters
<1>5. \A b \in Areas : Place(b) = b
  BY <1>0, TreeConstants DEF Types, Areas, Clusters, Place
<1>6. CLUSTER_EOF \notin Areas
  BY <1>0, TreeConstants DEF Types, Areas, Clusters
<1>7. Links = Areas \cup {CLUSTER_FREE, CLUSTER_EOF}
  BY <1>0, <1>4, TreeConstants DEF Links, CLUSTER_FREE, CLUSTER_ROOT, Areas
<1>8. TableType(Areas, fat)
  BY <1>0, <1>4, <1>6, <1>7 DEF TableType, Types
<1> QED BY <1>1, <1>2, <1>3, <1>4, <1>5, <1>6, <1>8

(* A table of this type is what Types asks for.                            *)
LEMMA TableTypes ==
    ASSUME NEW D, NEW C, NEW K, NEW dep, Picture(D, C, K, dep), NEW f
    PROVE  TableType(Areas, f) <=> f \in [Clusters -> Links]
<1>1. Areas \ {CLUSTER_ROOT} = Clusters /\ CLUSTER_EOF \notin Areas /\ Types
  BY PictureFacts DEF Picture
<1>2. Links = Areas \cup {CLUSTER_FREE, CLUSTER_EOF}
  BY <1>1, TreeConstants DEF Types, Links, Areas, Clusters, CLUSTER_FREE, CLUSTER_ROOT
<1> QED BY <1>1, <1>2 DEF TableType

(* A free cluster is in nobody's chain and holds no entry.                 *)
IsApart(C, D, K, g) ==
    /\ g \in Areas /\ g \in Clusters /\ g # CLUSTER_ROOT /\ fat[g] = CLUSTER_FREE
    /\ g \notin DOMAIN C /\ g \notin D /\ g \notin lost /\ g \notin NodesOf(K) /\ g # CLUSTER_FREE
    /\ Fresh(Areas, D, K, g)
    /\ \A c \in DOMAIN C : \A i \in 1 .. Len(C[c]) : C[c][i] # g
    /\ \A x \in DOMAIN K : x[1] # g

(* That is so of every free cluster.                                       *)
LEMMA FreeIsApart ==
    ASSUME NEW D, NEW C, NEW K, NEW dep, Picture(D, C, K, dep), NEW g \in FreeClusters
    PROVE  IsApart(C, D, K, g)
<1>0. /\ Types /\ ChainsOk(Areas, fat, C) /\ DirsOk(rootDirCluster, slots, C, D, K)
      /\ TreeOk(rootDirCluster, Areas, D, K, dep) /\ HeadsOk(lost, C, D, K)
  BY DEF Picture
<1>1. /\ Areas \ {CLUSTER_ROOT} = Clusters /\ D \subseteq DOMAIN C /\ NodesOf(K) \subseteq DOMAIN C
      /\ TableType(Areas, fat)
  BY PictureFacts
<1>2. g \in Clusters /\ g \in Areas /\ g # CLUSTER_ROOT /\ fat[g] = CLUSTER_FREE
  BY <1>1 DEF FreeClusters
<1>3. \A c \in DOMAIN C : \A i \in 1 .. Len(C[c]) : C[c][i] # g
  BY <1>0, <1>2, FreeOutside
<1>4. g \notin DOMAIN C
  BY <1>0, <1>1, <1>2, ChainBegins
<1>5. g # CLUSTER_FREE
  BY <1>2 DEF CLUSTER_ROOT, CLUSTER_FREE
<1>6. \A x \in DOMAIN K : x[1] # g
  <2> TAKE x \in DOMAIN K
  <2>1. PICK i \in 1 .. Len(C[K[x].in]), k \in 1 .. SlotsPerCluster : x = <<C[K[x].in][i], k>>
    BY <1>0 DEF DirsOk, KidsOk
  <2>2. K[x].in \in DOMAIN C
    BY <1>0, <1>1 DEF DirsOk, KidsOk
  <2> QED BY <2>1, <2>2, <1>3
<1>7. Fresh(Areas, D, K, g)
  BY <1>1, <1>2, <1>4, <1>5 DEF Fresh, NodesOf
<1>8. g \notin lost
  BY <1>0, <1>4 DEF HeadsOk
<1> QED BY <1>1, <1>2, <1>3, <1>4, <1>5, <1>6, <1>7, <1>8 DEF IsApart

(* A slot is written.                                                      *)
LEMMA SlotPut ==
    ASSUME NEW A, NEW s, SlotsOk(A, s), NEW b \in A, NEW k \in 1 .. SlotsPerCluster, NEW e \in Slot(A)
    PROVE  SlotsOk(A, [s EXCEPT ![b][k] = e]) /\ Puts(A, s, [s EXCEPT ![b][k] = e], <<b, k>>, e)
<1> DEFINE t == [s EXCEPT ![b][k] = e]
<1>1. s \in [A -> [1 .. SlotsPerCluster -> Slot(A)]]
  BY DEF SlotsOk
<1>2. t \in [A -> [1 .. SlotsPerCluster -> Slot(A)]]
  BY <1>1
<1>3. \A a \in A, l \in 1 .. SlotsPerCluster : t[a][l] = IF a = b /\ l = k THEN e ELSE s[a][l]
  BY <1>1
<1>4. \A a \in A, l \in 1 .. SlotsPerCluster : <<a, l>> = <<b, k>> <=> a = b /\ l = k
  OBVIOUS
<1> QED BY <1>2, <1>3, <1>4 DEF SlotsOk, Puts

(* A cluster is cleared or written with data.                              *)
LEMMA SlotsClear ==
    ASSUME NEW A, NEW s, SlotsOk(A, s), NEW g \in A, NEW w \in [1 .. SlotsPerCluster -> Slot(A)]
    PROVE  /\ SlotsOk(A, [s EXCEPT ![g] = w]) /\ [s EXCEPT ![g] = w][g] = w
           /\ \A b \in A : b # g => [s EXCEPT ![g] = w][b] = s[b]
BY DEF SlotsOk

(* The slots of a cleared cluster and of one with data in it.              *)
LEMMA ClearedTypes ==
    ASSUME NEW A
    PROVE  Cleared \in [1 .. SlotsPerCluster -> Slot(A)] /\ Unread \in [1 .. SlotsPerCluster -> Slot(A)]
BY DEF Cleared, Unread, Slot

(* An entry is what a slot may hold.                                       *)
LEMMA EntryTypes ==
    ASSUME NEW A, NEW n \in Names \cup {".", ".."}, NEW d \in BOOLEAN, NEW ro \in BOOLEAN, NEW c \in A \cup {CLUSTER_FREE}
    PROVE  Entry(n, d, ro, c) \in Slot(A)
BY DEF Entry, Slot

(* What the new values must be for the picture to be one of the next state. *)
LEMMA Lands ==
    ASSUME NEW D, NEW C, NEW K, NEW dep, Types,
           rootDirCluster' = rootDirCluster, fat' \in [Clusters -> Links], SlotsOk(Areas, slots'),
           files' \in [Handles -> FileOk(Areas)], lost' \subseteq Clusters, cwdCluster' \in D,
           ChainsOk(Areas, fat', C), DirsOk(rootDirCluster, slots', C, D, K),
           TreeOk(rootDirCluster, Areas, D, K, dep), HeadsOk(lost', C, D, K), HandlesOk(files', slots', K)
    PROVE  Picture(D, C, K, dep)'
<1>1. Areas' = Areas /\ Clusters' = Clusters /\ Links' = Links
  BY DEF Areas, Clusters, Links
<1>2. Types'
  BY <1>1 DEF Types
<1>3. ChainsOk(Areas, fat, C)'
  BY <1>1 DEF ChainsOk
<1>4. DirsOk(rootDirCluster, slots, C, D, K)'
  <2>1. (\A d \in D : EndOk(slots, C[d]))'
    BY DEF DirsOk, EndOk
  <2>2. KidsOk(slots, C, D, K)'
    BY DEF DirsOk, KidsOk, IsKid
  <2>3. (\A x \in DOMAIN K : K[x].dir => DotsOk(slots, C[K[x].node], K[x].node, UpOf(rootDirCluster, K[x].in)))'
    BY Zenon DEF DirsOk, UpOf
  <2> QED BY <2>1, <2>2, <2>3 DEF DirsOk
<1>5. TreeOk(rootDirCluster, Areas, D, K, dep)'
  BY <1>1 DEF TreeOk
<1>6. HeadsOk(lost, C, D, K)' /\ HandlesOk(files, slots, K)'
  BY DEF HeadsOk, HandlesOk, NodesOf
<1> QED BY <1>2, <1>3, <1>4, <1>5, <1>6 DEF Picture

(* In the beginning the root is the only directory.                        *)
LEMMA InitPicture ==
    ASSUME Init
    PROVE  \E D, C, K, dep : Picture(D, C, K, dep) /\ DOMAIN K = {}
<1> DEFINE r == rootDirCluster
           D == {r}
           C == [c \in {r} |-> <<r>>]
           K == [x \in {} |-> <<>>]
           dep == [d \in {r} |-> 0]
<1>0. /\ r \in {CLUSTER_ROOT, RootCluster} /\ SlotsPerCluster \in Nat /\ SlotsPerCluster > 2
      /\ fat = [c \in Clusters |-> IF c = r THEN CLUSTER_EOF ELSE CLUSTER_FREE]
      /\ slots = [c \in Areas |-> IF c = r THEN Cleared ELSE Unread]
      /\ cwdCluster = r /\ files = [h \in Handles |-> Closed] /\ lost = {}
  BY TreeConstants DEF Init
<1>1. r \in Areas /\ CLUSTER_ROOT = CLUSTER_FREE
  BY DEF Areas, CLUSTER_ROOT, CLUSTER_FREE
<1>2. Areas \ {CLUSTER_ROOT} = Clusters /\ (r # CLUSTER_ROOT => r \in Clusters)
  BY <1>0, TreeConstants DEF Areas, Clusters
<1>3. /\ D = {r} /\ DOMAIN C = {r} /\ DOMAIN K = {} /\ DOMAIN dep = {r} /\ dep \in [D -> Nat]
      /\ C[r] = <<r>> /\ Len(C[r]) = 1 /\ C[r][1] = r /\ C[r] \in Seq(Areas) /\ C[r] # <<>>
      /\ K = [x \in DOMAIN K |-> K[x]]
  BY <1>1
<1> HIDE DEF D, C, K, dep
<1>4. Types
  <2>1. fat \in [Clusters -> Links]
    BY <1>0 DEF Links
  <2>2. SlotsOk(Areas, slots)
    BY <1>0, ClearedTypes DEF SlotsOk
  <2>3. Closed \in FileOk(Areas)
    BY <1>0 DEF Closed, FileOk
  <2> QED BY <1>0, <2>1, <2>2, <2>3 DEF Types
<1>5. ChainsOk(Areas, fat, C)
  <2>1. r # CLUSTER_ROOT => fat[r] = CLUSTER_EOF
    BY <1>0, <1>2
  <2>2. \A c \in Areas \ {CLUSTER_ROOT} : fat[c] # CLUSTER_FREE => c = r
    BY <1>0, <1>2
  <2>3. ASSUME NEW h \in DOMAIN C
        PROVE  /\ C[h] \in Seq(Areas) /\ C[h] # <<>> /\ C[h][1] = h
               /\ h = CLUSTER_ROOT => C[h] = <<CLUSTER_ROOT>>
               /\ h # CLUSTER_ROOT =>
                    \A i \in 1 .. Len(C[h]) :
                       /\ C[h][i] # CLUSTER_ROOT
                       /\ fat[C[h][i]] = IF i = Len(C[h]) THEN CLUSTER_EOF ELSE C[h][i + 1]
    <3>1. h = r
      BY <1>3
    <3>2. \A i \in 1 .. Len(C[h]) : i = 1 /\ i = Len(C[h]) /\ C[h][i] = r
      BY <3>1, <1>3
    <3> QED BY <3>1, <3>2, <1>3, <2>1
  <2>4. \A g, h \in DOMAIN C : \A i \in 1 .. Len(C[g]), j \in 1 .. Len(C[h]) : C[g][i] = C[h][j] => g = h /\ i = j
    BY <1>3
  <2>5. ASSUME NEW c \in Areas \ {CLUSTER_ROOT}, fat[c] # CLUSTER_FREE
        PROVE  \E h \in DOMAIN C : \E i \in 1 .. Len(C[h]) : C[h][i] = c
    <3>1. c = r /\ r \in DOMAIN C /\ 1 \in 1 .. Len(C[r]) /\ C[r][1] = c
      BY <1>3, <2>2, <2>5
    <3> QED BY <3>1
  <2> QED BY <2>3, <2>4, <2>5 DEF ChainsOk
<1>6. \A i \in 1 .. Len(C[r]), k \in 1 .. SlotsPerCluster : slots[C[r][i]][k] = DIR_ENTRY_LAST
  BY <1>0, <1>1, <1>3 DEF Cleared
<1>7. DirsOk(r, slots, C, D, K)
  BY <1>3, <1>6 DEF DirsOk, EndOk, KidsOk, IsKid, DIR_ENTRY_LAST
<1>8. TreeOk(r, Areas, D, K, dep)
  BY <1>1, <1>3 DEF TreeOk
<1>9. HeadsOk(lost, C, D, K)
  BY <1>0, <1>3 DEF HeadsOk, NodesOf
<1>10. HandlesOk(files, slots, K)
  BY <1>0, <1>3 DEF HandlesOk, Closed
<1>11. cwdCluster \in D
  BY <1>0, <1>3
<1> QED BY <1>3, <1>4, <1>5, <1>7, <1>8, <1>9, <1>10, <1>11 DEF Picture

-----------------------------------------------------------------------------
(* The state between the growth of directory c, if there is one, and the   *)
(* entry that goes into the gap: the table f, the slots s, the chains B.   *)
GrownOk(f, s, B, C, D, K, c, gap) ==
    /\ TableType(Areas, f) /\ SlotsOk(Areas, s)
    /\ ChainsOk(Areas, f, B) /\ DirsOk(rootDirCluster, s, B, D, K) /\ Apart(Areas, B, D) /\ HeadsOk(lost, B, D, K)
    /\ HasGap(s, B[c], gap.at)
    /\ gap.at = <<gap.at[1], gap.at[2]>> /\ gap.at[1] \in Areas /\ gap.at[2] \in 1 .. SlotsPerCluster
    /\ Place(gap.at[1]) = gap.at[1]
    /\ SameClusters(slots, s, K)
    /\ DOMAIN B = DOMAIN C
    /\ \A e : AddEntry(gap, e) = [s EXCEPT ![gap.at[1]][gap.at[2]] = e]
    /\ \A g \in FreeClusters : g # gap.grow =>
          /\ f[g] = CLUSTER_FREE /\ gap.at[1] # g
          /\ \A d \in DOMAIN B : \A i \in 1 .. Len(B[d]) : B[d][i] # g

(* The directory with room for the entry is in order: it has the gap that  *)
(* findEntryGap found, whether it had to grow or not.                      *)
LEMMA DirectoryGrows ==
    ASSUME NEW D, NEW C, NEW K, NEW dep, Picture(D, C, K, dep), NEW c \in D, NEW taken, NEW gap \in EntryGap(c, taken)
    PROVE  \E B : GrownOk(LinkGrown(c, gap), GrownSlots(slots, gap.grow), B, C, D, K, c, gap)
<1> DEFINE f == LinkGrown(c, gap)
           s == GrownSlots(slots, gap.grow)
           g == gap.grow
           B == IF g = CLUSTER_FREE THEN C ELSE [C EXCEPT ![c] = Append(C[c], g)]
<1>0. /\ Types /\ ChainsOk(Areas, fat, C) /\ DirsOk(rootDirCluster, slots, C, D, K)
      /\ TreeOk(rootDirCluster, Areas, D, K, dep) /\ HeadsOk(lost, C, D, K)
  BY DEF Picture
<1>1. /\ Apart(Areas, C, D) /\ KidDirs(K, D) /\ TableType(Areas, fat)
      /\ D \subseteq DOMAIN C /\ D \subseteq Areas /\ rootDirCluster \in D
      /\ Areas \ {CLUSTER_ROOT} = Clusters
      /\ \A b \in Areas : Place(b) = b
      /\ \A d \in DOMAIN C : C[d] \in Seq(Areas)
  BY PictureFacts
<1>2. GapOk(slots, C[c], c, gap, taken)
  BY GapRead
<1>3. g = CLUSTER_FREE \/ (g \in FreeClusters /\ c # CLUSTER_ROOT)
  BY <1>2 DEF GapOk
<1>4. HasGap(s, GrownChain(C[c], g), gap.at)
  BY <1>2 DEF GapOk
<1>5. \A e : AddEntry(gap, e) = [s EXCEPT ![Place(gap.at[1])][gap.at[2]] = e]
  BY DEF AddEntry, GrownSlots
<1>6. ASSUME g = CLUSTER_FREE
      PROVE  /\ TableType(Areas, f) /\ SlotsOk(Areas, s) /\ ChainsOk(Areas, f, B) /\ DirsOk(rootDirCluster, s, B, D, K)
             /\ Apart(Areas, B, D) /\ HeadsOk(lost, B, D, K) /\ SameClusters(slots, s, K)
             /\ DOMAIN B = DOMAIN C /\ B[c] = GrownChain(C[c], g)
             /\ \A b \in FreeClusters : f[b] = CLUSTER_FREE
             /\ \A d \in DOMAIN B : \A i \in 1 .. Len(B[d]) : B[d][i] \notin FreeClusters
  <2>1. f = fat /\ s = slots /\ B = C /\ GrownChain(C[c], g) = C[c]
    BY <1>6 DEF LinkGrown, GrownSlots, GrownChain
  <2>2. \A b \in FreeClusters : fat[b] = CLUSTER_FREE
    BY DEF FreeClusters
  <2>3. \A d \in DOMAIN C : \A i \in 1 .. Len(C[d]) : C[d][i] \notin FreeClusters
    BY FreeIsApart DEF IsApart
  <2> QED BY <2>1, <2>2, <2>3, <1>0, <1>1 DEF SameClusters, Types
<1>7. ASSUME g # CLUSTER_FREE
      PROVE  /\ TableType(Areas, f) /\ SlotsOk(Areas, s) /\ ChainsOk(Areas, f, B) /\ DirsOk(rootDirCluster, s, B, D, K)
             /\ Apart(Areas, B, D) /\ HeadsOk(lost, B, D, K) /\ SameClusters(slots, s, K)
             /\ DOMAIN B = DOMAIN C /\ B[c] = GrownChain(C[c], g)
             /\ \A b \in FreeClusters : b # g => f[b] = CLUSTER_FREE
             /\ \A d \in DOMAIN B : \A i \in 1 .. Len(B[d]) : B[d][i] \in FreeClusters => B[d][i] = g
  <2>1. g \in FreeClusters /\ c # CLUSTER_ROOT /\ c \in DOMAIN C
    BY <1>1, <1>3, <1>7
  <2>2. IsApart(C, D, K, g)
    BY <2>1, FreeIsApart
  <2>3. Chain(c) = C[c]
    BY <1>0, <2>1, ChainRead
  <2>4. /\ f = [fat EXCEPT ![C[c][Len(C[c])]] = g, ![g] = CLUSTER_EOF]
        /\ s = [slots EXCEPT ![g] = Cleared]
        /\ B = [C EXCEPT ![c] = Append(C[c], g)]
        /\ GrownChain(C[c], g) = Append(C[c], g)
    BY <1>7, <2>3 DEF LinkGrown, GrownSlots, GrownChain, LastCluster, Last
  <2>5. ChainsOk(Areas, f, B)
    <3>1. g \in Areas \ {CLUSTER_ROOT} /\ fat[g] = CLUSTER_FREE
      BY <2>2 DEF IsApart
    <3>2. ChainsOk(Areas, [fat EXCEPT ![C[c][Len(C[c])]] = g, ![g] = CLUSTER_EOF], [C EXCEPT ![c] = Append(C[c], g)])
      BY <3>1, <2>1, <1>0, <1>1, ChainGrows
    <3> QED BY <3>2, <2>4
  <2>6. TableType(Areas, f)
    BY <2>2, <2>4, <1>1 DEF TableType, IsApart
  <2>7. SlotsOk(Areas, s) /\ s[g] = Cleared /\ \A b \in Areas : b # g => s[b] = slots[b]
    BY <2>2, <2>4, <1>0, ClearedTypes, SlotsClear DEF IsApart, Types
  <2>8. /\ DOMAIN B = DOMAIN C /\ B[c] = Append(C[c], g)
        /\ \A d \in DOMAIN C : d # c => B[d] = C[d]
    BY <2>1, <2>4
  <2>9. DirsOk(rootDirCluster, s, B, D, K) /\ Apart(Areas, B, D)
    <3>1. \A d \in D : \A i \in 1 .. Len(C[d]) : C[d][i] # g
      BY <2>2, <1>1 DEF IsApart
    <3>2. \A d \in D : B[d] = IF d = c THEN Append(C[c], g) ELSE C[d]
      BY <2>8, <1>1
    <3>3. \A l \in 1 .. SlotsPerCluster : s[g][l] = DIR_ENTRY_LAST
      BY <2>7 DEF Cleared
    <3>4. g \in Areas
      BY <2>2 DEF IsApart
    <3>5. \A b \in Areas : b # g => s[b] = slots[b]
      BY <2>7
    <3>6. DirsOk(rootDirCluster, slots, C, D, K) /\ Apart(Areas, C, D) /\ KidDirs(K, D) /\ c \in D
      BY <1>0, <1>1
    <3> HIDE DEF f, s, B, g
    <3> QED BY <3>1, <3>2, <3>3, <3>4, <3>5, <3>6, DirGrows
  <2>10. HeadsOk(lost, B, D, K)
    <3>1. c \notin lost
      BY <1>0 DEF HeadsOk
    <3> QED BY <3>1, <2>8, <1>0 DEF HeadsOk
  <2>11. SameClusters(slots, s, K)
    <3> SUFFICES ASSUME NEW x \in DOMAIN K PROVE s[x[1]] = slots[x[1]]
      BY DEF SameClusters
    <3>1. x[1] \in Areas /\ x[1] # g
      BY <2>2, KidFields DEF IsApart
    <3> QED BY <3>1, <2>7
  <2>12. ASSUME NEW b \in FreeClusters, b # g
         PROVE  f[b] = CLUSTER_FREE /\ \A d \in DOMAIN B : \A i \in 1 .. Len(B[d]) : B[d][i] # b
    <3>1. IsApart(C, D, K, b)
      BY FreeIsApart
    <3>2. C[c][Len(C[c])] # b
      <4>1. Len(C[c]) \in 1 .. Len(C[c])
        BY <2>1, <1>0, ChainLinks
      <4> QED BY <4>1, <3>1, <2>1 DEF IsApart
    <3>3. f[b] = CLUSTER_FREE
      BY <2>4, <2>12, <3>1, <3>2, <1>1 DEF IsApart, TableType
    <3>4. ASSUME NEW d \in DOMAIN B, NEW i \in 1 .. Len(B[d]) PROVE B[d][i] # b
      <4>1. CASE d = c
        <5>1. (i \in 1 .. Len(C[c]) /\ B[d][i] = C[c][i]) \/ B[d][i] = g
          BY <4>1, <2>1, <2>8, <1>1
        <5> QED BY <5>1, <2>12, <3>1, <2>1 DEF IsApart
      <4>2. CASE d # c
        BY <4>2, <2>8, <3>1 DEF IsApart
      <4> QED BY <4>1, <4>2
    <3> QED BY <3>3, <3>4
  <2> QED BY <2>4, <2>5, <2>6, <2>7, <2>8, <2>9, <2>10, <2>11, <2>12
<1> HIDE DEF f, s, B
<1>8. /\ TableType(Areas, f) /\ SlotsOk(Areas, s) /\ ChainsOk(Areas, f, B) /\ DirsOk(rootDirCluster, s, B, D, K)
      /\ Apart(Areas, B, D) /\ HeadsOk(lost, B, D, K) /\ SameClusters(slots, s, K)
      /\ DOMAIN B = DOMAIN C /\ B[c] = GrownChain(C[c], g)
  BY <1>6, <1>7
<1>9. ASSUME NEW b \in FreeClusters, b # g
      PROVE  f[b] = CLUSTER_FREE /\ \A d \in DOMAIN B : \A i \in 1 .. Len(B[d]) : B[d][i] # b
  BY <1>6, <1>7, <1>9
<1>10. HasGap(s, B[c], gap.at)
  BY <1>4, <1>8
<1>11. PICK i \in 1 .. Len(B[c]), k \in 1 .. SlotsPerCluster : gap.at = <<B[c][i], k>>
  BY <1>10 DEF HasGap, GapAt
<1>12. B[c][i] \in Areas
  BY <1>8 DEF Apart
<1>13. /\ gap.at = <<gap.at[1], gap.at[2]>> /\ gap.at[1] \in Areas /\ gap.at[2] \in 1 .. SlotsPerCluster
       /\ gap.at[1] = B[c][i]
  BY <1>11, <1>12
<1>14. Place(gap.at[1]) = gap.at[1]
  BY <1>1, <1>13
<1>15. \A b \in FreeClusters : b # g => gap.at[1] # b
  BY <1>1, <1>8, <1>9, <1>13
<1>16. \A e : AddEntry(gap, e) = [s EXCEPT ![gap.at[1]][gap.at[2]] = e]
  BY <1>5, <1>14
<1>17. GrownOk(f, s, B, C, D, K, c, gap)
  BY <1>8, <1>9, <1>10, <1>13, <1>14, <1>15, <1>16 DEF GrownOk
<1> QED BY <1>17 DEF f, s

-----------------------------------------------------------------------------
(* What a step makes of the tree *)

(* What a step may make of the tree K.                                     *)
KCreates(D, K, E) ==
    \E y, k : /\ y \notin DOMAIN K /\ E = AddK(K, y, k)
              /\ k \in [in : D, name : Names, dir : BOOLEAN, node : Areas \cup {CLUSTER_FREE}]
              /\ NewIn(K, k.in, k.name)
              /\ IF k.dir THEN Fresh(Areas, D, K, k.node) ELSE k.node = CLUSTER_FREE

(* A file goes, or an empty directory that is not the current one.         *)
KRemoves(K, E) ==
    \E x \in DOMAIN K : E = DropK(K, x) /\ (K[x].dir => K[x].node # cwdCluster /\ \A y \in DOMAIN K : K[y].in # K[x].node)

(* A kid gets another place, another directory or another name.            *)
KMoves(D, K, E) ==
    \E x \in DOMAIN K : \E y, k :
        /\ y \notin DOMAIN K /\ E = DropK(AddK(K, y, k), x)
        /\ k \in [in : D, name : Names, dir : BOOLEAN, node : Areas \cup {CLUSTER_FREE}]
        /\ NewIn(K, k.in, k.name) /\ k.dir = K[x].dir /\ k.node = K[x].node

(* An empty file gets contents, or a file loses its contents.              *)
KWrites(D, K, E) ==
    \E x \in DOMAIN K : \E v :
        /\ ~K[x].dir /\ E = SetNode(K, x, v)
        /\ IF K[x].node = CLUSTER_FREE THEN Fresh(Areas, D, K, v) ELSE v = CLUSTER_FREE

(* What a call may do to the tree: nothing, or one of these.               *)
TreeSteps(D, K, E) ==
    \/ E = K
    \/ UNCHANGED cwdCluster /\ (KCreates(D, K, E) \/ KRemoves(K, E) \/ KMoves(D, K, E) \/ KWrites(D, K, E))

(* The step ends in a volume with a picture, whose tree a call may have    *)
(* made of K.                                                              *)
Arrives(D, K) == \E D1, C1, K1, dep1 : Picture(D1, C1, K1, dep1)' /\ TreeSteps(D, K, K1)

-----------------------------------------------------------------------------
(* The contents of a file do not matter to the directories.                *)
LEMMA DirsSet ==
    ASSUME NEW r, NEW A, NEW s, NEW C, NEW D, NEW K, NEW dep, DirsOk(r, s, C, D, K), TreeOk(r, A, D, K, dep),
           NEW x \in DOMAIN K, ~K[x].dir, NEW v
    PROVE  DirsOk(r, s, C, D, SetNode(K, x, v))
<1> DEFINE K1 == SetNode(K, x, v)
<1>0. K[x] \in [in : D, name : Names, dir : BOOLEAN, node : A \cup {CLUSTER_FREE}]
  BY DEF TreeOk
<1>1. /\ DOMAIN K1 = DOMAIN K
      /\ \A y \in DOMAIN K : y # x => K1[y] = K[y]
      /\ K1[x] = [K[x] EXCEPT !.node = v]
  BY DEF SetNode
<1>2. \A y \in DOMAIN K : K1[y].in = K[y].in /\ K1[y].name = K[y].name /\ K1[y].dir = K[y].dir
  BY <1>0, <1>1
<1> HIDE DEF K1
<1>3. \A y \in DOMAIN K1 : K1[y].dir => K1[y] = K[y]
  BY <1>1, <1>2
<1>4. KidsOk(s, C, D, K1)
  <2>1. \A y \in DOMAIN K1 : KidIs(s, C, D, K1, y)
    <3> TAKE y \in DOMAIN K1
    <3>1. KidIs(s, C, D, K, y)
      BY <1>1 DEF DirsOk, KidsOk, KidIs
    <3> QED BY <3>1, <1>1, <1>2 DEF KidIs
  <2>2. \A d \in D : \A i \in 1 .. Len(C[d]), k \in 1 .. SlotsPerCluster :
          IsKid(s[C[d][i]][k]) => <<C[d][i], k>> \in DOMAIN K1
    BY <1>1 DEF DirsOk, KidsOk
  <2> QED BY <2>1, <2>2 DEF KidsOk, KidIs
<1>5. \A y \in DOMAIN K1 : K1[y].dir => DotsOk(s, C[K1[y].node], K1[y].node, UpOf(r, K1[y].in))
  BY <1>1, <1>3 DEF DirsOk
<1> QED BY <1>4, <1>5 DEF DirsOk, K1

(* Contents that stay.                                                     *)
LEMMA SetSame ==
    ASSUME NEW r, NEW A, NEW D, NEW K, NEW dep, TreeOk(r, A, D, K, dep), NEW x \in DOMAIN K
    PROVE  SetNode(K, x, K[x].node) = K
<1>1. K = [y \in DOMAIN K |-> K[y]] /\ K[x] \in [in : D, name : Names, dir : BOOLEAN, node : A \cup {CLUSTER_FREE}]
  BY DEF TreeOk
<1>2. [K[x] EXCEPT !.node = K[x].node] = K[x]
  BY <1>1
<1>3. \A y \in DOMAIN K : (IF y = x THEN [K[y] EXCEPT !.node = K[x].node] ELSE K[y]) = K[y]
  BY <1>2
<1>4. SetNode(K, x, K[x].node) = [y \in DOMAIN K |-> K[y]]
  BY <1>3 DEF SetNode
<1> QED BY <1>1, <1>4

(* What a file holds is the head of a chain that is its own.               *)
LEMMA FileNode ==
    ASSUME NEW D, NEW C, NEW K, NEW dep, Picture(D, C, K, dep), NEW x \in DOMAIN K
    PROVE  /\ K[x] \in [in : D, name : Names, dir : BOOLEAN, node : Areas \cup {CLUSTER_FREE}]
           /\ K[x].node # CLUSTER_FREE =>
                /\ K[x].node \in DOMAIN C /\ K[x].node \in NodesOf(K) /\ K[x].node \notin lost
                /\ K[x].node \in Clusters /\ K[x].node \in Areas
                /\ ~K[x].dir => K[x].node \notin D
<1>0. TreeOk(rootDirCluster, Areas, D, K, dep) /\ HeadsOk(lost, C, D, K) /\ Areas \ {CLUSTER_ROOT} = Clusters
  BY PictureFacts DEF Picture
<1>1. K[x] \in [in : D, name : Names, dir : BOOLEAN, node : Areas \cup {CLUSTER_FREE}]
  BY <1>0 DEF TreeOk
<1>2. ASSUME K[x].node # CLUSTER_FREE
      PROVE  /\ K[x].node \in DOMAIN C /\ K[x].node \in NodesOf(K) /\ K[x].node \notin lost
             /\ K[x].node \in Clusters /\ K[x].node \in Areas
             /\ ~K[x].dir => K[x].node \notin D
  <2>1. K[x].node \in NodesOf(K)
    BY <1>2 DEF NodesOf
  <2>2. K[x].node \in DOMAIN C /\ K[x].node \notin lost
    BY <2>1, <1>0 DEF HeadsOk
  <2>3. K[x].node \in Areas /\ K[x].node \in Clusters
    BY <1>0, <1>1, <1>2 DEF CLUSTER_FREE, CLUSTER_ROOT
  <2>4. ~K[x].dir => K[x].node \notin D
    BY <1>0, <1>2 DEF TreeOk
  <2> QED BY <2>1, <2>2, <2>3, <2>4
<1> QED BY <1>1, <1>2

(* The table f and the slots s when the chain of v is cleared.             *)
ClearedOk(C, v, f, s) ==
    /\ TableType(Areas, f) /\ SlotsOk(Areas, s)
    /\ ChainsOk(Areas, f, [y \in DOMAIN C \ {v} |-> C[y]])
    /\ \A c \in DOMAIN C \ {v} : \A i \in 1 .. Len(C[c]) : s[C[c][i]] = slots[C[c][i]]

(* clearLinks of a head: its chain is gone and its clusters hold nothing;  *)
(* no other chain notices.                                                 *)
LEMMA ChainCleared ==
    ASSUME NEW D, NEW C, NEW K, NEW dep, Picture(D, C, K, dep), NEW v \in DOMAIN C, v # CLUSTER_FREE
    PROVE  ClearedOk(C, v, ClearLinks(fat, v), Forget(slots, v))
<1>0. Types /\ ChainsOk(Areas, fat, C) /\ TableType(Areas, fat)
  BY PictureFacts DEF Picture
<1>1. ChainSet(v) = Range(C[v]) /\ \A c : c \in ChainSet(v) <=> \E i \in 1 .. Len(C[v]) : C[v][i] = c
  BY <1>0, ChainSetRead
<1>2. v # CLUSTER_ROOT
  BY DEF CLUSTER_ROOT, CLUSTER_FREE
<1>3. ChainsOk(Areas, [c \in DOMAIN fat |-> IF c \in Range(C[v]) THEN CLUSTER_FREE ELSE fat[c]], [y \in DOMAIN C \ {v} |-> C[y]])
  BY <1>0, <1>2, ChainGoes
<1>4. ClearLinks(fat, v) = [c \in DOMAIN fat |-> IF c \in Range(C[v]) THEN CLUSTER_FREE ELSE fat[c]]
  BY <1>1 DEF ClearLinks
<1>5. TableType(Areas, ClearLinks(fat, v))
  BY <1>0 DEF TableType, ClearLinks
<1>6. SlotsOk(Areas, Forget(slots, v))
  BY <1>0, ClearedTypes DEF SlotsOk, Forget, Types
<1>7. ASSUME NEW c \in DOMAIN C \ {v}, NEW i \in 1 .. Len(C[c]) PROVE Forget(slots, v)[C[c][i]] = slots[C[c][i]]
  <2>1. C[c][i] \in Areas
    BY <1>0 DEF ChainsOk
  <2>2. C[c][i] \notin ChainSet(v)
    BY <1>0, <1>1 DEF ChainsOk
  <2>3. DOMAIN slots = Areas
    BY <1>0 DEF Types, SlotsOk
  <2> QED BY <2>1, <2>2, <2>3 DEF Forget
<1> QED BY <1>3, <1>4, <1>5, <1>6, <1>7 DEF ClearedOk

(* Without a chain nothing is cleared.                                     *)
LEMMA NothingCleared ==
    ASSUME NEW D, NEW C, NEW K, NEW dep, Picture(D, C, K, dep)
    PROVE  ClearLinks(fat, CLUSTER_FREE) = fat /\ Forget(slots, CLUSTER_FREE) = slots
<1>0. Types /\ CLUSTER_FREE \notin Clusters
  BY TreeConstants DEF Picture, Types, Clusters
<1>1. ChainSet(CLUSTER_FREE) = {}
  BY <1>0 DEF ChainSet
<1> QED BY <1>0, <1>1 DEF ClearLinks, Forget, Types, SlotsOk

-----------------------------------------------------------------------------
(* Calls on files *)

(* The file of a writer.                                                   *)
LEMMA WriterFile ==
    ASSUME NEW D, NEW C, NEW K, NEW dep, Picture(D, C, K, dep), NEW h \in Handles, files[h].inUse
    PROVE  /\ files[h].at \in DOMAIN K /\ ~K[files[h].at].dir /\ files[h] \in FileOk(Areas)
           /\ files[h].write => K[files[h].at].node = files[h].startCluster
BY DEF Picture, HandlesOk, Types

(* The contents of a file get the free cluster c: behind the ones that it  *)
(* has, or as the first.                                                   *)
WriteOk(L, C, D, K, dep, x, c, f, B, v) ==
    /\ TableType(Areas, f) /\ ChainsOk(Areas, f, B)
    /\ \A d \in D : B[d] = C[d]
    /\ TreeOk(rootDirCluster, Areas, D, SetNode(K, x, v), dep)
    /\ HeadsOk(L, B, D, SetNode(K, x, v))

(* The first cluster of an empty file.                                     *)
LEMMA FileBegins ==
    ASSUME NEW D, NEW C, NEW K, NEW dep, Picture(D, C, K, dep), NEW x \in DOMAIN K, ~K[x].dir,
           K[x].node = CLUSTER_FREE, NEW c \in FreeClusters
    PROVE  \E B : WriteOk(lost, C, D, K, dep, x, c, [fat EXCEPT ![c] = CLUSTER_EOF], B, c)
<1> DEFINE f == [fat EXCEPT ![c] = CLUSTER_EOF]
           B == [y \in DOMAIN C \cup {c} |-> IF y = c THEN <<c>> ELSE C[y]]
           K1 == SetNode(K, x, c)
<1>0. /\ ChainsOk(Areas, fat, C) /\ TreeOk(rootDirCluster, Areas, D, K, dep) /\ HeadsOk(lost, C, D, K)
      /\ TableType(Areas, fat) /\ D \subseteq DOMAIN C
  BY PictureFacts DEF Picture
<1>1. IsApart(C, D, K, c)
  BY FreeIsApart
<1>2. ChainsOk(Areas, f, B)
  BY <1>0, <1>1, ChainBegins DEF IsApart
<1>3. TableType(Areas, f)
  BY <1>0, <1>1 DEF TableType, IsApart
<1>4. (\A y \in DOMAIN C : B[y] = C[y]) /\ DOMAIN B = DOMAIN C \cup {c}
  BY <1>1 DEF IsApart
<1>5. TreeOk(rootDirCluster, Areas, D, K1, dep)
  BY <1>0, <1>1, TreeSets DEF IsApart
<1>6. NodesOf(K1) = NodesOf(K) \cup {c}
  <2>1. NodesOf(K1) = (NodesOf(K) \ {K[x].node}) \cup ({c} \ {CLUSTER_FREE})
    BY <1>0, NodesSet
  <2>2. K[x].node \notin NodesOf(K)
    BY DEF NodesOf
  <2> QED BY <2>1, <2>2, <1>1 DEF IsApart
<1> HIDE DEF f, B, K1
<1>7. HeadsOk(lost, B, D, K1)
  BY <1>0, <1>1, <1>4, <1>6 DEF HeadsOk, IsApart
<1>8. WriteOk(lost, C, D, K, dep, x, c, f, B, c)
  BY <1>0, <1>2, <1>3, <1>4, <1>5, <1>7 DEF WriteOk, K1
<1> QED BY <1>8 DEF f

(* One more cluster behind the last one of a file.                         *)
LEMMA FileGrows ==
    ASSUME NEW D, NEW C, NEW K, NEW dep, Picture(D, C, K, dep), NEW x \in DOMAIN K, ~K[x].dir,
           K[x].node # CLUSTER_FREE, NEW c \in FreeClusters
    PROVE  \E B : WriteOk(lost, C, D, K, dep, x, c, [fat EXCEPT ![LastCluster(K[x].node)] = c, ![c] = CLUSTER_EOF], B, K[x].node)
<1> DEFINE v == K[x].node
           f == [fat EXCEPT ![LastCluster(v)] = c, ![c] = CLUSTER_EOF]
           B == [C EXCEPT ![v] = Append(C[v], c)]
<1>0. /\ Types /\ ChainsOk(Areas, fat, C) /\ TreeOk(rootDirCluster, Areas, D, K, dep) /\ HeadsOk(lost, C, D, K)
      /\ TableType(Areas, fat) /\ D \subseteq DOMAIN C
  BY PictureFacts DEF Picture
<1>1. IsApart(C, D, K, c)
  BY FreeIsApart
<1>2. v \in DOMAIN C /\ v \notin lost /\ v \notin D /\ v # CLUSTER_FREE /\ v # CLUSTER_ROOT
  BY FileNode DEF CLUSTER_FREE, CLUSTER_ROOT
<1>3. LastCluster(v) = C[v][Len(C[v])]
  BY <1>0, <1>2, ChainSetRead
<1>4. ChainsOk(Areas, f, B)
  <2>1. c \in Areas \ {CLUSTER_ROOT} /\ fat[c] = CLUSTER_FREE
    BY <1>1 DEF IsApart
  <2>2. ChainsOk(Areas, [fat EXCEPT ![C[v][Len(C[v])]] = c, ![c] = CLUSTER_EOF], B)
    BY <2>1, <1>0, <1>2, ChainGrows
  <2> QED BY <2>2, <1>3
<1>5. TableType(Areas, f)
  BY <1>0, <1>1 DEF TableType, IsApart
<1>6. SetNode(K, x, v) = K
  BY <1>0, SetSame
<1>7. DOMAIN B = DOMAIN C /\ \A y \in DOMAIN C : y # v => B[y] = C[y]
  BY <1>2
<1> HIDE DEF f, B, v
<1>8. HeadsOk(lost, B, D, K) /\ \A d \in D : B[d] = C[d]
  BY <1>0, <1>2, <1>7 DEF HeadsOk
<1>9. WriteOk(lost, C, D, K, dep, x, c, f, B, v)
  BY <1>0, <1>4, <1>5, <1>6, <1>8 DEF WriteOk
<1> QED BY <1>9 DEF f, v

(* The contents of a file are cut to nothing.                              *)
LEMMA FileCut ==
    ASSUME NEW D, NEW C, NEW K, NEW dep, Picture(D, C, K, dep), NEW x \in DOMAIN K, ~K[x].dir, K[x].node # CLUSTER_FREE
    PROVE  \E B : WriteOk(lost, C, D, K, dep, x, CLUSTER_FREE, ClearLinks(fat, K[x].node), B, CLUSTER_FREE)
<1> DEFINE v == K[x].node
           f == ClearLinks(fat, v)
           B == [y \in DOMAIN C \ {v} |-> C[y]]
           K1 == SetNode(K, x, CLUSTER_FREE)
<1>0. TreeOk(rootDirCluster, Areas, D, K, dep) /\ HeadsOk(lost, C, D, K) /\ D \subseteq DOMAIN C
  BY PictureFacts DEF Picture
<1>1. v \in DOMAIN C /\ v \notin lost /\ v \notin D /\ v # CLUSTER_FREE
  BY FileNode
<1>2. TableType(Areas, f) /\ ChainsOk(Areas, f, B)
  BY <1>1, ChainCleared DEF ClearedOk
<1>3. TreeOk(rootDirCluster, Areas, D, K1, dep)
  BY <1>0, TreeSets
<1>4. NodesOf(K1) = NodesOf(K) \ {v}
  <2>1. NodesOf(K1) = (NodesOf(K) \ {K[x].node}) \cup ({CLUSTER_FREE} \ {CLUSTER_FREE})
    BY <1>0, NodesSet
  <2> QED BY <2>1
<1>5. DOMAIN B = DOMAIN C \ {v} /\ \A y \in DOMAIN C : y # v => B[y] = C[y]
  OBVIOUS
<1> HIDE DEF f, B, K1, v
<1>6. HeadsOk(lost, B, D, K1) /\ \A d \in D : B[d] = C[d]
  BY <1>0, <1>1, <1>4, <1>5 DEF HeadsOk
<1>7. WriteOk(lost, C, D, K, dep, x, CLUSTER_FREE, f, B, CLUSTER_FREE)
  BY <1>2, <1>3, <1>6 DEF WriteOk, K1
<1> QED BY <1>7 DEF f, v

(* The handle h gets the start cluster v.                                  *)
Starts(fs, gs, h, v) == gs = [fs EXCEPT ![h].modified = TRUE, ![h].startCluster = v]

(* The slots of the directories D stay.                                    *)
DirsStay(s, t, C, D) == \A d \in D : \A i \in 1 .. Len(C[d]) : t[C[d][i]] = s[C[d][i]]

(* A file x then holds v, and the handles know.                            *)
LEMMA ContentsLand ==
    ASSUME NEW D, NEW C, NEW K, NEW dep, Picture(D, C, K, dep), NEW x \in DOMAIN K, ~K[x].dir,
           NEW c, NEW v, NEW B, WriteOk(lost, C, D, K, dep, x, c, fat', B, v),
           \/ K[x].node = v
           \/ IF K[x].node = CLUSTER_FREE THEN Fresh(Areas, D, K, v) ELSE v = CLUSTER_FREE,
           SlotsOk(Areas, slots'), DirsStay(slots, slots', C, D),
           files' \in [Handles -> FileOk(Areas)], HandlesOk(files', slots', SetNode(K, x, v)),
           UNCHANGED <<rootDirCluster, cwdCluster, lost>>
    PROVE  Arrives(D, K)
<1> DEFINE K1 == SetNode(K, x, v)
<1>0. /\ Types /\ cwdCluster \in D /\ DirsOk(rootDirCluster, slots, C, D, K) /\ KidDirs(K, D)
      /\ TreeOk(rootDirCluster, Areas, D, K, dep)
  BY PictureFacts DEF Picture
<1>1. DirsOk(rootDirCluster, slots', B, D, K1)
  <2>1. DirsOk(rootDirCluster, slots', B, D, K)
    BY <1>0, DirsFrame DEF WriteOk, DirsStay
  <2> QED BY <2>1, <1>0, DirsSet
<1>2. HandlesOk(files', slots', K1)
  OBVIOUS
<1> HIDE DEF K1
<1>3. /\ ChainsOk(Areas, fat', B) /\ TreeOk(rootDirCluster, Areas, D, K1, dep) /\ HeadsOk(lost', B, D, K1)
      /\ fat' \in [Clusters -> Links]
  BY TableTypes DEF WriteOk, K1
<1>4. Picture(D, B, K1, dep)'
  <2>1. rootDirCluster' = rootDirCluster /\ cwdCluster' \in D /\ lost' \subseteq Clusters
    BY <1>0 DEF Types
  <2> QED BY <2>1, <1>0, <1>1, <1>2, <1>3, Lands
<1>5. TreeSteps(D, K, K1)
  <2>1. CASE K[x].node = v
    BY <2>1, <1>0, SetSame DEF TreeSteps, K1
  <2>2. CASE K[x].node # v
    <3>1. KWrites(D, K, K1)
      BY <2>2 DEF KWrites, K1
    <3> QED BY <3>1 DEF TreeSteps
  <2> QED BY <2>1, <2>2
<1> QED BY <1>4, <1>5 DEF Arrives

(* A write: the file of h then holds what its handle says.                 *)
LEMMA ContentsArrive ==
    ASSUME NEW D, NEW C, NEW K, NEW dep, Picture(D, C, K, dep),
           NEW h \in Handles, files[h].inUse, files[h].write, NEW x, x = files[h].at,
           NEW c, NEW v, NEW B, WriteOk(lost, C, D, K, dep, x, c, fat', B, v),
           \/ K[x].node = v
           \/ IF K[x].node = CLUSTER_FREE THEN Fresh(Areas, D, K, v) ELSE v = CLUSTER_FREE,
           SlotsOk(Areas, slots'), SameClusters(slots, slots', K),
           DirsStay(slots, slots', C, D), Starts(files, files', h, v),
           UNCHANGED <<rootDirCluster, cwdCluster, lost>>
    PROVE  Arrives(D, K)
<1> DEFINE K1 == SetNode(K, x, v)
<1>0. Types /\ TreeOk(rootDirCluster, Areas, D, K, dep) /\ HandlesOk(files, slots, K)
  BY DEF Picture
<1>1. x \in DOMAIN K /\ ~K[x].dir /\ files[h] \in FileOk(Areas)
  BY WriterFile
<1>2. K1[x].node = v
  <2>1. K[x] \in [in : D, name : Names, dir : BOOLEAN, node : Areas \cup {CLUSTER_FREE}]
    BY <1>0, <1>1 DEF TreeOk
  <2>2. K1[x] = [K[x] EXCEPT !.node = v]
    BY <1>1 DEF SetNode
  <2> QED BY <2>1, <2>2
<1>3. v \in Areas \cup {CLUSTER_FREE}
  <2>1. x \in DOMAIN K1
    BY <1>1 DEF SetNode
  <2>2. K1[x] \in [in : D, name : Names, dir : BOOLEAN, node : Areas \cup {CLUSTER_FREE}]
    BY <2>1 DEF WriteOk, TreeOk
  <2> QED BY <2>2, <1>2
<1>4. /\ files'[h] = [files[h] EXCEPT !.modified = TRUE, !.startCluster = v]
      /\ \A g \in Handles : g # h => files'[g] = files[g]
      /\ files' = [g \in Handles |-> files'[g]]
  BY <1>0 DEF Types, Starts
<1>5. /\ files'[h] \in FileOk(Areas)
      /\ files'[h].inUse /\ files'[h].write /\ files'[h].modified /\ files'[h].at = x /\ files'[h].startCluster = v
  BY <1>1, <1>3, <1>4 DEF FileOk
<1>6. files' \in [Handles -> FileOk(Areas)]
  BY <1>0, <1>4, <1>5 DEF Types
<1>7. HandlesOk(files', slots', K1)
  <2>1. OnlyHandle(files, files', h)
    BY <1>4 DEF OnlyHandle
  <2>2. K[x] \in [in : {K[x].in}, name : {K[x].name}, dir : {K[x].dir}, node : {K[x].node}]
    BY <1>0, <1>1 DEF TreeOk
  <2> HIDE DEF K1
  <2>3. HandlesOk(files', slots', SetNode(K, files[h].at, files'[h].startCluster))
    BY <2>1, <2>2, <1>0, <1>5, HandleWrites
  <2> QED BY <2>3, <1>5 DEF K1
<1> QED BY <1>1, <1>6, <1>7, ContentsLand

(* A write that takes a cluster, or changes nothing of the tree.           *)
LEMMA WriteArrives ==
    ASSUME NEW D, NEW C, NEW K, NEW dep, Picture(D, C, K, dep), NEW h \in Handles, Write(h)
    PROVE  Arrives(D, K)
<1>1. /\ files[h].inUse /\ files[h].write
      /\ UNCHANGED <<rootDirCluster, cwdCluster, lost>>
  BY DEF Write
<1>2. PICK c \in FreeClusters :
         LET start == files[h].startCluster
         IN  /\ fat' = IF start = CLUSTER_FREE THEN [fat EXCEPT ![c] = CLUSTER_EOF]
                       ELSE [fat EXCEPT ![LastCluster(start)] = c, ![c] = CLUSTER_EOF]
             /\ slots' = [slots EXCEPT ![c] = Unread]
             /\ files' = [files EXCEPT ![h].modified = TRUE,
                                       ![h].startCluster = IF start = CLUSTER_FREE THEN c ELSE start]
  BY DEF Write
<1>3. PICK x : x = files[h].at
  OBVIOUS
<1>4. x \in DOMAIN K /\ ~K[x].dir /\ K[x].node = files[h].startCluster
  BY <1>1, <1>3, WriterFile
<1>5. IsApart(C, D, K, c) /\ D \subseteq DOMAIN C /\ Types /\ \A d \in D : C[d] \in Seq(Areas)
  BY FreeIsApart, PictureFacts DEF Picture
<1>6. SlotsOk(Areas, slots') /\ \A b \in Areas : b # c => slots'[b] = slots[b]
  <2>1. slots' = [slots EXCEPT ![c] = Unread]
    BY <1>2
  <2>2. c \in Areas /\ SlotsOk(Areas, slots) /\ Unread \in [1 .. SlotsPerCluster -> Slot(Areas)]
    BY <1>5, ClearedTypes DEF IsApart, Types
  <2>3. SlotsOk(Areas, [slots EXCEPT ![c] = Unread]) /\ \A b \in Areas : b # c => [slots EXCEPT ![c] = Unread][b] = slots[b]
    BY <2>2, SlotsClear
  <2> QED BY <2>1, <2>3
<1>7. SameClusters(slots, slots', K)
  <2> SUFFICES ASSUME NEW y \in DOMAIN K PROVE slots'[y[1]] = slots[y[1]]
    BY DEF SameClusters
  <2>1. y[1] \in Areas /\ y[1] # c
    BY <1>5, KidFields DEF IsApart
  <2> QED BY <2>1, <1>6
<1>8. DirsStay(slots, slots', C, D)
  <2> SUFFICES ASSUME NEW d \in D, NEW i \in 1 .. Len(C[d]) PROVE slots'[C[d][i]] = slots[C[d][i]]
    BY DEF DirsStay
  <2>1. C[d][i] \in Areas /\ C[d][i] # c
    BY <1>5 DEF IsApart
  <2> QED BY <2>1, <1>6
<1>9. CASE K[x].node = CLUSTER_FREE
  <2>1. fat' = [fat EXCEPT ![c] = CLUSTER_EOF] /\ files' = [files EXCEPT ![h].modified = TRUE, ![h].startCluster = c]
    BY <1>2, <1>4, <1>9
  <2>a. \E B : WriteOk(lost, C, D, K, dep, x, c, [fat EXCEPT ![c] = CLUSTER_EOF], B, c)
    BY <1>4, <1>9, FileBegins
  <2>2. PICK B : WriteOk(lost, C, D, K, dep, x, c, fat', B, c)
    BY <2>1, <2>a, Zenon
  <2>3. Fresh(Areas, D, K, c)
    BY <1>5 DEF IsApart
  <2>4. Starts(files, files', h, c)
    BY <2>1 DEF Starts
  <2>5. SlotsOk(Areas, slots')
    BY <1>6
  <2>6. IF K[x].node = CLUSTER_FREE THEN Fresh(Areas, D, K, c) ELSE c = CLUSTER_FREE
    BY <2>3, <1>9
  <2> QED BY <2>2, <2>4, <2>5, <2>6, <1>1, <1>3, <1>7, <1>8, ContentsArrive
<1>10. CASE K[x].node # CLUSTER_FREE
  <2>0. PICK v : v = K[x].node
    OBVIOUS
  <2>1. /\ fat' = [fat EXCEPT ![LastCluster(v)] = c, ![c] = CLUSTER_EOF]
        /\ files' = [files EXCEPT ![h].modified = TRUE, ![h].startCluster = v]
    BY <1>2, <1>4, <1>10, <2>0
  <2>a. \E B : WriteOk(lost, C, D, K, dep, x, c, [fat EXCEPT ![LastCluster(K[x].node)] = c, ![c] = CLUSTER_EOF], B, K[x].node)
    BY <1>4, <1>10, FileGrows
  <2>2. PICK B : WriteOk(lost, C, D, K, dep, x, c, fat', B, v)
    BY <2>0, <2>1, <2>a, Zenon
  <2>4. Starts(files, files', h, v)
    BY <2>1 DEF Starts
  <2>5. SlotsOk(Areas, slots')
    BY <1>6
  <2> QED BY <2>0, <2>2, <2>4, <2>5, <1>1, <1>3, <1>7, <1>8, ContentsArrive
<1> QED BY <1>9, <1>10

(* A file is cut to nothing through its handle.                            *)
LEMMA TruncateArrives ==
    ASSUME NEW D, NEW C, NEW K, NEW dep, Picture(D, C, K, dep), NEW h \in Handles, Truncate(h)
    PROVE  Arrives(D, K)
<1>1. /\ files[h].inUse /\ files[h].write /\ files[h].startCluster # CLUSTER_FREE
      /\ fat' = ClearLinks(fat, files[h].startCluster)
      /\ files' = [files EXCEPT ![h].modified = TRUE, ![h].startCluster = CLUSTER_FREE]
      /\ UNCHANGED <<rootDirCluster, slots, cwdCluster, lost>>
  BY DEF Truncate
<1>2. PICK x : x = files[h].at
  OBVIOUS
<1>3. x \in DOMAIN K /\ ~K[x].dir /\ K[x].node = files[h].startCluster
  BY <1>1, <1>2, WriterFile
<1>4. PICK B : WriteOk(lost, C, D, K, dep, x, CLUSTER_FREE, fat', B, CLUSTER_FREE)
  BY <1>1, <1>3, FileCut
<1>5. SlotsOk(Areas, slots') /\ SameClusters(slots, slots', K) /\ DirsStay(slots, slots', C, D)
  BY <1>1 DEF Picture, Types, SameClusters, DirsStay
<1>6. /\ files[h].inUse /\ files[h].write /\ UNCHANGED <<rootDirCluster, cwdCluster, lost>> /\ K[x].node # CLUSTER_FREE
      /\ Starts(files, files', h, CLUSTER_FREE)
  BY <1>1, <1>3 DEF Starts
<1> QED BY <1>2, <1>4, <1>5, <1>6, ContentsArrive

-----------------------------------------------------------------------------
(* Calls that leave the tree alone *)

(* The entry of kid x with other attributes or another cluster.            *)
EditOk(C, D, K, x, t, cl) ==
    /\ SlotsOk(Areas, t) /\ DirsOk(rootDirCluster, t, C, D, K)
    /\ t[x[1]][x[2]].cluster = cl
    /\ \A y \in DOMAIN K : y # x => t[y[1]][y[2]] = slots[y[1]][y[2]]

(* An entry written again under its name and kind.                         *)
LEMMA EntryEdited ==
    ASSUME NEW D, NEW C, NEW K, NEW dep, Picture(D, C, K, dep), NEW x \in DOMAIN K,
           NEW ro \in BOOLEAN, NEW cl \in Areas \cup {CLUSTER_FREE}
    PROVE  EditOk(C, D, K, x, [slots EXCEPT ![x[1]][x[2]] = Entry(K[x].name, K[x].dir, ro, cl)], cl)
<1> DEFINE e == Entry(K[x].name, K[x].dir, ro, cl)
           t == [slots EXCEPT ![x[1]][x[2]] = e]
<1>0. /\ Types /\ DirsOk(rootDirCluster, slots, C, D, K) /\ Apart(Areas, C, D) /\ KidDirs(K, D)
  BY PictureFacts DEF Picture
<1>1. /\ K[x].name \in Names /\ K[x].dir \in BOOLEAN
      /\ x = <<x[1], x[2]>> /\ x[1] \in Areas /\ x[2] \in 1 .. SlotsPerCluster
  BY KidFields
<1>2. e \in Slot(Areas)
  BY <1>1, EntryTypes
<1>3. IsKid(e) /\ e.name = K[x].name /\ e.dir = K[x].dir /\ e.cluster = cl
  BY <1>1, TreeConstants DEF IsKid, Entry
<1> HIDE DEF e
<1>4. SlotsOk(Areas, t) /\ Puts(Areas, slots, t, <<x[1], x[2]>>, e)
  BY <1>0, <1>1, <1>2, SlotPut DEF Types
<1>5. Puts(Areas, slots, t, x, e)
  BY <1>1, <1>4
<1> HIDE DEF t
<1>6. DirsOk(rootDirCluster, t, C, D, K)
  BY <1>0, <1>3, <1>5, EditEntry
<1>7. t[x[1]][x[2]] = e
  BY <1>1, <1>5 DEF Puts
<1>8. ASSUME NEW y \in DOMAIN K, y # x PROVE t[y[1]][y[2]] = slots[y[1]][y[2]]
  <2>1. y = <<y[1], y[2]>> /\ y[1] \in Areas /\ y[2] \in 1 .. SlotsPerCluster
    BY KidFields
  <2> QED BY <2>1, <1>5, <1>8 DEF Puts
<1>9. EditOk(C, D, K, x, t, cl)
  BY <1>3, <1>4, <1>6, <1>7, <1>8 DEF EditOk
<1> QED BY <1>9 DEF t, e

(* Nothing of the tree changes.                                            *)
LEMMA SameArrives ==
    ASSUME NEW D, NEW C, NEW K, NEW dep, Picture(D, C, K, dep),
           SlotsOk(Areas, slots'), DirsOk(rootDirCluster, slots', C, D, K),
           files' \in [Handles -> FileOk(Areas)], HandlesOk(files', slots', K), cwdCluster' \in D,
           UNCHANGED <<rootDirCluster, fat, lost>>
    PROVE  Arrives(D, K)
<1>1. /\ Types /\ ChainsOk(Areas, fat, C) /\ TreeOk(rootDirCluster, Areas, D, K, dep) /\ HeadsOk(lost, C, D, K)
  BY DEF Picture
<1>2. rootDirCluster' = rootDirCluster /\ fat' \in [Clusters -> Links] /\ lost' \subseteq Clusters
  BY <1>1 DEF Types
<1>3. ChainsOk(Areas, fat', C) /\ HeadsOk(lost', C, D, K)
  BY <1>1
<1>4. Picture(D, C, K, dep)'
  BY <1>1, <1>2, <1>3, Lands
<1>5. TreeSteps(D, K, K)
  BY DEF TreeSteps
<1> QED BY <1>4, <1>5 DEF Arrives

(* A handle writes its start cluster to its entry and goes on or closes.   *)
LEMMA SyncArrives ==
    ASSUME NEW D, NEW C, NEW K, NEW dep, Picture(D, C, K, dep), NEW h \in Handles, files[h].inUse,
           slots' = SyncToDisc(h), OnlyHandle(files, files', h), files' \in [Handles -> FileOk(Areas)],
           \/ ~files'[h].inUse
           \/ /\ files'[h].write = files[h].write /\ files'[h].at = files[h].at
              /\ files'[h].startCluster = files[h].startCluster /\ files'[h].inUse,
           UNCHANGED <<rootDirCluster, fat, cwdCluster, lost>>
    PROVE  Arrives(D, K)
<1>0. /\ Types /\ DirsOk(rootDirCluster, slots, C, D, K) /\ HandlesOk(files, slots, K) /\ cwdCluster \in D
      /\ \A b \in Areas : Place(b) = b
  BY PictureFacts DEF Picture
<1>1. PICK x : x = files[h].at
  OBVIOUS
<1>2. x \in DOMAIN K /\ files[h] \in FileOk(Areas)
  BY <1>1, WriterFile
<1>3. PICK v : v = files[h].startCluster
  OBVIOUS
<1>4. v \in Areas \cup {CLUSTER_FREE}
  BY <1>2, <1>3 DEF FileOk
<1>5. /\ x = <<x[1], x[2]>> /\ x[1] \in Areas /\ x[2] \in 1 .. SlotsPerCluster
      /\ slots[x[1]][x[2]] = Entry(K[x].name, K[x].dir, slots[x[1]][x[2]].readOnly, slots[x[1]][x[2]].cluster)
      /\ slots[x[1]][x[2]].readOnly \in BOOLEAN
  BY <1>2, KidFields
<1>6. Place(x[1]) = x[1]
  BY <1>0, <1>5
<1>7. SlotAt(x).kind = "entry"
  BY <1>5, <1>6 DEF SlotAt, Entry
<1>8. CASE files[h].write /\ files[h].modified
  <2>1. slots' = [slots EXCEPT ![x[1]][x[2]].cluster = v]
    BY <1>1, <1>3, <1>6, <1>7, <1>8 DEF SyncToDisc
  <2>2. PICK e : e = [slots[x[1]][x[2]] EXCEPT !.cluster = v]
    OBVIOUS
  <2>3. PICK ro \in BOOLEAN : ro = slots[x[1]][x[2]].readOnly
    BY <1>5
  <2>4. e = Entry(K[x].name, K[x].dir, ro, v)
    BY <2>2, <2>3, <1>5 DEF Entry
  <2>5. slots' = [slots EXCEPT ![x[1]][x[2]] = e]
    BY <2>1, <2>2
  <2>6. EditOk(C, D, K, x, [slots EXCEPT ![x[1]][x[2]] = Entry(K[x].name, K[x].dir, ro, v)], v)
    BY <1>2, <1>4, EntryEdited
  <2>7. EditOk(C, D, K, x, slots', v)
    BY <2>4, <2>5, <2>6, Zenon
  <2>8. Synced(files, h, slots, slots', K)
    BY <2>7, <1>1, <1>3, <1>8 DEF EditOk, Synced
  <2>9. HandlesOk(files', slots', K)
    BY <2>8, <1>0, HandleSyncs
  <2> QED BY <2>7, <2>9, <1>0, SameArrives DEF EditOk
<1>9. CASE ~(files[h].write /\ files[h].modified)
  <2>1. slots' = slots
    BY <1>9 DEF SyncToDisc
  <2>2. Synced(files, h, slots, slots', K)
    BY <2>1, <1>9 DEF Synced
  <2>3. HandlesOk(files', slots', K)
    BY <2>2, <1>0, HandleSyncs
  <2>4. SlotsOk(Areas, slots') /\ DirsOk(rootDirCluster, slots', C, D, K)
    BY <2>1, <1>0 DEF Types
  <2> QED BY <2>3, <2>4, <1>0, SameArrives
<1> QED BY <1>8, <1>9

(* fsync writes the entry back.                                            *)
LEMMA FsyncArrives ==
    ASSUME NEW D, NEW C, NEW K, NEW dep, Picture(D, C, K, dep), NEW h \in Handles, Fsync(h)
    PROVE  Arrives(D, K)
<1>1. /\ files[h].inUse /\ slots' = SyncToDisc(h) /\ files' = [files EXCEPT ![h].modified = FALSE]
      /\ UNCHANGED <<rootDirCluster, fat, cwdCluster, lost>>
  BY DEF Fsync
<1>2. files[h] \in FileOk(Areas) /\ files \in [Handles -> FileOk(Areas)]
  BY DEF Picture, Types
<1>3. files'[h] = [files[h] EXCEPT !.modified = FALSE] /\ OnlyHandle(files, files', h)
      /\ files' = [g \in Handles |-> files'[g]]
  BY <1>1, <1>2 DEF OnlyHandle
<1>4. /\ files'[h] \in FileOk(Areas)
      /\ files'[h].write = files[h].write /\ files'[h].at = files[h].at
      /\ files'[h].startCluster = files[h].startCluster /\ files'[h].inUse
  BY <1>1, <1>2, <1>3 DEF FileOk
<1>5. files' \in [Handles -> FileOk(Areas)]
  BY <1>2, <1>3, <1>4 DEF OnlyHandle
<1> QED BY <1>1, <1>3, <1>4, <1>5, SyncArrives

(* close writes the entry back and forgets the handle.                     *)
LEMMA CloseArrives ==
    ASSUME NEW D, NEW C, NEW K, NEW dep, Picture(D, C, K, dep), NEW h \in Handles, Close(h)
    PROVE  Arrives(D, K)
<1>1. /\ files[h].inUse /\ slots' = SyncToDisc(h) /\ files' = [files EXCEPT ![h] = Closed]
      /\ UNCHANGED <<rootDirCluster, fat, cwdCluster, lost>>
  BY DEF Close
<1>2. files \in [Handles -> FileOk(Areas)]
  BY DEF Picture, Types
<1>3. files'[h] = Closed /\ OnlyHandle(files, files', h) /\ files' = [g \in Handles |-> files'[g]]
  BY <1>1, <1>2 DEF OnlyHandle
<1>4. Closed \in FileOk(Areas) /\ ~Closed.inUse
  BY TreeConstants DEF Closed, FileOk
<1>5. files' \in [Handles -> FileOk(Areas)]
  BY <1>2, <1>3, <1>4 DEF OnlyHandle
<1> QED BY <1>1, <1>3, <1>4, <1>5, SyncArrives

(* A path of the calls is one that the lemmas are about.                   *)
LEMMA CallPathMeans ==
    ASSUME NEW D, NEW C, NEW K, NEW dep, Picture(D, C, K, dep), NEW p \in CallPaths
    PROVE  PathMeans(D, K, p)
<1>1. IsPath(p)
  BY TreeAssumption DEF TreeAssumption, IsPath, Dotted
<1> QED BY <1>1, PathRead

(* A change of attributes leaves the tree alone.                           *)
LEMMA SetAttrArrives ==
    ASSUME NEW D, NEW C, NEW K, NEW dep, Picture(D, C, K, dep), NEW p \in CallPaths, NEW ro \in BOOLEAN, SetAttr(p, ro)
    PROVE  Arrives(D, K)
<1>0. /\ Types /\ HandlesOk(files, slots, K) /\ cwdCluster \in D /\ \A b \in Areas : Place(b) = b
  BY PictureFacts DEF Picture
<1>1. PICK e \in Target(p) : ~e.dir /\ slots' = [slots EXCEPT ![Place(e.at[1])][e.at[2]].readOnly = ro]
  BY DEF SetAttr
<1>2. UNCHANGED <<rootDirCluster, fat, cwdCluster, files, lost>>
  BY DEF SetAttr
<1>3. PICK x \in DOMAIN K : e = KidAt(x)
  BY <1>1, CallPathMeans DEF PathMeans
<1>4. /\ x = <<x[1], x[2]>> /\ x[1] \in Areas /\ x[2] \in 1 .. SlotsPerCluster /\ e.at = x
      /\ slots[x[1]][x[2]] = Entry(K[x].name, K[x].dir, slots[x[1]][x[2]].readOnly, slots[x[1]][x[2]].cluster)
      /\ slots[x[1]][x[2]].cluster \in Areas \cup {CLUSTER_FREE}
  BY <1>3, KidFields
<1>5. slots' = [slots EXCEPT ![x[1]][x[2]].readOnly = ro]
  BY <1>0, <1>1, <1>4
<1>6. PICK f : f = [slots[x[1]][x[2]] EXCEPT !.readOnly = ro]
  OBVIOUS
<1>7. PICK cl \in Areas \cup {CLUSTER_FREE} : cl = slots[x[1]][x[2]].cluster
  BY <1>4
<1>8. f = Entry(K[x].name, K[x].dir, ro, cl)
  BY <1>4, <1>6, <1>7 DEF Entry
<1>9. slots' = [slots EXCEPT ![x[1]][x[2]] = f]
  BY <1>5, <1>6
<1>10. EditOk(C, D, K, x, [slots EXCEPT ![x[1]][x[2]] = Entry(K[x].name, K[x].dir, ro, cl)], cl)
  BY EntryEdited
<1>11. EditOk(C, D, K, x, slots', cl)
  BY <1>8, <1>9, <1>10, Zenon
<1>12. SameClusters(slots, slots', K)
  BY <1>7, <1>11 DEF EditOk, SameClusters
<1>13. HandlesOk(files', slots', K)
  BY <1>0, <1>2, <1>12, HandlesStay
<1>14. files' \in [Handles -> FileOk(Areas)] /\ cwdCluster' \in D
  BY <1>0, <1>2 DEF Types
<1> QED BY <1>2, <1>11, <1>13, <1>14, SameArrives DEF EditOk

(* The current directory becomes another directory of the tree.            *)
LEMMA ChdirArrives ==
    ASSUME NEW D, NEW C, NEW K, NEW dep, Picture(D, C, K, dep), NEW p \in CallPaths, Chdir(p)
    PROVE  Arrives(D, K)
<1>0. /\ Types /\ HandlesOk(files, slots, K) /\ DirsOk(rootDirCluster, slots, C, D, K)
  BY DEF Picture
<1>1. UNCHANGED <<rootDirCluster, fat, slots, files, lost>> /\ \E e \in Target(p) : e.dir /\ cwdCluster' = e.cluster
  BY DEF Chdir
<1>2. cwdCluster' \in D
  BY <1>1, CallPathMeans DEF PathMeans
<1>3. /\ SlotsOk(Areas, slots') /\ DirsOk(rootDirCluster, slots', C, D, K)
      /\ files' \in [Handles -> FileOk(Areas)] /\ HandlesOk(files', slots', K)
  BY <1>0, <1>1 DEF Types
<1> QED BY <1>1, <1>2, <1>3, SameArrives

-----------------------------------------------------------------------------
(* Entries that go *)

(* Kid x goes: E are the directories that are left, B their chains and     *)
(* those of the other files, f and s the table and the slots after the     *)
(* chain has been cleared.                                                 *)
LeavesOk(C, D, K, x, f, s, B, E) ==
    /\ TableType(Areas, f) /\ SlotsOk(Areas, s) /\ ChainsOk(Areas, f, B)
    /\ HeadsOk(lost, B, E, DropK(K, x))
    /\ \A d \in E : B[d] = C[d]
    /\ DirsStay(slots, s, C, E)
    /\ E = IF K[x].dir THEN D \ {K[x].node} ELSE D
    /\ \E dep : TreeOk(rootDirCluster, Areas, E, DropK(K, x), dep)

(* A kid that no entry is in can go, and its chain with it.                *)
LEMMA KidLeaves ==
    ASSUME NEW D, NEW C, NEW K, NEW dep, Picture(D, C, K, dep), NEW x \in DOMAIN K,
           K[x].dir => \A y \in DOMAIN K : K[y].in # K[x].node
    PROVE  \E B, E : LeavesOk(C, D, K, x, ClearLinks(fat, K[x].node), Forget(slots, K[x].node), B, E)
<1> DEFINE v == K[x].node
           f == ClearLinks(fat, v)
           s == Forget(slots, v)
           E == IF K[x].dir THEN D \ {v} ELSE D
           B == IF v = CLUSTER_FREE THEN C ELSE [y \in DOMAIN C \ {v} |-> C[y]]
           K1 == DropK(K, x)
<1>0. /\ Types /\ ChainsOk(Areas, fat, C) /\ TreeOk(rootDirCluster, Areas, D, K, dep) /\ HeadsOk(lost, C, D, K)
      /\ TableType(Areas, fat) /\ D \subseteq DOMAIN C
  BY PictureFacts DEF Picture
<1>1. \E dep2 : TreeOk(rootDirCluster, Areas, E, K1, dep2)
  <2>1. CASE K[x].dir
    <3>1. v # CLUSTER_FREE
      BY <2>1, KidFields DEF CLUSTER_FREE
    <3>2. TreeOk(rootDirCluster, Areas, D \ {v}, K1, [d \in D \ {v} |-> dep[d]])
      BY <2>1, <3>1, <1>0, TreeDropsDir
    <3> QED BY <2>1, <3>2
  <2>2. CASE ~K[x].dir
    <3>1. TreeOk(rootDirCluster, Areas, D, K1, dep)
      BY <2>2, <1>0, TreeDropsFile
    <3> QED BY <2>2, <3>1
  <2> QED BY <2>1, <2>2
<1>2. NodesOf(K1) = NodesOf(K) \ {v}
  BY <1>0, NodesDrop
<1>3. CASE v = CLUSTER_FREE
  <2>1. f = fat /\ s = slots /\ B = C /\ E = D
    <3>1. ~K[x].dir
      BY <1>3, KidFields DEF CLUSTER_FREE
    <3>2. ClearLinks(fat, CLUSTER_FREE) = fat /\ Forget(slots, CLUSTER_FREE) = slots
      BY NothingCleared
    <3> QED BY <3>1, <3>2, <1>3
  <2>2. NodesOf(K1) = NodesOf(K)
    BY <1>2, <1>3 DEF NodesOf
  <2> HIDE DEF f, s, B, E, K1
  <2>3. HeadsOk(lost, B, E, K1)
    BY <2>1, <2>2, <1>0 DEF HeadsOk
  <2>4. E = IF K[x].dir THEN D \ {v} ELSE D
    BY DEF E
  <2>5. TableType(Areas, f) /\ SlotsOk(Areas, s) /\ ChainsOk(Areas, f, B)
    BY <2>1, <1>0 DEF Types
  <2>6. (\A d \in E : B[d] = C[d]) /\ DirsStay(slots, s, C, E)
    BY <2>1 DEF DirsStay
  <2>7. LeavesOk(C, D, K, x, f, s, B, E)
    BY <2>3, <2>4, <2>5, <2>6, <1>1 DEF LeavesOk, K1
  <2> QED BY <2>7 DEF f, s
<1>4. CASE v # CLUSTER_FREE
  <2>1. v \in DOMAIN C /\ v \notin lost /\ v \in NodesOf(K) /\ (~K[x].dir => v \notin D)
    BY <1>4, FileNode
  <2>2. /\ TableType(Areas, f) /\ SlotsOk(Areas, s)
        /\ ChainsOk(Areas, f, [y \in DOMAIN C \ {v} |-> C[y]])
        /\ \A c \in DOMAIN C \ {v} : \A i \in 1 .. Len(C[c]) : s[C[c][i]] = slots[C[c][i]]
    <3>1. ClearedOk(C, v, f, s)
      BY <2>1, <1>4, ChainCleared
    <3> HIDE DEF f, s
    <3> QED BY <3>1 DEF ClearedOk
  <2>3. B = [y \in DOMAIN C \ {v} |-> C[y]] /\ DOMAIN B = DOMAIN C \ {v} /\ \A y \in DOMAIN B : B[y] = C[y]
    BY <1>4
  <2>4. v \notin E /\ E \subseteq D /\ D \ {v} \subseteq E
    BY <2>1
  <2>5. E = IF K[x].dir THEN D \ {v} ELSE D
    OBVIOUS
  <2> HIDE DEF f, s, B, E, K1, v
  <2>6. HeadsOk(lost, B, E, K1)
    <3>1. DOMAIN B = E \cup NodesOf(K1) \cup lost
      BY <2>1, <2>3, <2>4, <1>0, <1>2 DEF HeadsOk
    <3>2. lost \cap (E \cup NodesOf(K1)) = {} /\ \A c \in lost : B[c] = <<c>>
      BY <2>1, <2>3, <2>4, <3>1, <1>0, <1>2 DEF HeadsOk
    <3> QED BY <3>1, <3>2 DEF HeadsOk
  <2>7. (\A d \in E : B[d] = C[d]) /\ DirsStay(slots, s, C, E)
    <3>1. E \subseteq DOMAIN C \ {v}
      BY <2>4, <1>0
    <3> QED BY <3>1, <2>2, <2>3 DEF DirsStay
  <2>8. ChainsOk(Areas, f, B)
    BY <2>2, <2>3
  <2>9. LeavesOk(C, D, K, x, f, s, B, E)
    BY <2>2, <2>5, <2>6, <2>7, <2>8, <1>1 DEF LeavesOk, K1, v
  <2> QED BY <2>9 DEF f, s, v
<1> QED BY <1>3, <1>4

(* unlink and rmdir: the chain goes, then the entry.                       *)
LEMMA GoneArrives ==
    ASSUME NEW D, NEW C, NEW K, NEW dep, Picture(D, C, K, dep), NEW x \in DOMAIN K,
           K[x].dir => K[x].node # cwdCluster /\ \A y \in DOMAIN K : K[y].in # K[x].node,
           \A h \in Handles : files[h].inUse => files[h].at # x,
           fat' = ClearLinks(fat, K[x].node), slots' = RemoveEntry(Forget(slots, K[x].node), x),
           UNCHANGED <<rootDirCluster, cwdCluster, files, lost>>
    PROVE  Arrives(D, K)
<1>0. /\ Types /\ DirsOk(rootDirCluster, slots, C, D, K) /\ HandlesOk(files, slots, K) /\ cwdCluster \in D
      /\ Apart(Areas, C, D) /\ KidDirs(K, D) /\ \A b \in Areas : Place(b) = b
  BY PictureFacts DEF Picture
<1>1. /\ x = <<x[1], x[2]>> /\ x[1] \in Areas /\ x[2] \in 1 .. SlotsPerCluster
  BY KidFields
<1>2. PICK s : s = Forget(slots, K[x].node)
  OBVIOUS
<1>3. \E B, E : LeavesOk(C, D, K, x, fat', s, B, E)
  <2>1. \E B, E : LeavesOk(C, D, K, x, ClearLinks(fat, K[x].node), Forget(slots, K[x].node), B, E)
    BY KidLeaves
  <2> QED BY <2>1, <1>2
<1>4. PICK B, E : LeavesOk(C, D, K, x, fat', s, B, E)
  BY <1>3
<1>5. /\ TableType(Areas, fat') /\ SlotsOk(Areas, s) /\ ChainsOk(Areas, fat', B)
      /\ HeadsOk(lost, B, E, DropK(K, x))
      /\ \A d \in E : B[d] = C[d]
      /\ DirsStay(slots, s, C, E)
      /\ E = IF K[x].dir THEN D \ {K[x].node} ELSE D
      /\ \E dep2 : TreeOk(rootDirCluster, Areas, E, DropK(K, x), dep2)
  BY <1>4 DEF LeavesOk
<1>6. PICK dep2 : TreeOk(rootDirCluster, Areas, E, DropK(K, x), dep2)
  BY <1>5
<1> DEFINE K1 == DropK(K, x)
           t == [slots EXCEPT ![x[1]][x[2]] = DIR_ENTRY_FREE]
<1>7. slots' = [s EXCEPT ![x[1]][x[2]] = DIR_ENTRY_FREE]
  BY <1>0, <1>1, <1>2 DEF RemoveEntry
<1>8. DIR_ENTRY_FREE \in Slot(Areas)
  BY DEF Slot
<1>9. /\ SlotsOk(Areas, slots')
      /\ Puts(Areas, s, slots', <<x[1], x[2]>>, DIR_ENTRY_FREE)
      /\ Puts(Areas, slots, t, <<x[1], x[2]>>, DIR_ENTRY_FREE)
  <2>1. SlotsOk(Areas, slots)
    BY <1>0 DEF Types
  <2>2. /\ SlotsOk(Areas, [s EXCEPT ![x[1]][x[2]] = DIR_ENTRY_FREE])
        /\ Puts(Areas, s, [s EXCEPT ![x[1]][x[2]] = DIR_ENTRY_FREE], <<x[1], x[2]>>, DIR_ENTRY_FREE)
    BY <1>1, <1>5, <1>8, SlotPut
  <2>3. Puts(Areas, slots, t, <<x[1], x[2]>>, DIR_ENTRY_FREE)
    BY <2>1, <1>1, <1>8, SlotPut
  <2> QED BY <2>2, <2>3, <1>7, Zenon
<1>10. Puts(Areas, s, slots', x, DIR_ENTRY_FREE) /\ Puts(Areas, slots, t, x, DIR_ENTRY_FREE) /\ SlotsOk(Areas, t)
  <2>1. SlotsOk(Areas, slots)
    BY <1>0 DEF Types
  <2>2. SlotsOk(Areas, t)
    BY <2>1, <1>1, <1>8, SlotPut
  <2> QED BY <2>2, <1>1, <1>9
<1>11. DOMAIN K1 = DOMAIN K \ {x} /\ \A y \in DOMAIN K1 : K1[y] = K[y]
  BY DEF DropK
<1>12. DirsOk(rootDirCluster, t, C, D, K1)
  <2> HIDE DEF t
  <2> QED BY <1>0, <1>10, TakeEntry
<1> HIDE DEF t, K1
<1>13. DirsOk(rootDirCluster, t, C, E, K1) /\ Apart(Areas, C, E) /\ KidDirs(K1, E)
  <2>1. KidDirs(K1, E)
    BY <1>6 DEF TreeOk, KidDirs, K1
  <2>2. CASE K[x].dir
    <3>1. \A y \in DOMAIN K1 : K1[y].in # K[x].node
      BY <2>2, <1>11
    <3>2. E = D \ {K[x].node}
      BY <2>2, <1>5
    <3> QED BY <2>1, <3>1, <3>2, <1>0, <1>12, DirGoes
  <2>3. CASE ~K[x].dir
    <3>1. E = D
      BY <2>3, <1>5
    <3> QED BY <2>1, <3>1, <1>0, <1>12
  <2> QED BY <2>2, <2>3
<1>14. E \subseteq D /\ (\A y \in DOMAIN K1 : K1[y].in \in E) /\ cwdCluster \in E
  BY <1>0, <1>5, <1>6, <1>11 DEF TreeOk, K1
<1>15. DirsOk(rootDirCluster, slots', B, E, K1)
  <2>1. ASSUME NEW d \in E, NEW i \in 1 .. Len(C[d]) PROVE slots'[C[d][i]] = t[C[d][i]]
    <3>1. C[d][i] \in Areas
      BY <1>13 DEF Apart
    <3>2. PICK b \in Areas : b = C[d][i]
      BY <3>1
    <3>3. s[b] = slots[b]
      BY <3>2, <1>5 DEF DirsStay
    <3>4. \A l \in 1 .. SlotsPerCluster : slots'[b][l] = t[b][l]
      BY <3>3, <1>10 DEF Puts
    <3>5. slots'[b] \in [1 .. SlotsPerCluster -> Slot(Areas)] /\ t[b] \in [1 .. SlotsPerCluster -> Slot(Areas)]
      BY <1>9, <1>10 DEF SlotsOk
    <3>6. slots'[b] = t[b]
      <4>1. /\ slots'[b] = [l \in 1 .. SlotsPerCluster |-> slots'[b][l]]
            /\ t[b] = [l \in 1 .. SlotsPerCluster |-> t[b][l]]
        BY <3>5
      <4> QED BY <3>4, <4>1, Zenon
    <3> QED BY <3>2, <3>6
  <2> QED BY <2>1, <1>5, <1>13, DirsFrame
<1>16. SameClusters(slots, slots', K1)
  <2> SUFFICES ASSUME NEW y \in DOMAIN K1 PROVE slots'[y[1]][y[2]] = slots[y[1]][y[2]]
    BY DEF SameClusters
  <2>1. y \in DOMAIN K /\ y # x /\ K[y].in \in E
    BY <1>11, <1>14
  <2>2. y = <<y[1], y[2]>> /\ y[1] \in Areas /\ y[2] \in 1 .. SlotsPerCluster
    BY <2>1, KidFields
  <2>3. PICK i \in 1 .. Len(C[K[y].in]), k \in 1 .. SlotsPerCluster : y = <<C[K[y].in][i], k>>
    BY <2>1, <1>0 DEF DirsOk, KidsOk
  <2>4. s[y[1]] = slots[y[1]]
    BY <2>1, <2>3, <1>5 DEF DirsStay
  <2>5. slots'[y[1]][y[2]] = s[y[1]][y[2]]
    BY <2>1, <2>2, <1>10 DEF Puts
  <2> QED BY <2>4, <2>5
<1>17. HandlesOk(files', slots', K1)
  <2>1. HandlesOk(files, slots', K1)
    BY <1>0, <1>16, HandlesDrop DEF K1
  <2> QED BY <2>1
<1>18. TreeOk(rootDirCluster, Areas, E, K1, dep2) /\ HeadsOk(lost', B, E, K1)
  BY <1>5, <1>6 DEF K1
<1>19. /\ fat' \in [Clusters -> Links] /\ files' \in [Handles -> FileOk(Areas)] /\ lost' \subseteq Clusters
       /\ cwdCluster' \in E /\ rootDirCluster' = rootDirCluster
  BY <1>0, <1>5, <1>14, TableTypes DEF Types
<1>20. Picture(E, B, K1, dep2)'
  BY <1>0, <1>5, <1>9, <1>15, <1>17, <1>18, <1>19, Lands
<1>21. KRemoves(K, K1)
  BY DEF KRemoves, K1
<1> QED BY <1>20, <1>21 DEF Arrives, TreeSteps

(* unlink of a file that is not open.                                      *)
LEMMA UnlinkArrives ==
    ASSUME NEW D, NEW C, NEW K, NEW dep, Picture(D, C, K, dep), NEW p \in CallPaths, Unlink(p)
    PROVE  Arrives(D, K)
<1>1. PICK e \in Target(p) : ~e.dir /\ NotOpen(e) /\ UnlinkCommon(e)
  BY DEF Unlink
<1>2. PICK x \in DOMAIN K : e = KidAt(x)
  BY <1>1, CallPathMeans DEF PathMeans
<1>3. e.at = x /\ e.dir = K[x].dir /\ e.cluster = slots[x[1]][x[2]].cluster
  BY <1>2, KidFields
<1>4. \A h \in Handles : files[h].inUse => files[h].at # x
  BY <1>1, <1>3 DEF NotOpen
<1>5. e.cluster = K[x].node
  BY <1>3, <1>4 DEF Picture, HandlesOk
<1>6. /\ fat' = ClearLinks(fat, K[x].node) /\ slots' = RemoveEntry(Forget(slots, K[x].node), x)
      /\ UNCHANGED <<rootDirCluster, cwdCluster, files, lost>> /\ ~K[x].dir
  BY <1>1, <1>3, <1>5 DEF UnlinkCommon
<1> QED BY <1>4, <1>6, GoneArrives

(* rmdir of an empty directory that is not the current one.                *)
LEMMA RmdirArrives ==
    ASSUME NEW D, NEW C, NEW K, NEW dep, Picture(D, C, K, dep), NEW p \in CallPaths, Rmdir(p)
    PROVE  Arrives(D, K)
<1>1. PICK e \in Target(p) : e.dir /\ IsEmpty(e.cluster) /\ NotDot(e) /\ e.cluster # cwdCluster /\ UnlinkCommon(e)
  BY DEF Rmdir
<1>2. PICK x \in DOMAIN K : e = KidAt(x)
  BY <1>1, CallPathMeans DEF PathMeans
<1>3. e.at = x /\ e.dir = K[x].dir /\ e.cluster = K[x].node /\ K[x].node \in D
  <2>1. KidAt(x).at = x /\ KidAt(x).dir = K[x].dir /\ (K[x].dir => KidAt(x).cluster = K[x].node /\ K[x].node \in D)
    BY KidFields
  <2> QED BY <2>1, <1>1, <1>2
<1>4. \A h \in Handles : files[h].inUse => files[h].at # x
  BY <1>1, <1>3 DEF Picture, HandlesOk
<1>5. ASSUME NEW y \in DOMAIN K PROVE K[y].in # K[x].node
  <2> SUFFICES ASSUME K[y].in = K[x].node PROVE FALSE
    OBVIOUS
  <2>1. KidAt(y) \in Kids(K[x].node)
    BY <1>3, KidsRead
  <2>2. KidAt(y) \in Listed(K[x].node) /\ KidAt(y).name \notin {".", ".."}
    BY <2>1 DEF Kids
  <2> QED BY <2>2, <1>1, <1>3 DEF IsEmpty
<1>6. /\ fat' = ClearLinks(fat, K[x].node) /\ slots' = RemoveEntry(Forget(slots, K[x].node), x)
      /\ UNCHANGED <<rootDirCluster, cwdCluster, files, lost>> /\ K[x].node # cwdCluster
  BY <1>1, <1>3 DEF UnlinkCommon
<1> QED BY <1>4, <1>5, <1>6, GoneArrives

-----------------------------------------------------------------------------
(* Entries that come and move *)

(* A file is opened, and perhaps cut.                                      *)
LEMMA OpenExistingArrives ==
    ASSUME NEW D, NEW C, NEW K, NEW dep, Picture(D, C, K, dep), NEW h \in Handles, NEW p \in CallPaths,
           NEW write \in BOOLEAN, NEW trunc \in BOOLEAN, OpenExisting(h, p, write, trunc)
    PROVE  Arrives(D, K)
<1>0. /\ Types /\ DirsOk(rootDirCluster, slots, C, D, K) /\ HandlesOk(files, slots, K) /\ cwdCluster \in D
      /\ TreeOk(rootDirCluster, Areas, D, K, dep)
  BY DEF Picture
<1>1. ~files[h].inUse /\ UNCHANGED <<rootDirCluster, slots, cwdCluster, lost>>
  BY DEF OpenExisting
<1>2. PICK e \in Target(p) :
         /\ ~e.dir
         /\ \/ NotOpen(e)
            \/ ~write /\ \A g \in Handles : files[g].inUse /\ files[g].at = e.at => ~files[g].write
         /\ LET cut == trunc /\ write /\ e.cluster # CLUSTER_FREE
            IN  /\ files' = [files EXCEPT ![h] =
                      [inUse |-> TRUE, write |-> write, modified |-> cut, at |-> e.at,
                       startCluster |-> IF cut THEN CLUSTER_FREE ELSE e.cluster]]
                /\ fat' = IF cut THEN ClearLinks(fat, e.cluster) ELSE fat
  BY DEF OpenExisting
<1>3. PICK x \in DOMAIN K : e = KidAt(x)
  BY <1>2, CallPathMeans DEF PathMeans
<1>4. /\ e.at = x /\ ~K[x].dir /\ e.cluster = slots[x[1]][x[2]].cluster
      /\ x \in Areas \X (1 .. SlotsPerCluster) /\ slots[x[1]][x[2]].cluster \in Areas \cup {CLUSTER_FREE}
  BY <1>2, <1>3, KidFields
<1>5. \A g \in Handles : files[g].inUse /\ files[g].at = x => ~files[g].write /\ ~write
  BY <1>2, <1>4 DEF NotOpen
<1>6. e.cluster = K[x].node
  BY <1>0, <1>4, <1>5 DEF HandlesOk
<1>7. PICK v : v = K[x].node
  OBVIOUS
<1>8. slots[x[1]][x[2]].cluster = v /\ v \in Areas \cup {CLUSTER_FREE} /\ e.cluster = v
  BY <1>4, <1>6, <1>7
<1>9. \A w \in Areas \cup {CLUSTER_FREE} : \A m \in BOOLEAN :
         [inUse |-> TRUE, write |-> write, modified |-> m, at |-> x, startCluster |-> w] \in FileOk(Areas)
  BY <1>4 DEF FileOk
<1>10. files \in [Handles -> FileOk(Areas)]
  BY <1>0 DEF Types
<1>11. CASE ~(trunc /\ write /\ e.cluster # CLUSTER_FREE)
  <2>0. PICK new : new = [inUse |-> TRUE, write |-> write, modified |-> FALSE, at |-> x, startCluster |-> v]
    OBVIOUS
  <2>1. files' = [files EXCEPT ![h] = new] /\ fat' = fat
    <3>1. (trunc /\ write /\ e.cluster # CLUSTER_FREE) = FALSE
      BY <1>11
    <3> QED BY <2>0, <3>1, <1>2, <1>4, <1>8
  <2>2. files'[h] = new /\ OnlyHandle(files, files', h) /\ files' \in [Handles -> FileOk(Areas)]
    BY <2>0, <2>1, <1>8, <1>9, <1>10 DEF OnlyHandle
  <2>3. files'[h].at = x /\ files'[h].startCluster = K[x].node /\ files'[h].write = write
    BY <2>0, <2>2, <1>7
  <2>4. HandlesOk(files', slots, K)
    BY <2>2, <2>3, <1>0, <1>1, <1>4, <1>5, <1>7, <1>8, HandleOpens
  <2>5. SlotsOk(Areas, slots') /\ DirsOk(rootDirCluster, slots', C, D, K) /\ HandlesOk(files', slots', K) /\ cwdCluster' \in D
    BY <2>4, <1>0, <1>1 DEF Types
  <2> QED BY <2>1, <2>2, <2>5, <1>1, SameArrives
<1>12. CASE trunc /\ write /\ e.cluster # CLUSTER_FREE
  <2>0. PICK old, new :
           /\ old = [inUse |-> TRUE, write |-> TRUE, modified |-> TRUE, at |-> x, startCluster |-> v]
           /\ new = [inUse |-> TRUE, write |-> TRUE, modified |-> TRUE, at |-> x, startCluster |-> CLUSTER_FREE]
    OBVIOUS
  <2>1. files' = [files EXCEPT ![h] = new] /\ fat' = ClearLinks(fat, v)
    <3>1. (trunc /\ write /\ e.cluster # CLUSTER_FREE) = TRUE /\ write = TRUE
      BY <1>12
    <3> QED BY <2>0, <3>1, <1>2, <1>4, <1>8
  <2>2. PICK fs : fs = [files EXCEPT ![h] = old]
    OBVIOUS
  <2>3. fs[h] = old /\ OnlyHandle(files, fs, h)
    BY <2>2, <1>10 DEF OnlyHandle
  <2>4. /\ fs[h].at = x /\ fs[h].startCluster = K[x].node /\ fs[h].write /\ fs[h].inUse
        /\ new.inUse /\ new.write /\ new.modified /\ new.at = x /\ new.startCluster = CLUSTER_FREE
    BY <2>0, <2>3, <1>7
  <2>5. HandlesOk(fs, slots, K)
    <3>1. \A g \in Handles : files[g].inUse /\ files[g].at = x => ~files[g].write /\ ~fs[h].write
      BY <1>5, <1>12
    <3> QED BY <2>3, <2>4, <3>1, <1>0, <1>1, <1>4, <1>7, <1>8, HandleOpens
  <2>6. files'[h] = new /\ OnlyHandle(fs, files', h) /\ files' \in [Handles -> FileOk(Areas)]
    <3>1. new \in FileOk(Areas)
      BY <2>0, <1>4 DEF FileOk
    <3> QED BY <2>1, <2>2, <3>1, <1>10 DEF OnlyHandle
  <2>7. HandlesOk(files', slots', SetNode(K, x, CLUSTER_FREE))
    <3>1. K[x] \in [in : {K[x].in}, name : {K[x].name}, dir : {K[x].dir}, node : {K[x].node}]
      BY <1>0 DEF TreeOk
    <3>2. SameClusters(slots, slots', K)
      BY <1>1 DEF SameClusters
    <3>3. HandlesOk(files', slots', SetNode(K, fs[h].at, files'[h].startCluster))
      BY <2>4, <2>5, <2>6, <3>1, <3>2, HandleWrites
    <3> QED BY <3>3, <2>4, <2>6
  <2>8. \E B : WriteOk(lost, C, D, K, dep, x, CLUSTER_FREE, ClearLinks(fat, K[x].node), B, CLUSTER_FREE)
    BY <1>4, <1>6, <1>12, FileCut
  <2>9. PICK B : WriteOk(lost, C, D, K, dep, x, CLUSTER_FREE, fat', B, CLUSTER_FREE)
    BY <2>1, <2>8, <1>7, Zenon
  <2>10. SlotsOk(Areas, slots') /\ DirsStay(slots, slots', C, D)
    BY <1>0, <1>1 DEF Types, DirsStay
  <2>11. K[x].node # CLUSTER_FREE
    BY <1>6, <1>12
  <2> QED BY <2>6, <2>7, <2>9, <2>10, <2>11, <1>1, <1>4, ContentsLand
<1> QED BY <1>11, <1>12

(* The directory c has grown, if it had to, and the entry of the new kid k *)
(* is in the gap.                                                          *)
AddedOk(D, K, gap, f, t, B, k, cl) ==
    /\ f \in [Clusters -> Links] /\ ChainsOk(Areas, f, B) /\ HeadsOk(lost, B, D, K)
    /\ SlotsOk(Areas, t) /\ Apart(Areas, B, D)
    /\ gap.at \notin DOMAIN K /\ DirsOk(rootDirCluster, t, B, D, AddK(K, gap.at, k))
    /\ gap.at \in Areas \X (1 .. SlotsPerCluster)
    /\ t[gap.at[1]][gap.at[2]].cluster = cl
    /\ SameClusters(slots, t, K)

(* A directory that is to be the new kid already is one of c.              *)
AlreadyIn(K, c, k) == k.dir => \E x \in DOMAIN K : K[x].dir /\ K[x].node = k.node /\ K[x].in = c

(* addEntry of a kid, whether the directory has to grow or not.            *)
LEMMA EntryAdded ==
    ASSUME NEW D, NEW C, NEW K, NEW dep, Picture(D, C, K, dep), NEW c \in D, NEW taken, NEW gap \in EntryGap(c, taken),
           NEW k, k.in = c, k.name \in Names, k.dir \in BOOLEAN, AlreadyIn(K, c, k),
           NEW ro \in BOOLEAN, NEW cl \in Areas \cup {CLUSTER_FREE}
    PROVE  \E B : AddedOk(D, K, gap, LinkGrown(c, gap), AddEntry(gap, Entry(k.name, k.dir, ro, cl)), B, k, cl)
<1> DEFINE f == LinkGrown(c, gap)
           e == Entry(k.name, k.dir, ro, cl)
           t == AddEntry(gap, e)
<1>0. KidDirs(K, D)
  BY PictureFacts
<1>1. PICK s : s = GrownSlots(slots, gap.grow)
  OBVIOUS
<1>2. PICK B : GrownOk(f, s, B, C, D, K, c, gap)
  <2>1. \E B : GrownOk(LinkGrown(c, gap), GrownSlots(slots, gap.grow), B, C, D, K, c, gap)
    BY DirectoryGrows
  <2> QED BY <2>1, <1>1
<1>3. PICK y : y = gap.at
  OBVIOUS
<1>4. /\ TableType(Areas, f) /\ SlotsOk(Areas, s)
      /\ ChainsOk(Areas, f, B) /\ DirsOk(rootDirCluster, s, B, D, K) /\ Apart(Areas, B, D) /\ HeadsOk(lost, B, D, K)
      /\ HasGap(s, B[c], y)
      /\ y = <<y[1], y[2]>> /\ y[1] \in Areas /\ y[2] \in 1 .. SlotsPerCluster
      /\ SameClusters(slots, s, K)
      /\ t = [s EXCEPT ![y[1]][y[2]] = e]
  BY <1>2, <1>3 DEF GrownOk
<1>5. e \in Slot(Areas) /\ IsKid(e) /\ e.name = k.name /\ e.dir = k.dir /\ e.cluster = cl
  BY EntryTypes, TreeConstants DEF IsKid, Entry
<1> HIDE DEF e, f, t
<1>6. SlotsOk(Areas, t) /\ Puts(Areas, s, t, y, e)
  <2>1. /\ SlotsOk(Areas, [s EXCEPT ![y[1]][y[2]] = e])
        /\ Puts(Areas, s, [s EXCEPT ![y[1]][y[2]] = e], <<y[1], y[2]>>, e)
    BY <1>4, <1>5, SlotPut
  <2>2. SlotsOk(Areas, t) /\ Puts(Areas, s, t, <<y[1], y[2]>>, e)
    BY <2>1, <1>4, Zenon
  <2> QED BY <2>2, <1>4
<1>7. k.dir => k.node \in D /\ DotsOk(s, B[k.node], k.node, UpOf(rootDirCluster, c))
  <2> SUFFICES ASSUME k.dir PROVE k.node \in D /\ DotsOk(s, B[k.node], k.node, UpOf(rootDirCluster, c))
    OBVIOUS
  <2>1. PICK x \in DOMAIN K : K[x].dir /\ K[x].node = k.node /\ K[x].in = c
    BY DEF AlreadyIn
  <2>2. DotsOk(s, B[K[x].node], K[x].node, UpOf(rootDirCluster, K[x].in)) /\ K[x].node \in D
    BY <2>1, <1>0, <1>4 DEF DirsOk, KidDirs
  <2> QED BY <2>1, <2>2
<1>8. y \notin DOMAIN K /\ DirsOk(rootDirCluster, t, B, D, AddK(K, y, k))
  BY <1>0, <1>4, <1>5, <1>6, <1>7, PutEntry
<1>9. t[y[1]][y[2]] = e
  BY <1>4, <1>6 DEF Puts
<1>10. SameClusters(slots, t, K)
  <2> SUFFICES ASSUME NEW x \in DOMAIN K PROVE t[x[1]][x[2]].cluster = slots[x[1]][x[2]].cluster
    BY DEF SameClusters
  <2>1. x = <<x[1], x[2]>> /\ x[1] \in Areas /\ x[2] \in 1 .. SlotsPerCluster /\ x # y
    BY <1>8, KidFields
  <2>2. t[x[1]][x[2]] = s[x[1]][x[2]]
    BY <2>1, <1>6 DEF Puts
  <2> QED BY <2>2, <1>4 DEF SameClusters
<1>11. f \in [Clusters -> Links]
  BY <1>4, TableTypes
<1>12. y \in Areas \X (1 .. SlotsPerCluster)
  BY <1>4
<1>13. AddedOk(D, K, gap, f, t, B, k, cl)
  BY <1>3, <1>4, <1>5, <1>6, <1>8, <1>9, <1>10, <1>11, <1>12 DEF AddedOk
<1> QED BY <1>13 DEF f, t, e

(* A file is created.                                                      *)
LEMMA OpenCreateArrives ==
    ASSUME NEW D, NEW C, NEW K, NEW dep, Picture(D, C, K, dep), NEW h \in Handles, NEW p \in CallPaths,
           NEW write \in BOOLEAN, OpenCreate(h, p, write)
    PROVE  Arrives(D, K)
<1>0. /\ Types /\ HandlesOk(files, slots, K) /\ cwdCluster \in D /\ TreeOk(rootDirCluster, Areas, D, K, dep)
  BY DEF Picture
<1>1. ~files[h].inUse /\ Target(p) = {} /\ UNCHANGED <<rootDirCluster, cwdCluster, lost>>
  BY DEF OpenCreate
<1>2. PICK c \in ParentCluster(p) : \E gap \in EntryGap(c, {}) :
         /\ slots' = AddEntry(gap, Entry(NewName(p), FALSE, FALSE, CLUSTER_FREE))
         /\ fat' = LinkGrown(c, gap)
         /\ files' = [files EXCEPT ![h] =
               [inUse |-> TRUE, write |-> write, modified |-> TRUE, at |-> gap.at,
                startCluster |-> CLUSTER_FREE]]
  BY DEF OpenCreate
<1>3. PICK gap \in EntryGap(c, {}) :
         /\ slots' = AddEntry(gap, Entry(NewName(p), FALSE, FALSE, CLUSTER_FREE))
         /\ fat' = LinkGrown(c, gap)
         /\ files' = [files EXCEPT ![h] =
               [inUse |-> TRUE, write |-> write, modified |-> TRUE, at |-> gap.at,
                startCluster |-> CLUSTER_FREE]]
  BY <1>2
<1>4. c \in D /\ NewName(p) \in Names /\ \A x \in DOMAIN K : ~(K[x].in = c /\ K[x].name = NewName(p))
  BY <1>1, CallPathMeans DEF PathMeans
<1>5. PICK n : n = NewName(p)
  OBVIOUS
<1>6. PICK k : k = [in |-> c, name |-> n, dir |-> FALSE, node |-> CLUSTER_FREE]
  OBVIOUS
<1>7. /\ k.in = c /\ k.name = n /\ k.dir = FALSE /\ k.node = CLUSTER_FREE /\ n \in Names
      /\ k \in [in : D, name : Names, dir : BOOLEAN, node : Areas \cup {CLUSTER_FREE}]
      /\ NewIn(K, k.in, k.name)
  BY <1>4, <1>5, <1>6 DEF NewIn
<1>8. PICK B : AddedOk(D, K, gap, fat', slots', B, k, CLUSTER_FREE)
  <2>1. AlreadyIn(K, c, k) /\ k.dir \in BOOLEAN /\ k.name \in Names
    BY <1>7 DEF AlreadyIn
  <2>2. \E B : AddedOk(D, K, gap, LinkGrown(c, gap), AddEntry(gap, Entry(k.name, k.dir, FALSE, CLUSTER_FREE)), B, k, CLUSTER_FREE)
    BY <2>1, <1>4, <1>7, EntryAdded
  <2>3. slots' = AddEntry(gap, Entry(k.name, k.dir, FALSE, CLUSTER_FREE))
    BY <1>3, <1>5, <1>7
  <2> QED BY <2>2, <2>3, <1>3, Zenon
<1>9. PICK y : y = gap.at
  OBVIOUS
<1>10. /\ fat' \in [Clusters -> Links] /\ ChainsOk(Areas, fat', B) /\ HeadsOk(lost, B, D, K)
       /\ SlotsOk(Areas, slots')
       /\ y \notin DOMAIN K /\ DirsOk(rootDirCluster, slots', B, D, AddK(K, y, k))
       /\ y \in Areas \X (1 .. SlotsPerCluster)
       /\ slots'[y[1]][y[2]].cluster = CLUSTER_FREE
       /\ SameClusters(slots, slots', K)
  BY <1>8, <1>9 DEF AddedOk
<1> DEFINE K1 == AddK(K, y, k)
<1>11. HandlesOk(files, slots', K1)
  BY <1>0, <1>7, <1>10, HandlesAdd
<1>12. TreeOk(rootDirCluster, Areas, D, K1, dep)
  <2>1. KidType(rootDirCluster, Areas, D, k)
    BY <1>7 DEF KidType
  <2> QED BY <2>1, <1>0, <1>7, <1>10, TreeAddsFile
<1>13. HeadsOk(lost, B, D, K1)
  <2>1. NodesOf(K1) = NodesOf(K) \cup ({k.node} \ {CLUSTER_FREE})
    BY <1>10, NodesAdd
  <2>2. NodesOf(K1) = NodesOf(K)
    BY <2>1, <1>7
  <2> QED BY <2>2, <1>10 DEF HeadsOk
<1>14. K1[y] = k /\ y \in DOMAIN K1
  BY DEF AddK
<1> HIDE DEF K1
<1>15. PICK new : new = [inUse |-> TRUE, write |-> write, modified |-> TRUE, at |-> y, startCluster |-> CLUSTER_FREE]
  OBVIOUS
<1>16. files' = [files EXCEPT ![h] = new] /\ new \in FileOk(Areas)
  BY <1>3, <1>9, <1>10, <1>15 DEF FileOk
<1>17. /\ files'[h] = new /\ OnlyHandle(files, files', h) /\ files' \in [Handles -> FileOk(Areas)]
  BY <1>0, <1>16 DEF OnlyHandle, Types
<1>18. HandlesOk(files', slots', K1)
  <2>1. \A g \in Handles : files[g].inUse /\ files[g].at = y => ~files[g].write /\ ~files'[h].write
    BY <1>0, <1>10 DEF HandlesOk
  <2>2. files'[h].at = y /\ files'[h].startCluster = K1[y].node /\ ~K1[y].dir /\ slots'[y[1]][y[2]].cluster = K1[y].node
    BY <1>7, <1>10, <1>14, <1>15, <1>17
  <2> QED BY <2>1, <2>2, <1>1, <1>11, <1>14, <1>17, HandleOpens
<1>19. Picture(D, B, K1, dep)'
  <2>1. /\ rootDirCluster' = rootDirCluster /\ lost' \subseteq Clusters /\ cwdCluster' \in D /\ HeadsOk(lost', B, D, K1)
        /\ DirsOk(rootDirCluster, slots', B, D, K1)
    BY <1>0, <1>1, <1>10, <1>13 DEF Types, K1
  <2> QED BY <2>1, <1>0, <1>10, <1>12, <1>17, <1>18, Lands
<1>20. KCreates(D, K, K1)
  BY <1>7, <1>10 DEF KCreates, K1
<1> QED BY <1>1, <1>19, <1>20 DEF Arrives, TreeSteps

-----------------------------------------------------------------------------
(* A kid that moves keeps its node.                                        *)
LEMMA NodesMove ==
    ASSUME NEW K, NEW x \in DOMAIN K, NEW y, y \notin DOMAIN K, NEW k, k.node = K[x].node
    PROVE  NodesOf(DropK(AddK(K, y, k), x)) = NodesOf(K)
<1> DEFINE K1 == DropK(AddK(K, y, k), x)
<1>1. DOMAIN K1 = (DOMAIN K \cup {y}) \ {x} /\ K1[y] = k /\ x # y /\ \A z \in DOMAIN K : z # x => K1[z] = K[z]
  BY DEF AddK, DropK
<1> HIDE DEF K1
<1>2. ASSUME NEW v \in NodesOf(K) PROVE v \in NodesOf(K1)
  <2>1. PICK z \in DOMAIN K : v = K[z].node
    BY DEF NodesOf
  <2>2. CASE z = x
    BY <2>1, <2>2, <1>1 DEF NodesOf
  <2>3. CASE z # x
    BY <2>1, <2>3, <1>1 DEF NodesOf
  <2> QED BY <2>2, <2>3
<1>3. ASSUME NEW v \in NodesOf(K1) PROVE v \in NodesOf(K)
  <2>1. PICK z \in DOMAIN K1 : v = K1[z].node
    BY DEF NodesOf
  <2>2. CASE z = y
    BY <2>1, <2>2, <1>1 DEF NodesOf
  <2>3. CASE z # y
    BY <2>1, <2>3, <1>1 DEF NodesOf
  <2> QED BY <2>2, <2>3
<1> QED BY <1>2, <1>3 DEF K1

(* An entry moves to another directory or gets another name.               *)
LEMMA RenameArrives ==
    ASSUME NEW D, NEW C, NEW K, NEW dep, Picture(D, C, K, dep), NEW p \in CallPaths, NEW q \in CallPaths, Rename(p, q)
    PROVE  Arrives(D, K)
<1>0. /\ Types /\ HandlesOk(files, slots, K) /\ cwdCluster \in D /\ TreeOk(rootDirCluster, Areas, D, K, dep)
      /\ \A b \in Areas : Place(b) = b
  BY PictureFacts DEF Picture
<1>1. Target(q) = {} /\ UNCHANGED <<rootDirCluster, cwdCluster, files, lost>>
  BY DEF Rename
<1>2. PICK e \in Target(p) : \E c \in ParentCluster(q) :
         /\ NotOpen(e) /\ NotDot(e)
         /\ e.dir => c \in ParentCluster(p)
         /\ \E gap \in EntryGap(c, {}) :
              /\ slots' = RemoveEntry(AddEntry(gap, Entry(NewName(q), e.dir, e.readOnly, e.cluster)), e.at)
              /\ fat' = LinkGrown(c, gap)
  BY DEF Rename
<1>3. PICK c \in ParentCluster(q) :
         /\ NotOpen(e) /\ NotDot(e)
         /\ e.dir => c \in ParentCluster(p)
         /\ \E gap \in EntryGap(c, {}) :
              /\ slots' = RemoveEntry(AddEntry(gap, Entry(NewName(q), e.dir, e.readOnly, e.cluster)), e.at)
              /\ fat' = LinkGrown(c, gap)
  BY <1>2
<1>4. PICK gap \in EntryGap(c, {}) :
         /\ slots' = RemoveEntry(AddEntry(gap, Entry(NewName(q), e.dir, e.readOnly, e.cluster)), e.at)
         /\ fat' = LinkGrown(c, gap)
  BY <1>3
<1>5. c \in D /\ NewName(q) \in Names /\ \A x \in DOMAIN K : ~(K[x].in = c /\ K[x].name = NewName(q))
  BY <1>1, CallPathMeans DEF PathMeans
<1>6. PICK x \in DOMAIN K : e = KidAt(x) /\ \A b \in ParentCluster(p) : K[x].in = b
  BY <1>3, CallPathMeans DEF PathMeans
<1>7. /\ e.at = x /\ e.dir = K[x].dir /\ K[x].dir \in BOOLEAN
      /\ e.cluster = slots[x[1]][x[2]].cluster /\ e.readOnly = slots[x[1]][x[2]].readOnly
      /\ slots[x[1]][x[2]].readOnly \in BOOLEAN /\ slots[x[1]][x[2]].cluster \in Areas \cup {CLUSTER_FREE}
      /\ x = <<x[1], x[2]>> /\ x[1] \in Areas /\ x[2] \in 1 .. SlotsPerCluster
  BY <1>6, KidFields
<1>8. \A h \in Handles : files[h].inUse => files[h].at # x
  BY <1>3, <1>7 DEF NotOpen
<1>9. e.cluster = K[x].node
  BY <1>0, <1>7, <1>8 DEF HandlesOk
<1>10. PICK ro \in BOOLEAN : ro = e.readOnly
  BY <1>7
<1>11. PICK cl \in Areas \cup {CLUSTER_FREE} : cl = e.cluster
  BY <1>7
<1>12. PICK n : n = NewName(q)
  OBVIOUS
<1>13. PICK k : k = [in |-> c, name |-> n, dir |-> K[x].dir, node |-> cl]
  OBVIOUS
<1>14. /\ k.in = c /\ k.name = n /\ k.dir = K[x].dir /\ k.node = cl /\ n \in Names /\ k.node = K[x].node
       /\ k \in [in : D, name : Names, dir : BOOLEAN, node : Areas \cup {CLUSTER_FREE}]
       /\ NewIn(K, k.in, k.name)
       /\ k.dir => k.in = K[x].in
  BY <1>3, <1>5, <1>6, <1>7, <1>9, <1>11, <1>12, <1>13 DEF NewIn
<1>15. PICK t : t = AddEntry(gap, Entry(k.name, k.dir, ro, cl))
  OBVIOUS
<1>16. slots' = RemoveEntry(t, x) /\ fat' = LinkGrown(c, gap)
  BY <1>4, <1>7, <1>10, <1>11, <1>12, <1>14, <1>15
<1>17. PICK B : AddedOk(D, K, gap, fat', t, B, k, cl)
  <2>1. AlreadyIn(K, c, k) /\ k.dir \in BOOLEAN /\ k.name \in Names
    BY <1>7, <1>14 DEF AlreadyIn
  <2>2. \E B : AddedOk(D, K, gap, LinkGrown(c, gap), AddEntry(gap, Entry(k.name, k.dir, ro, cl)), B, k, cl)
    BY <2>1, <1>5, <1>14, EntryAdded
  <2> QED BY <2>2, <1>15, <1>16, Zenon
<1>18. PICK y : y = gap.at
  OBVIOUS
<1>19. /\ fat' \in [Clusters -> Links] /\ ChainsOk(Areas, fat', B) /\ HeadsOk(lost, B, D, K)
       /\ SlotsOk(Areas, t) /\ Apart(Areas, B, D)
       /\ y \notin DOMAIN K /\ DirsOk(rootDirCluster, t, B, D, AddK(K, y, k))
       /\ t[y[1]][y[2]].cluster = cl
       /\ SameClusters(slots, t, K)
  BY <1>17, <1>18 DEF AddedOk
<1> DEFINE K1 == AddK(K, y, k)
           K2 == DropK(K1, x)
<1>20. HandlesOk(files, t, K1)
  BY <1>0, <1>14, <1>19, HandlesAdd
<1>21. TreeOk(rootDirCluster, Areas, D, K2, dep)
  BY <1>0, <1>14, <1>19, TreeMoves
<1>22. HeadsOk(lost, B, D, K2)
  <2>1. NodesOf(K2) = NodesOf(K)
    BY <1>14, <1>19, NodesMove
  <2> QED BY <2>1, <1>19 DEF HeadsOk
<1>23. /\ DOMAIN K1 = DOMAIN K \cup {y} /\ K1[y] = k /\ \A z \in DOMAIN K : K1[z] = K[z]
  BY <1>19 DEF AddK
<1>24. KidDirs(K1, D)
  <2>1. KidDirs(K, D)
    BY PictureFacts
  <2>2. k.dir => k.node \in D
    BY <2>1, <1>14 DEF KidDirs
  <2> HIDE DEF K1
  <2> QED BY <2>1, <2>2, <1>23 DEF KidDirs
<1> HIDE DEF K1
<1>25. /\ slots' = [t EXCEPT ![x[1]][x[2]] = DIR_ENTRY_FREE]
  BY <1>0, <1>7, <1>16 DEF RemoveEntry
<1>26. SlotsOk(Areas, slots') /\ Puts(Areas, t, slots', x, DIR_ENTRY_FREE)
  <2>1. DIR_ENTRY_FREE \in Slot(Areas)
    BY DEF Slot
  <2>2. /\ SlotsOk(Areas, [t EXCEPT ![x[1]][x[2]] = DIR_ENTRY_FREE])
        /\ Puts(Areas, t, [t EXCEPT ![x[1]][x[2]] = DIR_ENTRY_FREE], <<x[1], x[2]>>, DIR_ENTRY_FREE)
    BY <2>1, <1>7, <1>19, SlotPut
  <2>3. SlotsOk(Areas, slots') /\ Puts(Areas, t, slots', <<x[1], x[2]>>, DIR_ENTRY_FREE)
    BY <2>2, <1>25, Zenon
  <2> QED BY <2>3, <1>7
<1>27. DirsOk(rootDirCluster, slots', B, D, K2)
  <2>1. DirsOk(rootDirCluster, t, B, D, K1) /\ x \in DOMAIN K1
    BY <1>19, <1>23 DEF K1
  <2> QED BY <2>1, <1>19, <1>24, <1>26, TakeEntry
<1>28. SameClusters(t, slots', K2)
  <2> SUFFICES ASSUME NEW z \in DOMAIN K2 PROVE slots'[z[1]][z[2]].cluster = t[z[1]][z[2]].cluster
    BY DEF SameClusters
  <2>1. z # x /\ (z \in DOMAIN K \/ z = y)
    BY <1>23 DEF DropK
  <2>2. z = <<z[1], z[2]>> /\ z[1] \in Areas /\ z[2] \in 1 .. SlotsPerCluster
    <3>1. CASE z \in DOMAIN K
      BY <3>1, KidFields
    <3>2. CASE z = y
      BY <3>2, <1>17, <1>18 DEF AddedOk
    <3> QED BY <2>1, <3>1, <3>2
  <2> QED BY <2>1, <2>2, <1>26 DEF Puts
<1>29. HandlesOk(files', slots', K2)
  <2>1. HandlesOk(files, slots', K2)
    BY <1>8, <1>20, <1>23, <1>28, HandlesDrop DEF K1
  <2> QED BY <2>1, <1>1
<1> HIDE DEF K2
<1>30. Picture(D, B, K2, dep)'
  <2>1. /\ rootDirCluster' = rootDirCluster /\ lost' \subseteq Clusters /\ cwdCluster' \in D /\ HeadsOk(lost', B, D, K2)
        /\ files' \in [Handles -> FileOk(Areas)]
    BY <1>0, <1>1, <1>22 DEF Types
  <2>2. TreeOk(rootDirCluster, Areas, D, K2, dep)
    BY <1>21
  <2> QED BY <2>1, <2>2, <1>0, <1>19, <1>26, <1>27, <1>29, Lands
<1>31. KMoves(D, K, K2)
  BY <1>14, <1>19 DEF KMoves, K1, K2
<1> QED BY <1>1, <1>30, <1>31 DEF Arrives, TreeSteps

-----------------------------------------------------------------------------
(* mkdir, and every step *)

(* Directories whose clusters and chains a call leaves alone stay in order. *)
LEMMA DirsKept ==
    ASSUME NEW r, NEW s, NEW t, NEW C, NEW B, NEW D, NEW K, DirsOk(r, s, C, D, K), KidDirs(K, D),
           ChainsStay(C, B, D), DirsStay(s, t, C, D)
    PROVE  DirsOk(r, t, B, D, K)
BY DirsFrame DEF ChainsStay, DirsStay

(* mkdir without room in the parent: its cluster is lost.                  *)
LEMMA LostArrives ==
    ASSUME NEW D, NEW C, NEW K, NEW dep, Picture(D, C, K, dep), NEW n \in FreeClusters,
           slots' = [slots EXCEPT ![n] = Cleared], fat' = [fat EXCEPT ![n] = CLUSTER_EOF], lost' = lost \cup {n},
           UNCHANGED <<rootDirCluster, cwdCluster, files>>
    PROVE  Arrives(D, K)
<1> DEFINE B == [y \in DOMAIN C \cup {n} |-> IF y = n THEN <<n>> ELSE C[y]]
<1>0. /\ Types /\ ChainsOk(Areas, fat, C) /\ TreeOk(rootDirCluster, Areas, D, K, dep) /\ HeadsOk(lost, C, D, K)
      /\ TableType(Areas, fat) /\ D \subseteq DOMAIN C /\ cwdCluster \in D /\ HandlesOk(files, slots, K)
      /\ DirsOk(rootDirCluster, slots, C, D, K) /\ KidDirs(K, D) /\ Apart(Areas, C, D)
  BY PictureFacts DEF Picture
<1>1. IsApart(C, D, K, n)
  BY FreeIsApart
<1>2. n \in Areas /\ n # CLUSTER_ROOT /\ n \in Clusters /\ fat[n] = CLUSTER_FREE /\ n \notin D /\ n \notin DOMAIN C
      /\ n \notin NodesOf(K)
  BY <1>1 DEF IsApart
<1>3. ChainsOk(Areas, fat', B)
  <2>1. ChainsOk(Areas, [fat EXCEPT ![n] = CLUSTER_EOF], B)
    BY <1>0, <1>2, ChainBegins
  <2> HIDE DEF B
  <2> QED BY <2>1, Zenon
<1>4. TableType(Areas, fat')
  BY <1>0, <1>2 DEF TableType
<1>5. DOMAIN B = DOMAIN C \cup {n} /\ B[n] = <<n>> /\ \A y \in DOMAIN C : B[y] = C[y]
  BY <1>2
<1> HIDE DEF B
<1>6. HeadsOk(lost', B, D, K)
  <2>1. \A c \in lost : c \in DOMAIN C /\ C[c] = <<c>>
    BY <1>0 DEF HeadsOk
  <2>2. \A c \in lost' : B[c] = <<c>>
    BY <2>1, <1>5
  <2>3. DOMAIN B = D \cup NodesOf(K) \cup lost' /\ lost' \cap (D \cup NodesOf(K)) = {}
    BY <1>0, <1>2, <1>5 DEF HeadsOk
  <2> QED BY <2>2, <2>3 DEF HeadsOk
<1>7. SlotsOk(Areas, slots') /\ \A b \in Areas : b # n => slots'[b] = slots[b]
  <2>1. SlotsOk(Areas, slots) /\ Cleared \in [1 .. SlotsPerCluster -> Slot(Areas)]
    BY <1>0, ClearedTypes DEF Types
  <2>2. n \in Areas
    BY <1>2
  <2>3. SlotsOk(Areas, [slots EXCEPT ![n] = Cleared]) /\ \A b \in Areas : b # n => [slots EXCEPT ![n] = Cleared][b] = slots[b]
    BY <2>1, <2>2 DEF SlotsOk
  <2>4. slots' = [slots EXCEPT ![n] = Cleared]
    OBVIOUS
  <2> QED BY <2>3, <2>4, Zenon
<1>8. DirsOk(rootDirCluster, slots', B, D, K)
  <2>1. ASSUME NEW d \in D, NEW i \in 1 .. Len(C[d]) PROVE slots'[C[d][i]] = slots[C[d][i]]
    <3>1. C[d][i] \in Areas /\ C[d][i] # n
      BY <1>0, <1>1 DEF IsApart, Apart
    <3> QED BY <3>1, <1>7
  <2>2. ChainsStay(C, B, D)
    BY <1>0, <1>5 DEF ChainsStay
  <2>3. DirsOk(rootDirCluster, slots, C, D, K) /\ KidDirs(K, D)
    BY <1>0
  <2>4. DirsStay(slots, slots', C, D)
    BY <2>1 DEF DirsStay
  <2> QED BY <2>2, <2>3, <2>4, DirsKept
<1>9. SameClusters(slots, slots', K)
  <2> SUFFICES ASSUME NEW y \in DOMAIN K PROVE slots'[y[1]] = slots[y[1]]
    BY DEF SameClusters
  <2>1. y[1] \in Areas /\ y[1] # n
    BY <1>1, KidFields DEF IsApart
  <2> QED BY <2>1, <1>7
<1>10. HandlesOk(files', slots', K)
  <2>1. HandlesOk(files, slots', K)
    BY <1>0, <1>9, HandlesStay
  <2> QED BY <2>1
<1>11. /\ rootDirCluster' = rootDirCluster /\ fat' \in [Clusters -> Links] /\ lost' \subseteq Clusters
       /\ files' \in [Handles -> FileOk(Areas)] /\ cwdCluster' \in D
  BY <1>0, <1>2, <1>4, TableTypes DEF Types
<1>12. Picture(D, B, K, dep)'
  BY <1>0, <1>3, <1>6, <1>7, <1>8, <1>10, <1>11, Lands
<1>13. TreeSteps(D, K, K)
  BY DEF TreeSteps
<1> QED BY <1>12, <1>13 DEF Arrives

(* A gap stays one when slots of other clusters change.                    *)
LEMMA GapStays ==
    ASSUME NEW s, NEW t, NEW ch, NEW y, HasGap(s, ch, y), \A i \in 1 .. Len(ch) : t[ch[i]] = s[ch[i]]
    PROVE  HasGap(t, ch, y)
<1>1. PICK i \in 1 .. Len(ch), k \in 1 .. SlotsPerCluster : GapAt(s, ch, y, i, k)
  BY DEF HasGap
<1>2. GapAt(t, ch, y, i, k)
  BY <1>1 DEF GapAt
<1> QED BY <1>2 DEF HasGap

(* The new directory n in the gap of directory c: the table f, the slots t *)
(* and the chains B.                                                       *)
MadeOk(D, K, y, n, f, t, B, k) ==
    /\ f \in [Clusters -> Links] /\ ChainsOk(Areas, f, B)
    /\ SlotsOk(Areas, t)
    /\ y \notin DOMAIN K /\ DirsOk(rootDirCluster, t, B, D \cup {n}, AddK(K, y, k))
    /\ HeadsOk(lost, B, D \cup {n}, AddK(K, y, k))
    /\ t[y[1]][y[2]].cluster = n
    /\ SameClusters(slots, t, K)

(* mkdir with room in the parent: the directory is there with its dot      *)
(* entries, and the parent, which may have grown, has its entry.           *)
LEMMA DirectoryMade ==
    ASSUME NEW D, NEW C, NEW K, NEW dep, Picture(D, C, K, dep), NEW c \in D, NEW n \in FreeClusters,
           NEW gap \in EntryGap(c, {n}), NEW k, k.in = c, k.name \in Names, k.dir = TRUE, k.node = n
    PROVE  \E B : MadeOk(D, K, gap.at, n, [LinkGrown(c, gap) EXCEPT ![n] = CLUSTER_EOF],
                         [AddEntry(gap, Entry(k.name, TRUE, FALSE, n)) EXCEPT ![n] = Dots(c, n)], B, k)
<1> DEFINE f == LinkGrown(c, gap)
           e == Entry(k.name, TRUE, FALSE, n)
           E == D \cup {n}
<1>0. KidDirs(K, D) /\ IsApart(C, D, K, n) /\ D \subseteq DOMAIN C
  BY PictureFacts, FreeIsApart
<1>1. PICK s : s = GrownSlots(slots, gap.grow)
  OBVIOUS
<1>2. PICK B : GrownOk(f, s, B, C, D, K, c, gap)
  <2>1. \E B : GrownOk(LinkGrown(c, gap), GrownSlots(slots, gap.grow), B, C, D, K, c, gap)
    BY DirectoryGrows
  <2> QED BY <2>1, <1>1
<1>3. PICK y : y = gap.at
  OBVIOUS
<1>4. n # gap.grow
  <2>1. GapOk(slots, C[c], c, gap, {n})
    BY GapRead
  <2> QED BY <2>1, <1>0 DEF GapOk, IsApart
<1>5. /\ TableType(Areas, f) /\ SlotsOk(Areas, s)
      /\ ChainsOk(Areas, f, B) /\ DirsOk(rootDirCluster, s, B, D, K) /\ Apart(Areas, B, D) /\ HeadsOk(lost, B, D, K)
      /\ HasGap(s, B[c], y)
      /\ y = <<y[1], y[2]>> /\ y[1] \in Areas /\ y[2] \in 1 .. SlotsPerCluster
      /\ SameClusters(slots, s, K) /\ DOMAIN B = DOMAIN C
      /\ AddEntry(gap, e) = [s EXCEPT ![y[1]][y[2]] = e]
      /\ f[n] = CLUSTER_FREE /\ y[1] # n
      /\ \A d \in DOMAIN B : \A i \in 1 .. Len(B[d]) : B[d][i] # n
  BY <1>2, <1>3, <1>4 DEF GrownOk
<1>6. /\ n \in Areas /\ n \in Clusters /\ n # CLUSTER_ROOT /\ n \notin DOMAIN B /\ n \notin D /\ n \notin lost
      /\ n \notin NodesOf(K) /\ n # CLUSTER_FREE /\ n \in E /\ \A x \in DOMAIN K : x[1] # n
  BY <1>0, <1>5 DEF IsApart
<1>7. e \in Slot(Areas) /\ IsKid(e) /\ e.name = k.name /\ e.dir = k.dir /\ e.cluster = n
  BY <1>6, EntryTypes, TreeConstants DEF IsKid, Entry
<1>8. PICK up : up = DotDotCluster(c)
  OBVIOUS
<1>9. PICK w : w = Dots(c, n)
  OBVIOUS
<1>10. DotsIn(w, n, up) /\ up = UpOf(rootDirCluster, c) /\ up \in Areas \cup {CLUSTER_FREE}
  <2>1. c \in Areas /\ CLUSTER_ROOT = CLUSTER_FREE
    BY PictureFacts DEF CLUSTER_ROOT, CLUSTER_FREE
  <2> QED BY <2>1, <1>8, <1>9, DotsAreIn DEF DotDotCluster, UpOf
<1>11. w \in [1 .. SlotsPerCluster -> Slot(Areas)]
  <2>1. PICK d1, d2 : d1 = Entry(".", TRUE, FALSE, n) /\ d2 = Entry("..", TRUE, FALSE, up)
    OBVIOUS
  <2>2. d1 \in Slot(Areas) /\ d2 \in Slot(Areas)
    BY <2>1, <1>6, <1>10, EntryTypes
  <2>3. w = [Cleared EXCEPT ![1] = d1, ![2] = d2]
    BY <2>1, <1>8, <1>9 DEF Dots
  <2>4. Cleared \in [1 .. SlotsPerCluster -> Slot(Areas)]
    BY ClearedTypes
  <2> QED BY <2>2, <2>3, <2>4
<1> HIDE DEF e, f
<1> DEFINE u == [s EXCEPT ![n] = w]
           t == [u EXCEPT ![y[1]][y[2]] = e]
           B2 == [z \in DOMAIN B \cup {n} |-> IF z = n THEN <<n>> ELSE B[z]]
           f2 == [f EXCEPT ![n] = CLUSTER_EOF]
<1>12. SlotsOk(Areas, u) /\ u[n] = w /\ \A b \in Areas : b # n => u[b] = s[b]
  <2>1. SlotsOk(Areas, s) /\ n \in Areas
    BY <1>5, <1>6
  <2> QED BY <2>1, <1>11, SlotsClear
<1>13. DOMAIN B2 = DOMAIN B \cup {n} /\ B2[n] = <<n>> /\ \A z \in DOMAIN B : B2[z] = B[z]
  BY <1>6
<1>14. ChainsOk(Areas, f2, B2)
  BY <1>5, <1>6, ChainBegins
<1>15. TableType(Areas, f2)
  BY <1>5, <1>6 DEF TableType
<1>16. [AddEntry(gap, e) EXCEPT ![n] = w] = t
  <2>1. [[s EXCEPT ![y[1]][y[2]] = e] EXCEPT ![n] = w] = [[s EXCEPT ![n] = w] EXCEPT ![y[1]][y[2]] = e]
    BY <1>5, <1>6 DEF SlotsOk
  <2> QED BY <2>1, <1>5
<1> HIDE DEF u, B2, f2
<1>17. DirsOk(rootDirCluster, u, B2, E, K) /\ Apart(Areas, B2, E) /\ DotsOk(u, B2[n], n, up)
  <2>1. AwayFrom(B, D, n)
    BY <1>0, <1>5 DEF AwayFrom
  <2>2. ChainsStay(B, B2, D)
    BY <1>0, <1>5, <1>13 DEF ChainsStay
  <2>3. DotsIn(u[n], n, up)
    BY <1>10, <1>12
  <2>4. DirsOk(rootDirCluster, s, B, D, K) /\ Apart(Areas, B, D) /\ KidDirs(K, D) /\ n \in Areas /\ n \notin D /\ B2[n] = <<n>>
    BY <1>0, <1>5, <1>6, <1>13
  <2>5. OthersStay(Areas, s, u, n)
    BY <1>12 DEF OthersStay
  <2>6. DirsOk(rootDirCluster, u, B2, D \cup {n}, K) /\ Apart(Areas, B2, D \cup {n}) /\ DotsOk(u, B2[n], n, up)
    BY <2>1, <2>2, <2>3, <2>4, <2>5, DirBegins
  <2> QED BY <2>6
<1>18. SlotsOk(Areas, t) /\ Puts(Areas, u, t, y, e)
  <2>1. SlotsOk(Areas, t) /\ Puts(Areas, u, t, <<y[1], y[2]>>, e)
    BY <1>5, <1>7, <1>12, SlotPut
  <2> HIDE DEF t
  <2> QED BY <2>1, <1>5
<1> HIDE DEF t
<1>19. HasGap(u, B2[c], y)
  <2>1. B2[c] = B[c] /\ c \in DOMAIN B
    BY <1>0, <1>5, <1>13
  <2>2. ASSUME NEW i \in 1 .. Len(B[c]) PROVE u[B[c][i]] = s[B[c][i]]
    <3>1. B[c][i] \in Areas /\ B[c][i] # n
      BY <2>1, <1>5 DEF Apart
    <3> QED BY <3>1, <1>12
  <2> QED BY <2>1, <2>2, <1>5, GapStays
<1>20. y \notin DOMAIN K /\ DirsOk(rootDirCluster, t, B2, E, AddK(K, y, k))
  <2>1. k.dir => k.node \in E /\ DotsOk(u, B2[k.node], k.node, UpOf(rootDirCluster, c))
    BY <1>6, <1>10, <1>17
  <2>2. KidDirs(K, E) /\ c \in E
    BY <1>0 DEF KidDirs
  <2> HIDE DEF E
  <2> QED BY <2>1, <2>2, <1>7, <1>17, <1>18, <1>19, PutEntry
<1>21. HeadsOk(lost, B2, E, AddK(K, y, k))
  <2>1. NodesOf(AddK(K, y, k)) = NodesOf(K) \cup {n}
    <3>1. NodesOf(AddK(K, y, k)) = NodesOf(K) \cup ({k.node} \ {CLUSTER_FREE})
      BY <1>20, NodesAdd
    <3> QED BY <3>1, <1>6
  <2>2. \A d \in lost : d \in DOMAIN B /\ B[d] = <<d>>
    BY <1>5 DEF HeadsOk
  <2>3. \A d \in lost : B2[d] = <<d>>
    BY <2>2, <1>13
  <2>4. DOMAIN B2 = E \cup NodesOf(AddK(K, y, k)) \cup lost /\ lost \cap (E \cup NodesOf(AddK(K, y, k))) = {}
    BY <2>1, <1>5, <1>6, <1>13 DEF HeadsOk
  <2> QED BY <2>3, <2>4 DEF HeadsOk
<1>22. t[y[1]][y[2]].cluster = n
  BY <1>5, <1>7, <1>18 DEF Puts
<1>23. SameClusters(slots, t, K)
  <2> SUFFICES ASSUME NEW x \in DOMAIN K PROVE t[x[1]][x[2]].cluster = slots[x[1]][x[2]].cluster
    BY DEF SameClusters
  <2>1. x = <<x[1], x[2]>> /\ x[1] \in Areas /\ x[2] \in 1 .. SlotsPerCluster /\ x # y /\ x[1] # n
    BY <1>6, <1>20, KidFields
  <2>2. t[x[1]][x[2]] = s[x[1]][x[2]]
    BY <2>1, <1>12, <1>18 DEF Puts
  <2> QED BY <2>2, <1>5 DEF SameClusters
<1>24. f2 \in [Clusters -> Links]
  BY <1>15, TableTypes
<1>25. MadeOk(D, K, y, n, f2, t, B2, k)
  BY <1>14, <1>18, <1>20, <1>21, <1>22, <1>23, <1>24 DEF MadeOk
<1>26. MadeOk(D, K, gap.at, n, [f EXCEPT ![n] = CLUSTER_EOF], [AddEntry(gap, e) EXCEPT ![n] = Dots(c, n)], B2, k)
  BY <1>3, <1>9, <1>16, <1>25, Zenon DEF f2
<1> QED BY <1>26 DEF f, e

(* mkdir, with room in the parent or without.                              *)
LEMMA MkdirArrives ==
    ASSUME NEW D, NEW C, NEW K, NEW dep, Picture(D, C, K, dep), NEW p \in CallPaths, Mkdir(p)
    PROVE  Arrives(D, K)
<1>0. /\ Types /\ HandlesOk(files, slots, K) /\ cwdCluster \in D /\ TreeOk(rootDirCluster, Areas, D, K, dep)
  BY DEF Picture
<1>1. Target(p) = {} /\ UNCHANGED <<rootDirCluster, cwdCluster, files>>
  BY DEF Mkdir
<1>2. PICK c \in ParentCluster(p), n \in FreeClusters :
         \/ \E gap \in EntryGap(c, {n}) :
              /\ slots' = [AddEntry(gap, Entry(NewName(p), TRUE, FALSE, n)) EXCEPT ![n] = Dots(c, n)]
              /\ fat' = [LinkGrown(c, gap) EXCEPT ![n] = CLUSTER_EOF]
              /\ lost' = lost
         \/ /\ EntryGap(c, {n}) = {}
            /\ slots' = [slots EXCEPT ![n] = Cleared]
            /\ fat' = [fat EXCEPT ![n] = CLUSTER_EOF]
            /\ lost' = lost \cup {n}
  BY DEF Mkdir
<1>3. CASE /\ slots' = [slots EXCEPT ![n] = Cleared]
           /\ fat' = [fat EXCEPT ![n] = CLUSTER_EOF]
           /\ lost' = lost \cup {n}
  BY <1>1, <1>3, LostArrives
<1>4. CASE \E gap \in EntryGap(c, {n}) :
              /\ slots' = [AddEntry(gap, Entry(NewName(p), TRUE, FALSE, n)) EXCEPT ![n] = Dots(c, n)]
              /\ fat' = [LinkGrown(c, gap) EXCEPT ![n] = CLUSTER_EOF]
              /\ lost' = lost
  <2>1. PICK gap \in EntryGap(c, {n}) :
              /\ slots' = [AddEntry(gap, Entry(NewName(p), TRUE, FALSE, n)) EXCEPT ![n] = Dots(c, n)]
              /\ fat' = [LinkGrown(c, gap) EXCEPT ![n] = CLUSTER_EOF]
              /\ lost' = lost
    BY <1>4
  <2>2. c \in D /\ NewName(p) \in Names /\ \A x \in DOMAIN K : ~(K[x].in = c /\ K[x].name = NewName(p))
    BY <1>1, CallPathMeans DEF PathMeans
  <2>3. IsApart(C, D, K, n)
    BY FreeIsApart
  <2>4. PICK k : k = [in |-> c, name |-> NewName(p), dir |-> TRUE, node |-> n]
    OBVIOUS
  <2>5. /\ k.in = c /\ k.name = NewName(p) /\ k.dir = TRUE /\ k.node = n /\ k.name \in Names
        /\ k \in [in : D, name : Names, dir : BOOLEAN, node : Areas \cup {CLUSTER_FREE}]
        /\ NewIn(K, k.in, k.name) /\ Fresh(Areas, D, K, k.node)
    BY <2>2, <2>3, <2>4 DEF NewIn, IsApart
  <2>6. PICK B : MadeOk(D, K, gap.at, n, fat', slots', B, k)
    <3>1. \E B : MadeOk(D, K, gap.at, n, [LinkGrown(c, gap) EXCEPT ![n] = CLUSTER_EOF],
                         [AddEntry(gap, Entry(k.name, TRUE, FALSE, n)) EXCEPT ![n] = Dots(c, n)], B, k)
      BY <2>2, <2>5, DirectoryMade
    <3> QED BY <2>1, <2>5, <3>1, Zenon
  <2>7. PICK y : y = gap.at
    OBVIOUS
  <2>8. /\ fat' \in [Clusters -> Links] /\ ChainsOk(Areas, fat', B)
        /\ SlotsOk(Areas, slots')
        /\ y \notin DOMAIN K /\ DirsOk(rootDirCluster, slots', B, D \cup {n}, AddK(K, y, k))
        /\ HeadsOk(lost, B, D \cup {n}, AddK(K, y, k))
        /\ slots'[y[1]][y[2]].cluster = n
        /\ SameClusters(slots, slots', K)
    BY <2>6, <2>7 DEF MadeOk
  <2>9. PICK dep2 : TreeOk(rootDirCluster, Areas, D \cup {n}, AddK(K, y, k), dep2)
    <3>1. \E dep2 : TreeOk(rootDirCluster, Areas, D \cup {k.node}, AddK(K, y, k), dep2)
      BY <2>5, <2>8, <1>0, TreeAddsDir
    <3> QED BY <3>1, <2>5
  <2>10. HandlesOk(files', slots', AddK(K, y, k))
    <3>1. HandlesOk(files, slots', AddK(K, y, k))
      BY <2>5, <2>8, <1>0, HandlesAdd
    <3> QED BY <3>1, <1>1
  <2> DEFINE K1 == AddK(K, y, k)
             E == D \cup {n}
  <2>11. /\ rootDirCluster' = rootDirCluster /\ lost' \subseteq Clusters /\ cwdCluster' \in E /\ HeadsOk(lost', B, E, K1)
         /\ files' \in [Handles -> FileOk(Areas)]
    BY <2>1, <2>8, <1>0, <1>1 DEF Types
  <2>12. DirsOk(rootDirCluster, slots', B, E, K1) /\ TreeOk(rootDirCluster, Areas, E, K1, dep2) /\ HandlesOk(files', slots', K1)
    BY <2>8, <2>9, <2>10
  <2> HIDE DEF K1, E
  <2>13. Picture(E, B, K1, dep2)'
    BY <2>8, <2>11, <2>12, <1>0, Lands
  <2>14. KCreates(D, K, K1)
    BY <2>5, <2>8 DEF KCreates, K1
  <2> QED BY <1>1, <2>13, <2>14 DEF Arrives, TreeSteps
<1> QED BY <1>2, <1>3, <1>4

(* Every step lands in a picture of its own.                               *)
LEMMA NextArrives ==
    ASSUME NEW D, NEW C, NEW K, NEW dep, Picture(D, C, K, dep), Next
    PROVE  Arrives(D, K)
<1>1. CASE FileCalls
  <2>1. PICK h \in Handles :
        \/ \E p \in CallPaths, write, trunc \in BOOLEAN : OpenExisting(h, p, write, trunc)
        \/ \E p \in CallPaths, write \in BOOLEAN : OpenCreate(h, p, write)
        \/ Write(h)
        \/ Truncate(h)
        \/ Fsync(h)
        \/ Close(h)
    BY <1>1 DEF FileCalls
  <2>2. CASE \E p \in CallPaths, write, trunc \in BOOLEAN : OpenExisting(h, p, write, trunc)
    BY <2>2, OpenExistingArrives
  <2>3. CASE \E p \in CallPaths, write \in BOOLEAN : OpenCreate(h, p, write)
    BY <2>3, OpenCreateArrives
  <2>4. CASE Write(h)
    BY <2>4, WriteArrives
  <2>5. CASE Truncate(h)
    BY <2>5, TruncateArrives
  <2>6. CASE Fsync(h)
    BY <2>6, FsyncArrives
  <2>7. CASE Close(h)
    BY <2>7, CloseArrives
  <2> QED BY <2>1, <2>2, <2>3, <2>4, <2>5, <2>6, <2>7
<1>2. CASE DirectoryCalls
  <2>1. CASE \E p \in CallPaths : Unlink(p) \/ Rmdir(p) \/ Mkdir(p) \/ Chdir(p)
    BY <2>1, UnlinkArrives, RmdirArrives, MkdirArrives, ChdirArrives
  <2>2. CASE \E p, q \in CallPaths : Rename(p, q)
    BY <2>2, RenameArrives
  <2>3. CASE \E p \in CallPaths, readOnly \in BOOLEAN : SetAttr(p, readOnly)
    BY <2>3, SetAttrArrives
  <2> QED BY <1>2, <2>1, <2>2, <2>3 DEF DirectoryCalls
<1> QED BY <1>1, <1>2 DEF Next

(* A step that changes nothing.                                            *)
LEMMA StutterArrives ==
    ASSUME NEW D, NEW C, NEW K, NEW dep, Picture(D, C, K, dep), UNCHANGED vars
    PROVE  Arrives(D, K)
<1>1. UNCHANGED <<rootDirCluster, fat, slots, cwdCluster, files, lost>>
  BY DEF vars
<1>2. /\ SlotsOk(Areas, slots') /\ DirsOk(rootDirCluster, slots', C, D, K)
      /\ files' \in [Handles -> FileOk(Areas)] /\ HandlesOk(files', slots', K) /\ cwdCluster' \in D
  BY <1>1 DEF Picture, Types
<1> QED BY <1>1, <1>2, SameArrives

-----------------------------------------------------------------------------
(* The rows of the abstract tree *)

(* The name that a directory has in the abstract tree, whose root is the   *)
(* same on every kind of volume.                                           *)
NodeName(r, c) == IF c = r THEN RootCluster ELSE c

(* The row of kid k in the abstract tree.                                  *)
NamedRow(r, k) == [dir |-> NodeName(r, k.in), name |-> k.name, isDir |-> k.dir, node |-> k.node]

(* The rows of the abstract tree.                                          *)
RowSet(r, K) == {NamedRow(r, K[x]) : x \in DOMAIN K}

(* Its directories.                                                        *)
NodeNames(r, D) == {NodeName(r, d) : d \in D}

(* No directory but the root has the root's name.                          *)
RootApart(r, A, D) ==
    /\ RootCluster \notin D \ {r}
    /\ D \subseteq A /\ A \subseteq DataClusters \cup {r, CLUSTER_FREE} /\ r \in D

(* In a picture the rows are those of its kids.                            *)
RowsShown ==
    \A D, C, K, dep : Picture(D, C, K, dep) =>
        /\ NamedRows = RowSet(rootDirCluster, K)
        /\ RootApart(rootDirCluster, Areas, D)
        /\ TreeOk(rootDirCluster, Areas, D, K, dep)
        /\ cwdCluster \in D
        /\ Node(cwdCluster) = NodeName(rootDirCluster, cwdCluster)

(* That is so in every picture.                                            *)
LEMMA NamedRowsRead == RowsShown
<1> SUFFICES ASSUME NEW D, NEW C, NEW K, NEW dep, Picture(D, C, K, dep)
             PROVE  /\ NamedRows = RowSet(rootDirCluster, K)
                    /\ RootApart(rootDirCluster, Areas, D)
                    /\ TreeOk(rootDirCluster, Areas, D, K, dep)
                    /\ cwdCluster \in D
                    /\ Node(cwdCluster) = NodeName(rootDirCluster, cwdCluster)
  BY DEF RowsShown
<1>1. TreeOk(rootDirCluster, Areas, D, K, dep) /\ cwdCluster \in D /\ Types
  BY DEF Picture
<1>2. RootApart(rootDirCluster, Areas, D)
  BY <1>1, TreeConstants DEF RootApart, TreeOk, Types, Areas, Clusters, CLUSTER_ROOT
<1>3. \A c : Node(c) = NodeName(rootDirCluster, c)
  BY DEF Node, NodeName
<1>4. \A k : [RowOf(k) EXCEPT !.dir = Node(RowOf(k).dir)] = NamedRow(rootDirCluster, k)
  BY <1>3 DEF RowOf, NamedRow
<1>5. Rows = {RowOf(K[x]) : x \in DOMAIN K}
  BY RowsRead
<1>6. NamedRows = {[RowOf(K[x]) EXCEPT !.dir = Node(RowOf(K[x]).dir)] : x \in DOMAIN K}
  BY <1>5 DEF NamedRows
<1>7. NamedRows = RowSet(rootDirCluster, K)
  BY <1>4, <1>6 DEF RowSet
<1> QED BY <1>1, <1>2, <1>3, <1>7

(* Directories keep their names apart.                                     *)
LEMMA NamesApart ==
    ASSUME NEW r, NEW A, NEW D, RootApart(r, A, D)
    PROVE  /\ \A c, d \in D : NodeName(r, c) = NodeName(r, d) => c = d
           /\ \A c \in D \ {r} : NodeName(r, c) = c
BY DEF RootApart, NodeName

(* Every kid has a row of its own.                                         *)
LEMMA RowsApart ==
    ASSUME NEW r, NEW A, NEW D, NEW K, NEW dep, TreeOk(r, A, D, K, dep), RootApart(r, A, D)
    PROVE  /\ \A x, y \in DOMAIN K : NodeName(r, K[x].in) = NodeName(r, K[y].in) /\ K[x].name = K[y].name => x = y
           /\ \A x \in DOMAIN K : K[x].in \in D /\ K[x].name \in Names /\ K[x].dir \in BOOLEAN
           /\ \A x \in DOMAIN K : K[x].dir => K[x].node \in D \ {r}
<1>1. \A x \in DOMAIN K : K[x] \in [in : D, name : Names, dir : BOOLEAN, node : A \cup {CLUSTER_FREE}]
  BY DEF TreeOk
<1>2. \A x \in DOMAIN K : K[x].in \in D /\ K[x].name \in Names /\ K[x].dir \in BOOLEAN
  BY <1>1
<1>3. \A x \in DOMAIN K : K[x].dir => K[x].node \in D \ {r}
  BY DEF TreeOk
<1>4. ASSUME NEW x \in DOMAIN K, NEW y \in DOMAIN K, NodeName(r, K[x].in) = NodeName(r, K[y].in), K[x].name = K[y].name
      PROVE  x = y
  <2>1. K[x].in = K[y].in
    BY <1>2, <1>4, NamesApart
  <2> QED BY <2>1, <1>4 DEF TreeOk
<1> QED BY <1>2, <1>3, <1>4

(* The directories of the abstract tree are those of the picture.          *)
LEMMA DirectoriesRead ==
    ASSUME NEW r, NEW A, NEW D, NEW K, NEW dep, TreeOk(r, A, D, K, dep), RootApart(r, A, D)
    PROVE  {RootCluster} \cup {s.node : s \in {t \in RowSet(r, K) : t.isDir}} = NodeNames(r, D)
<1> DEFINE L == {RootCluster} \cup {s.node : s \in {t \in RowSet(r, K) : t.isDir}}
<1>1. ASSUME NEW n \in L PROVE n \in NodeNames(r, D)
  <2>1. CASE n = RootCluster
    BY <2>1 DEF NodeNames, NodeName, RootApart
  <2>2. CASE n # RootCluster
    <3>1. PICK s \in RowSet(r, K) : s.isDir /\ n = s.node
      BY <2>2
    <3>2. PICK x \in DOMAIN K : s = NamedRow(r, K[x])
      BY <3>1 DEF RowSet
    <3>3. K[x].dir /\ n = K[x].node
      BY <3>1, <3>2 DEF NamedRow
    <3>4. n \in D \ {r}
      BY <3>3, RowsApart
    <3> QED BY <3>4, NamesApart DEF NodeNames
  <2> QED BY <2>1, <2>2
<1>2. ASSUME NEW d \in D PROVE NodeName(r, d) \in L
  <2>1. CASE d = r
    BY <2>1 DEF NodeName
  <2>2. CASE d # r
    <3>1. PICK x \in DOMAIN K : K[x].dir /\ K[x].node = d
      BY <2>2 DEF TreeOk
    <3>2. NamedRow(r, K[x]) \in RowSet(r, K) /\ NamedRow(r, K[x]).isDir /\ NamedRow(r, K[x]).node = d
      BY <3>1 DEF RowSet, NamedRow
    <3>3. NodeName(r, d) = d
      BY <2>2 DEF NodeName
    <3> QED BY <3>2, <3>3
  <2> QED BY <2>1, <2>2
<1> HIDE DEF L
<1>3. L = NodeNames(r, D)
  BY <1>1, <1>2 DEF NodeNames
<1> QED BY <1>3 DEF L

(* The row's name is new in its directory, one of Ds.                      *)
NewRow(R, Ds, s) == s.dir \in Ds /\ s.name \in Names /\ \A t \in R : ~(t.dir = s.dir /\ t.name = s.name)

(* No row holds v.                                                         *)
UnusedNode(R, v) == v \in DataClusters /\ \A t \in R : t.node # v

(* The rows R become R1: a file or a directory is made, goes, moves, or a  *)
(* file's contents begin or end.                                           *)
RowsCreate(R, R1, Ds) ==
    /\ R \ R1 = {}
    /\ \E s : /\ R1 \ R = {s} /\ NewRow(R, Ds, s)
              /\ IF s.isDir THEN UnusedNode(R, s.node) ELSE s.node = CLUSTER_FREE

(* A row goes; nothing is in it and it is not the current directory.       *)
RowsRemove(R, R1, current) ==
    /\ R1 \ R = {}
    /\ \E s : R \ R1 = {s} /\ (s.isDir => s.node # current /\ \A t \in R : t.dir # s.node)

(* A row gets a new name or another directory.                             *)
RowsMove(R, R1, Ds) ==
    \E s, t : R \ R1 = {s} /\ R1 \ R = {t} /\ NewRow(R, Ds, t) /\ t.isDir = s.isDir /\ t.node = s.node

(* A file gets contents that nobody has, or loses them.                    *)
RowsWrite(R, R1) ==
    \E s, t : /\ R \ R1 = {s} /\ R1 \ R = {t} /\ ~s.isDir /\ t = [s EXCEPT !.node = t.node]
              /\ IF s.node = CLUSTER_FREE THEN UnusedNode(R, t.node) ELSE t.node = CLUSTER_FREE

(* A new name among the kids is one among the rows.                        *)
LEMMA NewRowRead ==
    ASSUME NEW r, NEW A, NEW D, NEW K, NEW dep, TreeOk(r, A, D, K, dep), RootApart(r, A, D),
           NEW k, k.in \in D, k.name \in Names, NewIn(K, k.in, k.name)
    PROVE  NewRow(RowSet(r, K), NodeNames(r, D), NamedRow(r, k)) /\ NamedRow(r, k) \notin RowSet(r, K)
<1> DEFINE s == NamedRow(r, k)
<1>1. s.dir = NodeName(r, k.in) /\ s.name = k.name
  BY DEF NamedRow
<1>2. s.dir \in NodeNames(r, D)
  BY <1>1 DEF NodeNames
<1>3. ASSUME NEW t \in RowSet(r, K), t.dir = s.dir, t.name = s.name PROVE FALSE
  <2>1. PICK x \in DOMAIN K : t = NamedRow(r, K[x])
    BY DEF RowSet
  <2>2. NodeName(r, K[x].in) = NodeName(r, k.in) /\ K[x].name = k.name
    BY <1>1, <1>3, <2>1 DEF NamedRow
  <2>3. K[x].in = k.in
    BY <2>2, RowsApart, NamesApart
  <2> QED BY <2>2, <2>3 DEF NewIn
<1> HIDE DEF s
<1>4. NewRow(RowSet(r, K), NodeNames(r, D), s)
  BY <1>1, <1>2, <1>3 DEF NewRow
<1>5. s \notin RowSet(r, K)
  BY <1>3
<1> QED BY <1>4, <1>5 DEF s

(* A fresh cluster is a node that no row has.                              *)
LEMMA UnusedRead ==
    ASSUME NEW r, NEW A, NEW D, NEW K, RootApart(r, A, D), NEW v, Fresh(A, D, K, v)
    PROVE  UnusedNode(RowSet(r, K), v)
<1>1. v \in DataClusters
  BY DEF Fresh, RootApart
<1>2. ASSUME NEW t \in RowSet(r, K) PROVE t.node # v
  <2>1. PICK x \in DOMAIN K : t = NamedRow(r, K[x])
    BY DEF RowSet
  <2> QED BY <2>1 DEF NamedRow, Fresh
<1> QED BY <1>1, <1>2 DEF UnusedNode

(* The rows when a kid is added, taken away or written.                    *)
LEMMA RowsAdd ==
    ASSUME NEW r, NEW K, NEW y, y \notin DOMAIN K, NEW k
    PROVE  RowSet(r, AddK(K, y, k)) = RowSet(r, K) \cup {NamedRow(r, k)}
<1> DEFINE K1 == AddK(K, y, k)
<1>1. DOMAIN K1 = DOMAIN K \cup {y} /\ K1[y] = k /\ \A x \in DOMAIN K : K1[x] = K[x]
  BY DEF AddK
<1> HIDE DEF K1
<1>2. RowSet(r, K1) = RowSet(r, K) \cup {NamedRow(r, k)}
  BY <1>1 DEF RowSet
<1> QED BY <1>2 DEF K1

(* A kid that goes takes its row along.                                    *)
LEMMA RowsDrop ==
    ASSUME NEW r, NEW A, NEW D, NEW K, NEW dep, TreeOk(r, A, D, K, dep), RootApart(r, A, D), NEW x \in DOMAIN K
    PROVE  /\ RowSet(r, DropK(K, x)) = RowSet(r, K) \ {NamedRow(r, K[x])}
           /\ NamedRow(r, K[x]) \in RowSet(r, K)
<1> DEFINE K1 == DropK(K, x)
           s == NamedRow(r, K[x])
<1>1. DOMAIN K1 = DOMAIN K \ {x} /\ \A y \in DOMAIN K \ {x} : K1[y] = K[y]
  BY DEF DropK
<1>2. ASSUME NEW y \in DOMAIN K, NamedRow(r, K[y]) = s PROVE y = x
  <2>1. NodeName(r, K[x].in) = NodeName(r, K[y].in) /\ K[x].name = K[y].name
    BY <1>2 DEF NamedRow
  <2> QED BY <2>1, RowsApart
<1> HIDE DEF K1, s
<1>3. RowSet(r, K1) = RowSet(r, K) \ {s}
  <2>1. ASSUME NEW t \in RowSet(r, K1) PROVE t \in RowSet(r, K) \ {s}
    <3>1. PICK y \in DOMAIN K \ {x} : t = NamedRow(r, K[y])
      BY <1>1 DEF RowSet
    <3> QED BY <3>1, <1>2 DEF RowSet
  <2>2. ASSUME NEW t \in RowSet(r, K), t # s PROVE t \in RowSet(r, K1)
    <3>1. PICK y \in DOMAIN K : t = NamedRow(r, K[y])
      BY DEF RowSet
    <3>2. y # x
      BY <3>1, <2>2 DEF s
    <3> QED BY <3>1, <3>2, <1>1 DEF RowSet
  <2> QED BY <2>1, <2>2
<1>4. s \in RowSet(r, K)
  BY DEF RowSet, s
<1> QED BY <1>3, <1>4 DEF K1, s

(* A file with other contents has another row.                             *)
LEMMA RowsSet ==
    ASSUME NEW r, NEW A, NEW D, NEW K, NEW dep, TreeOk(r, A, D, K, dep), RootApart(r, A, D), NEW x \in DOMAIN K,
           NEW v, v # K[x].node
    PROVE  LET s == NamedRow(r, K[x])
               t == [s EXCEPT !.node = v]
           IN  /\ RowSet(r, SetNode(K, x, v)) = (RowSet(r, K) \ {s}) \cup {t}
               /\ s \in RowSet(r, K) /\ t \notin RowSet(r, K)
<1> DEFINE K1 == SetNode(K, x, v)
           s == NamedRow(r, K[x])
           t == [s EXCEPT !.node = v]
<1>0. K[x] \in [in : D, name : Names, dir : BOOLEAN, node : A \cup {CLUSTER_FREE}]
  BY DEF TreeOk
<1>1. DOMAIN K1 = DOMAIN K /\ K1[x] = [K[x] EXCEPT !.node = v] /\ \A y \in DOMAIN K \ {x} : K1[y] = K[y]
  BY DEF SetNode
<1>2. s.dir = NodeName(r, K[x].in) /\ s.name = K[x].name /\ t.dir = s.dir /\ t.name = s.name
      /\ s.node = K[x].node /\ t.node = v
  BY DEF NamedRow
<1>3. NamedRow(r, K1[x]) = t
  BY <1>0, <1>1 DEF NamedRow
<1>4. ASSUME NEW y \in DOMAIN K, NamedRow(r, K[y]).dir = s.dir, NamedRow(r, K[y]).name = s.name PROVE y = x
  <2>1. NodeName(r, K[x].in) = NodeName(r, K[y].in) /\ K[x].name = K[y].name
    BY <1>2, <1>4 DEF NamedRow
  <2> QED BY <2>1, RowsApart
<1>5. s = NamedRow(r, K[x])
  OBVIOUS
<1> HIDE DEF K1, s, t
<1>6. s \in RowSet(r, K)
  BY <1>5 DEF RowSet
<1>7. t \notin RowSet(r, K)
  <2> SUFFICES ASSUME NEW y \in DOMAIN K, t = NamedRow(r, K[y]) PROVE FALSE
    BY DEF RowSet
  <2>1. y = x
    BY <1>2, <1>4
  <2> QED BY <2>1, <1>2, <1>5
<1>8. RowSet(r, K1) = (RowSet(r, K) \ {s}) \cup {t}
  <2>1. ASSUME NEW u \in RowSet(r, K1) PROVE u \in (RowSet(r, K) \ {s}) \cup {t}
    <3>1. PICK y \in DOMAIN K : u = NamedRow(r, K1[y])
      BY <1>1 DEF RowSet
    <3>2. CASE y = x
      BY <3>1, <3>2, <1>3
    <3>3. CASE y # x
      BY <3>1, <3>3, <1>1, <1>4 DEF RowSet
    <3> QED BY <3>2, <3>3
  <2>2. t \in RowSet(r, K1)
    BY <1>1, <1>3 DEF RowSet
  <2>3. ASSUME NEW u \in RowSet(r, K), u # s PROVE u \in RowSet(r, K1)
    <3>1. PICK y \in DOMAIN K : u = NamedRow(r, K[y])
      BY DEF RowSet
    <3>2. y # x
      BY <3>1, <2>3, <1>5
    <3> QED BY <3>1, <3>2, <1>1 DEF RowSet
  <2> QED BY <2>1, <2>2, <2>3
<1> QED BY <1>6, <1>7, <1>8 DEF K1, s, t

(* A new kid is a new row.                                                 *)
LEMMA CreateRead ==
    ASSUME NEW r, NEW A, NEW D, NEW K, NEW dep, TreeOk(r, A, D, K, dep), RootApart(r, A, D),
           NEW y, y \notin DOMAIN K, NEW k, k.in \in D, k.name \in Names, NewIn(K, k.in, k.name),
           IF k.dir THEN Fresh(A, D, K, k.node) ELSE k.node = CLUSTER_FREE
    PROVE  RowsCreate(RowSet(r, K), RowSet(r, AddK(K, y, k)), NodeNames(r, D))
<1> DEFINE R == RowSet(r, K)
           s == NamedRow(r, k)
<1>1. RowSet(r, AddK(K, y, k)) = R \cup {s}
  BY RowsAdd
<1>2. NewRow(R, NodeNames(r, D), s) /\ s \notin R
  BY NewRowRead
<1>3. s.isDir = k.dir /\ s.node = k.node
  BY DEF NamedRow
<1>4. IF s.isDir THEN UnusedNode(R, s.node) ELSE s.node = CLUSTER_FREE
  <2>1. CASE k.dir
    BY <2>1, <1>3, UnusedRead
  <2>2. CASE ~k.dir
    BY <2>2, <1>3
  <2> QED BY <2>1, <2>2
<1> HIDE DEF R, s
<1>5. (R \cup {s}) \ R = {s} /\ R \ (R \cup {s}) = {}
  BY <1>2
<1>6. RowsCreate(R, R \cup {s}, NodeNames(r, D))
  BY <1>2, <1>4, <1>5 DEF RowsCreate
<1> QED BY <1>1, <1>6 DEF R

(* A kid that goes is a row that goes; a directory that goes is empty and  *)
(* not the current one.                                                    *)
LEMMA RemoveRead ==
    ASSUME NEW r, NEW A, NEW D, NEW K, NEW dep, TreeOk(r, A, D, K, dep), RootApart(r, A, D),
           NEW x \in DOMAIN K, NEW cwd \in D, K[x].dir => K[x].node # cwd /\ \A y \in DOMAIN K : K[y].in # K[x].node
    PROVE  RowsRemove(RowSet(r, K), RowSet(r, DropK(K, x)), NodeName(r, cwd))
<1> DEFINE R == RowSet(r, K)
           s == NamedRow(r, K[x])
<1>1. RowSet(r, DropK(K, x)) = R \ {s} /\ s \in R
  BY RowsDrop
<1>2. s.isDir = K[x].dir /\ s.node = K[x].node
  BY DEF NamedRow
<1>3. ASSUME s.isDir PROVE s.node # NodeName(r, cwd) /\ \A t \in R : t.dir # s.node
  <2>1. K[x].node \in D /\ NodeName(r, K[x].node) = K[x].node /\ K[x].node # cwd
    <3>1. K[x].dir /\ K[x].node \in D \ {r}
      BY <1>2, <1>3, RowsApart
    <3> QED BY <3>1, NamesApart
  <2>2. s.node # NodeName(r, cwd)
    BY <2>1, <1>2, NamesApart
  <2>3. ASSUME NEW t \in R PROVE t.dir # s.node
    <3>1. PICK y \in DOMAIN K : t = NamedRow(r, K[y])
      BY DEF RowSet
    <3>2. t.dir = NodeName(r, K[y].in) /\ K[y].in \in D /\ K[y].in # K[x].node
      BY <3>1, <1>2, <1>3, RowsApart DEF NamedRow
    <3> QED BY <3>2, <2>1, <1>2, NamesApart
  <2> QED BY <2>2, <2>3
<1> HIDE DEF R, s
<1>4. R \ (R \ {s}) = {s} /\ (R \ {s}) \ R = {}
  BY <1>1
<1>5. RowsRemove(R, R \ {s}, NodeName(r, cwd))
  BY <1>3, <1>4 DEF RowsRemove
<1> QED BY <1>1, <1>5 DEF R

(* A kid that moves is a row that gets another name or directory.          *)
LEMMA MoveRead ==
    ASSUME NEW r, NEW A, NEW D, NEW K, NEW dep, TreeOk(r, A, D, K, dep), RootApart(r, A, D),
           NEW x \in DOMAIN K, NEW y, y \notin DOMAIN K, NEW k, k.in \in D, k.name \in Names, NewIn(K, k.in, k.name),
           k.dir = K[x].dir, k.node = K[x].node
    PROVE  RowsMove(RowSet(r, K), RowSet(r, DropK(AddK(K, y, k), x)), NodeNames(r, D))
<1> DEFINE R == RowSet(r, K)
           s == NamedRow(r, K[x])
           t == NamedRow(r, k)
           K1 == DropK(K, x)
<1>1. RowSet(r, K1) = R \ {s} /\ s \in R
  BY RowsDrop
<1>2. NewRow(R, NodeNames(r, D), t) /\ t \notin R
  BY NewRowRead
<1>3. t.isDir = s.isDir /\ t.node = s.node
  BY DEF NamedRow
<1>4. DropK(AddK(K, y, k), x) = AddK(K1, y, k) /\ y \notin DOMAIN K1
  BY DEF DropK, AddK
<1> HIDE DEF K1
<1>5. RowSet(r, AddK(K1, y, k)) = RowSet(r, K1) \cup {t}
  BY <1>4, RowsAdd
<1> HIDE DEF R, s, t
<1>6. R \ ((R \ {s}) \cup {t}) = {s} /\ ((R \ {s}) \cup {t}) \ R = {t}
  BY <1>1, <1>2
<1>7. RowsMove(R, (R \ {s}) \cup {t}, NodeNames(r, D))
  BY <1>2, <1>3, <1>6 DEF RowsMove
<1> QED BY <1>1, <1>4, <1>5, <1>7 DEF R

(* A file that gets or loses its contents is a row with another node.      *)
LEMMA WriteRead ==
    ASSUME NEW r, NEW A, NEW D, NEW K, NEW dep, TreeOk(r, A, D, K, dep), RootApart(r, A, D),
           NEW x \in DOMAIN K, ~K[x].dir, NEW v,
           IF K[x].node = CLUSTER_FREE THEN Fresh(A, D, K, v) ELSE v = CLUSTER_FREE
    PROVE  RowsWrite(RowSet(r, K), RowSet(r, SetNode(K, x, v)))
<1> DEFINE R == RowSet(r, K)
           s == NamedRow(r, K[x])
           t == [s EXCEPT !.node = v]
<1>1. v # K[x].node
  BY DEF Fresh
<1>2. RowSet(r, SetNode(K, x, v)) = (R \ {s}) \cup {t} /\ s \in R /\ t \notin R
  BY <1>1, RowsSet
<1>3. s.node = K[x].node /\ t.node = v /\ s.isDir = K[x].dir
  BY DEF NamedRow
<1>4. t = [s EXCEPT !.node = t.node]
  BY <1>3
<1>5. IF s.node = CLUSTER_FREE THEN UnusedNode(R, t.node) ELSE t.node = CLUSTER_FREE
  <2>1. CASE K[x].node = CLUSTER_FREE
    BY <2>1, <1>3, UnusedRead
  <2>2. CASE K[x].node # CLUSTER_FREE
    BY <2>2, <1>3
  <2> QED BY <2>1, <2>2
<1> HIDE DEF R, s, t
<1>6. R \ ((R \ {s}) \cup {t}) = {s} /\ ((R \ {s}) \cup {t}) \ R = {t}
  BY <1>2
<1>7. RowsWrite(R, (R \ {s}) \cup {t})
  BY <1>3, <1>4, <1>5, <1>6 DEF RowsWrite
<1> QED BY <1>2, <1>7 DEF R

(* The root stays where it is.                                             *)
LEMMA RootStays == ASSUME Next PROVE rootDirCluster' = rootDirCluster
<1>1. \A h, p, write, trunc : OpenExisting(h, p, write, trunc) => rootDirCluster' = rootDirCluster
  BY DEF OpenExisting
<1>2. \A h, p, write : OpenCreate(h, p, write) => rootDirCluster' = rootDirCluster
  BY DEF OpenCreate
<1>3. \A h : Write(h) \/ Truncate(h) \/ Fsync(h) \/ Close(h) => rootDirCluster' = rootDirCluster
  BY DEF Write, Truncate, Fsync, Close
<1>4. \A p : Unlink(p) \/ Rmdir(p) \/ Mkdir(p) \/ Chdir(p) => rootDirCluster' = rootDirCluster
  <2>1. \A p : Unlink(p) => rootDirCluster' = rootDirCluster
    BY DEF Unlink, UnlinkCommon
  <2>2. \A p : Rmdir(p) => rootDirCluster' = rootDirCluster
    BY DEF Rmdir, UnlinkCommon
  <2>3. \A p : Mkdir(p) => rootDirCluster' = rootDirCluster
    BY DEF Mkdir
  <2>4. \A p : Chdir(p) => rootDirCluster' = rootDirCluster
    BY DEF Chdir
  <2> QED BY <2>1, <2>2, <2>3, <2>4
<1>5. \A p, q : Rename(p, q) => rootDirCluster' = rootDirCluster
  BY DEF Rename
<1>6. \A p, readOnly : SetAttr(p, readOnly) => rootDirCluster' = rootDirCluster
  BY DEF SetAttr
<1>7. CASE FileCalls
  BY <1>1, <1>2, <1>3, <1>7 DEF FileCalls
<1>8. CASE DirectoryCalls
  BY <1>4, <1>5, <1>6, <1>8 DEF DirectoryCalls
<1> QED BY <1>7, <1>8 DEF Next

(* What a step makes of the tree is a step of the abstract tree.           *)
LEMMA TreeStepRead ==
    ASSUME NEW r, NEW D, NEW K, NEW dep, TreeOk(r, Areas, D, K, dep), RootApart(r, Areas, D), cwdCluster \in D,
           NEW E, TreeSteps(D, K, E)
    PROVE  \/ RowSet(r, E) = RowSet(r, K)
           \/ /\ UNCHANGED cwdCluster
              /\ \/ RowsCreate(RowSet(r, K), RowSet(r, E), NodeNames(r, D))
                 \/ RowsRemove(RowSet(r, K), RowSet(r, E), NodeName(r, cwdCluster))
                 \/ RowsMove(RowSet(r, K), RowSet(r, E), NodeNames(r, D))
                 \/ RowsWrite(RowSet(r, K), RowSet(r, E))
<1>1. CASE E = K
  BY <1>1
<1>2. CASE UNCHANGED cwdCluster /\ KCreates(D, K, E)
  <2>1. PICK y, k : /\ y \notin DOMAIN K /\ E = AddK(K, y, k)
                    /\ k.in \in D /\ k.name \in Names /\ NewIn(K, k.in, k.name)
                    /\ IF k.dir THEN Fresh(Areas, D, K, k.node) ELSE k.node = CLUSTER_FREE
    BY <1>2 DEF KCreates
  <2>2. RowsCreate(RowSet(r, K), RowSet(r, AddK(K, y, k)), NodeNames(r, D))
    BY <2>1, CreateRead
  <2> QED BY <1>2, <2>1, <2>2
<1>3. CASE UNCHANGED cwdCluster /\ KRemoves(K, E)
  <2>1. PICK x \in DOMAIN K : E = DropK(K, x) /\ (K[x].dir => K[x].node # cwdCluster /\ \A y \in DOMAIN K : K[y].in # K[x].node)
    BY <1>3 DEF KRemoves
  <2>2. RowsRemove(RowSet(r, K), RowSet(r, DropK(K, x)), NodeName(r, cwdCluster))
    BY <2>1, RemoveRead
  <2> QED BY <1>3, <2>1, <2>2
<1>4. CASE UNCHANGED cwdCluster /\ KMoves(D, K, E)
  <2>1. PICK x \in DOMAIN K : \E y, k :
           /\ y \notin DOMAIN K /\ E = DropK(AddK(K, y, k), x)
           /\ k.in \in D /\ k.name \in Names /\ NewIn(K, k.in, k.name) /\ k.dir = K[x].dir /\ k.node = K[x].node
    BY <1>4 DEF KMoves
  <2>2. PICK y, k :
           /\ y \notin DOMAIN K /\ E = DropK(AddK(K, y, k), x)
           /\ k.in \in D /\ k.name \in Names /\ NewIn(K, k.in, k.name) /\ k.dir = K[x].dir /\ k.node = K[x].node
    BY <2>1
  <2>3. RowsMove(RowSet(r, K), RowSet(r, DropK(AddK(K, y, k), x)), NodeNames(r, D))
    BY <2>2, MoveRead
  <2> QED BY <1>4, <2>2, <2>3
<1>5. CASE UNCHANGED cwdCluster /\ KWrites(D, K, E)
  <2>1. PICK x \in DOMAIN K : \E v :
           /\ ~K[x].dir /\ E = SetNode(K, x, v)
           /\ IF K[x].node = CLUSTER_FREE THEN Fresh(Areas, D, K, v) ELSE v = CLUSTER_FREE
    BY <1>5 DEF KWrites
  <2>2. PICK v :
           /\ ~K[x].dir /\ E = SetNode(K, x, v)
           /\ IF K[x].node = CLUSTER_FREE THEN Fresh(Areas, D, K, v) ELSE v = CLUSTER_FREE
    BY <2>1
  <2>3. RowsWrite(RowSet(r, K), RowSet(r, SetNode(K, x, v)))
    BY <2>2, WriteRead
  <2> QED BY <1>5, <2>2, <2>3
<1> QED BY <1>1, <1>2, <1>3, <1>4, <1>5 DEF TreeSteps

-----------------------------------------------------------------------------
(* The theorems *)

(* The steps of the abstract tree are read off its rows.                   *)
LEMMA TreeRefines ==
    ASSUME NEW D, NEW C, NEW K, NEW dep, Picture(D, C, K, dep), [Next]_vars
    PROVE  [Promise!FTNext]_<<NamedRows, Node(cwdCluster)>>
<1>0. /\ NamedRows = RowSet(rootDirCluster, K)
      /\ RootApart(rootDirCluster, Areas, D)
      /\ TreeOk(rootDirCluster, Areas, D, K, dep)
      /\ cwdCluster \in D
      /\ Node(cwdCluster) = NodeName(rootDirCluster, cwdCluster)
  BY NamedRowsRead DEF RowsShown
<1>1. PICK r : r = rootDirCluster
  OBVIOUS
<1>2. rootDirCluster' = r
  BY <1>1, RootStays DEF vars
<1>3. Arrives(D, K)
  BY NextArrives, StutterArrives
<1>4. PICK D1, C1, K1, dep1 : Picture(D1, C1, K1, dep1)' /\ TreeSteps(D, K, K1)
  BY <1>3 DEF Arrives
<1>5. /\ NamedRows' = RowSet(rootDirCluster', K1)
      /\ RootApart(rootDirCluster', Areas', D1)
      /\ TreeOk(rootDirCluster', Areas', D1, K1, dep1)
      /\ cwdCluster' \in D1
      /\ Node(cwdCluster)' = NodeName(rootDirCluster', cwdCluster')
  <2>1. RowsShown'
    BY NamedRowsRead, PTL
  <2> QED BY <2>1, <1>4, Zenon DEF RowsShown
<1>6. PICK R, R1 : R = RowSet(r, K) /\ R1 = RowSet(r, K1)
  OBVIOUS
<1>7. NamedRows = R /\ NamedRows' = R1
  BY <1>0, <1>1, <1>2, <1>5, <1>6
<1>8. Promise!Directories = NodeNames(r, D)
  BY <1>0, <1>1, <1>6, <1>7, DirectoriesRead DEF Promise!Directories
<1>9. PICK Ds : Ds = NodeNames(r, D)
  OBVIOUS
<1>10. \A s : NewRow(R, Ds, s) => Promise!IsNewName(s)
  BY <1>7, <1>8, <1>9 DEF NewRow, Promise!IsNewName
<1>11. \A v : UnusedNode(R, v) => Promise!IsUnused(v)
  BY <1>7 DEF UnusedNode, Promise!IsUnused
<1>12. \/ R1 = R
       \/ /\ UNCHANGED cwdCluster
          /\ \/ RowsCreate(R, R1, Ds)
             \/ RowsRemove(R, R1, NodeName(r, cwdCluster))
             \/ RowsMove(R, R1, Ds)
             \/ RowsWrite(R, R1)
  BY <1>0, <1>1, <1>4, <1>6, <1>9, TreeStepRead
<1>13. CASE R1 = R
  <2>1. {RootCluster} \cup {s.node : s \in {t \in R1 : t.isDir}} = NodeNames(r, D1)
    BY <1>2, <1>5, <1>6, DirectoriesRead
  <2>2. {RootCluster} \cup {s.node : s \in {t \in R : t.isDir}} = NodeNames(r, D)
    BY <1>0, <1>1, <1>6, DirectoriesRead
  <2>3. Node(cwdCluster)' \in NodeNames(r, D1)
    BY <1>2, <1>5 DEF NodeNames
  <2>4. Node(cwdCluster)' \in Promise!Directories
    BY <2>1, <2>2, <2>3, <1>8, <1>13
  <2>5. Promise!ChangeDirectory
    BY <2>4, <1>7, <1>13 DEF Promise!ChangeDirectory
  <2> QED BY <2>5 DEF Promise!FTNext
<1>14. CASE /\ UNCHANGED cwdCluster
            /\ \/ RowsCreate(R, R1, Ds)
               \/ RowsRemove(R, R1, NodeName(r, cwdCluster))
               \/ RowsMove(R, R1, Ds)
               \/ RowsWrite(R, R1)
  <2>1. UNCHANGED Node(cwdCluster)
    BY <1>0, <1>1, <1>2, <1>5, <1>14
  <2>2. PICK gone, added : gone = R \ R1 /\ added = R1 \ R
    OBVIOUS
  <2>3. gone = NamedRows \ NamedRows' /\ added = NamedRows' \ NamedRows
    BY <2>2, <1>7
  <2>4. CASE RowsCreate(R, R1, Ds)
    <3>1. Promise!Create(gone, added)
      BY <2>2, <2>4, <1>10, <1>11 DEF RowsCreate, Promise!Create
    <3> QED BY <3>1, <2>1, <2>3 DEF Promise!FTNext
  <2>5. CASE RowsRemove(R, R1, NodeName(r, cwdCluster))
    <3>1. Promise!Remove(gone, added)
      BY <2>2, <2>5, <1>0, <1>1, <1>7 DEF RowsRemove, Promise!Remove
    <3> QED BY <3>1, <2>1, <2>3 DEF Promise!FTNext
  <2>6. CASE RowsMove(R, R1, Ds)
    <3>1. Promise!Move(gone, added)
      BY <2>2, <2>6, <1>10 DEF RowsMove, Promise!Move
    <3> QED BY <3>1, <2>1, <2>3 DEF Promise!FTNext
  <2>7. CASE RowsWrite(R, R1)
    <3>1. Promise!Write(gone, added)
      BY <2>2, <2>7, <1>11 DEF RowsWrite, Promise!Write
    <3> QED BY <3>1, <2>1, <2>3 DEF Promise!FTNext
  <2> QED BY <2>4, <2>5, <2>6, <2>7, <1>14
<1> QED BY <1>12, <1>13, <1>14

(* A volume just made is an empty tree with its root current.              *)
LEMMA TreeStarts == Init => Promise!FTInit
<1> SUFFICES ASSUME Init PROVE Promise!FTInit
  OBVIOUS
<1>1. PICK D, C, K, dep : Picture(D, C, K, dep) /\ DOMAIN K = {}
  BY InitPicture
<1>2. NamedRows = RowSet(rootDirCluster, K) /\ Node(cwdCluster) = NodeName(rootDirCluster, cwdCluster)
  BY <1>1, NamedRowsRead DEF RowsShown
<1>3. cwdCluster = rootDirCluster
  BY DEF Init
<1>4. NamedRows = {} /\ Node(cwdCluster) = RootCluster
  BY <1>1, <1>2, <1>3 DEF RowSet, NodeName
<1> QED BY <1>4 DEF Promise!FTInit

-----------------------------------------------------------------------------
(* The volume always has a picture.                                        *)
THEOREM TreeInvariance == Spec => []TreeInv
<1>1. Init => TreeInv
  BY InitPicture DEF TreeInv
<1>2. TreeInv /\ [Next]_vars => TreeInv'
  <2> SUFFICES ASSUME TreeInv, [Next]_vars PROVE TreeInv'
    OBVIOUS
  <2>1. PICK D, C, K, dep : Picture(D, C, K, dep)
    BY DEF TreeInv
  <2>2. Arrives(D, K)
    BY <2>1, NextArrives, StutterArrives
  <2> QED BY <2>2 DEF Arrives, TreeInv
<1> QED BY <1>1, <1>2, PTL DEF Spec

(* Every allocated cluster belongs to one chain, of a directory, of a file *)
(* or of a failed mkdir, whatever calls come in whatever order (fatdir.c,  *)
(* fatfile.c).                                                             *)
THEOREM OneOwnerHolds == Spec => []OneOwner
<1>1. TreeInv => OneOwner
  BY OneOwnerRead DEF TreeInv
<1> QED BY <1>1, TreeInvariance, PTL

(* An open file's slot still is the entry of that file, whatever           *)
(* directories grow and entries come, go and move meanwhile                *)
(* (fatfile.c:351).                                                        *)
THEOREM HandlesHold == Spec => []HandlesKeepTheirEntry
<1>1. TreeInv => HandlesKeepTheirEntry
  BY HandlesRead DEF TreeInv
<1> QED BY <1>1, TreeInvariance, PTL

(* A path of one part or more leads where the tree says.                   *)
EveryPathAgrees == \A p \in [abs : BOOLEAN, parts : Seq(Names \cup {".", ".."}) \ {<<>>}] : AgreesOn(p)

(* The walk along the entries agrees with the tree in every picture.       *)
LEMMA WalksRead == TreeInv => EveryPathAgrees
<1> SUFFICES ASSUME NEW D, NEW C, NEW K, NEW dep, Picture(D, C, K, dep),
                    NEW p \in [abs : BOOLEAN, parts : Seq(Names \cup {".", ".."}) \ {<<>>}]
             PROVE  AgreesOn(p)
  BY DEF TreeInv, EveryPathAgrees
<1>1. IsPath(p) /\ p.parts # <<>>
  BY DEF IsPath, Dotted
<1> QED BY <1>1, WalkAgreesOn

(* A path of any length leads where the tree says, although ".." is an     *)
(* entry that the root lacks (directory.c:530).                            *)
THEOREM EveryWalkAgrees == Spec => []EveryPathAgrees
BY WalksRead, TreeInvariance, PTL

(* The paths that the run checks are among them.                           *)
THEOREM WalkHolds == Spec => []WalkAgrees
<1>1. EveryPathAgrees => WalkAgrees
  <2> SUFFICES ASSUME EveryPathAgrees, NEW p \in WalkPaths PROVE AgreesOn(p)
    BY DEF WalkAgrees
  <2>1. p \in [abs : BOOLEAN, parts : Seq(Names \cup {".", ".."}) \ {<<>>}]
    <3>1. PICK part : part = Names \cup {".", ".."}
      OBVIOUS
    <3>2. p \in [abs : BOOLEAN, parts : {<<n>> : n \in part} \cup {<<n, m>> : n, m \in part}]
      BY <3>1 DEF WalkPaths
    <3>3. p.parts \in Seq(part) \ {<<>>}
      <4>1. CASE p.parts \in {<<n>> : n \in part}
        <5>1. PICK n \in part : p.parts = <<n>>
          BY <4>1
        <5>2. <<n>> \in Seq(part) /\ <<n>> # <<>>
          OBVIOUS
        <5> QED BY <5>1, <5>2
      <4>2. CASE p.parts \in {<<n, m>> : n, m \in part}
        <5>1. PICK n \in part, m \in part : p.parts = <<n, m>>
          BY <4>2
        <5>2. <<n, m>> \in Seq(part) /\ <<n, m>> # <<>>
          OBVIOUS
        <5> QED BY <5>1, <5>2
      <4> QED BY <3>2, <4>1, <4>2
    <3> QED BY <3>1, <3>2, <3>3
  <2> QED BY <2>1 DEF EveryPathAgrees
<1> QED BY <1>1, EveryWalkAgrees, PTL

(* The calls on paths and files implement the abstract tree: each changes  *)
(* one row at most, takes only empty directories, and gives a new file or  *)
(* directory clusters of its own (fatdir.c, fatfile.c).                    *)
THEOREM TreeImplementsFileTree == Spec => ImplementsFileTree
<1>1. Init => Promise!FTInit
  BY TreeStarts
<1>2. TreeInv /\ [Next]_vars => [Promise!FTNext]_<<NamedRows, Node(cwdCluster)>>
  BY TreeRefines DEF TreeInv
<1> QED BY <1>1, <1>2, TreeInvariance, PTL DEF Spec, ImplementsFileTree, Promise!FTSpec
=============================================================================
