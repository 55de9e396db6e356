---------------------------- MODULE FatFileProofs ---------------------------
(***************************************************************************)
(* Proofs about FatFile: the pointers of an open file stay in step with    *)
(* the offsets they stand for and every transfer hits the file, for every  *)
(* size of sectors, clusters, files and volumes.                           *)
(***************************************************************************)
EXTENDS FatFileProps, FiniteSetTheorems, TLAPS

-----------------------------------------------------------------------------
(* Arithmetic *)

(* The size of a cluster is a positive number, that of its sectors *)
LEMMA ClusterSize ==
    /\ BytesPerCluster \in Nat \ {0} /\ BytesPerSector \in Nat \ {0} /\ SectorsPerCluster \in Nat \ {0}
    /\ SectorsPerCluster * BytesPerSector = BytesPerCluster
    /\ BytesPerSector <= BytesPerCluster
BY FileAssumption DEF BytesPerCluster

(* The same without the product *)
LEMMA PositiveSizes ==
    /\ BytesPerCluster \in Nat \ {0} /\ BytesPerSector \in Nat \ {0} /\ SectorsPerCluster \in Nat \ {0}
    /\ BytesPerSector <= BytesPerCluster
BY ClusterSize

(* Products with a positive number grow with the other factor *)
LEMMA ProductGrows ==
    ASSUME NEW d \in Nat \ {0}, NEW a \in Int, NEW b \in Int
    PROVE  /\ a * d \in Int /\ (a + b) * d = a * d + b * d /\ (a - b) * d = a * d - b * d
           /\ a <= b => a * d <= b * d
           /\ a < b => a * d + d <= b * d
           /\ 0 <= a => 0 <= a * d
           /\ (a + 1) * d = a * d + d /\ (a - 1) * d = a * d - d
OBVIOUS

(* Division with rest *)
LEMMA Division ==
    ASSUME NEW d \in Nat \ {0}, NEW a \in Int
    PROVE  /\ a \div d \in Int /\ a % d \in 0 .. d - 1
           /\ a = (a \div d) * d + (a % d)
           /\ 0 <= a => 0 <= a \div d
OBVIOUS

(* There is one way to divide *)
LEMMA DivisionUnique ==
    ASSUME NEW d \in Nat \ {0}, NEW a \in Int, NEW q \in Int, NEW r \in 0 .. d - 1, a = q * d + r
    PROVE  a \div d = q /\ a % d = r
<1>1. a \div d \in Int /\ a % d \in 0 .. d - 1 /\ a = (a \div d) * d + (a % d)
  BY Division
<1>2. ~(a \div d < q)
  BY <1>1, ProductGrows
<1>3. ~(q < a \div d)
  BY <1>1, ProductGrows
<1>4. a \div d = q
  BY <1>1, <1>2, <1>3
<1>5. QED BY <1>1, <1>4

(* A number that is there already is what it is modulo a greater one *)
LEMMA Sum32Exact ==
    ASSUME NEW a \in Nat, NEW b \in Nat, a + b <= FILE_MAX_SIZE
    PROVE  Sum32(a, b) = a + b
<1> DEFINE d == FILE_MAX_SIZE + 1
           x == a + b
<1>1. d \in Nat \ {0} /\ x \in 0 .. d - 1
  BY FileAssumption
<1> HIDE DEF d, x
<1>2. x = 0 * d + x
  BY <1>1
<1>3. x % d = x
  BY <1>1, <1>2, DivisionUnique
<1>4. QED BY <1>3 DEF Sum32, d, x

(* What takes n clusters, all of them *)
Fits(n, size) == (n - 1) * BytesPerCluster < size /\ size <= n * BytesPerCluster

(* The clusters for a size are as many as it fits *)
LEMMA ClustersForFits ==
    ASSUME NEW size \in Nat
    PROVE  /\ ClustersFor(size) \in Nat /\ Fits(ClustersFor(size), size)
           /\ \A n \in Nat : Fits(n, size) => ClustersFor(size) = n
<1> DEFINE C == BytesPerCluster
           x == size + C - 1
           m == x \div C
<1>1. C \in Nat \ {0} /\ ClustersFor(size) = m
  BY ClusterSize DEF ClustersFor
<1> HIDE DEF C
<1>2. x \in Int /\ 0 <= x
  BY <1>1
<1> HIDE DEF x
<1>a. m \in Nat /\ x % C \in 0 .. C - 1 /\ x = m * C + (x % C)
  BY <1>1, <1>2
<1> HIDE DEF m
<1>3. m \in Nat /\ \E r \in 0 .. C - 1 : size + C - 1 = m * C + r
  BY <1>a DEF x
<1>4. m * C \in Int /\ (m - 1) * C = m * C - C
  BY <1>1, <1>3, ProductGrows
<1>5. (m - 1) * C < size /\ size <= m * C
  BY <1>1, <1>3, <1>4
<1>6. ASSUME NEW n \in Nat, (n - 1) * C < size, size <= n * C
      PROVE  m = n
  <2>1. n * C \in Int /\ (n - 1) * C = n * C - C
    BY <1>1, ProductGrows
  <2>2. n < m => n * C + C <= m * C
    BY <1>1, <1>3, ProductGrows
  <2>3. m < n => m * C + C <= n * C
    BY <1>1, <1>3, ProductGrows
  <2>4. QED BY <1>1, <1>3, <1>4, <1>5, <1>6, <2>1, <2>2, <2>3
<1>7. QED BY <1>1, <1>3, <1>5, <1>6 DEF Fits, C

(* The sectors of a cluster *)
LEMMA SectorOffset ==
    ASSUME NEW s \in 0 .. SectorsPerCluster
    PROVE  /\ s * BytesPerSector \in 0 .. BytesPerCluster
           /\ s < SectorsPerCluster => s * BytesPerSector + BytesPerSector <= BytesPerCluster
           /\ s = SectorsPerCluster <=> s * BytesPerSector = BytesPerCluster
<1>1. s * BytesPerSector \in Int /\ 0 <= s * BytesPerSector /\ s * BytesPerSector <= SectorsPerCluster * BytesPerSector
  BY ClusterSize, ProductGrows
<1>2. s < SectorsPerCluster => s * BytesPerSector + BytesPerSector <= SectorsPerCluster * BytesPerSector
  BY ClusterSize, ProductGrows
<1>3. QED BY <1>1, <1>2, ClusterSize

-----------------------------------------------------------------------------
(* Chains and positions in them *)

IsChain(ch) == ch \in Seq(Clusters) /\ \A i, j \in 1 .. Len(ch) : ch[i] = ch[j] => i = j

(* The position p is in the k-th cluster of the chain ch and stands for    *)
(* the offset o: at the end of the cluster with the sector that is not     *)
(* there.                                                                  *)
At(ch, p, o, k) ==
    /\ k \in 1 .. Len(ch) /\ p.cluster = ch[k]
    /\ p.sector \in 0 .. SectorsPerCluster /\ p.byte \in 0 .. BytesPerSector - 1
    /\ p.sector = SectorsPerCluster => p.byte = 0
    /\ o = (k - 1) * BytesPerCluster + p.sector * BytesPerSector + p.byte

(* HitsFile for a chain and a transfer that are given *)
Hits(ch, offset, address, size) ==
    \A j \in 0 .. size - 1 :
        /\ (offset + j) \div BytesPerCluster < Len(ch)
        /\ address + j = (ch[(offset + j) \div BytesPerCluster + 1] - CLUSTER_FIRST) * BytesPerCluster
                         + ((offset + j) % BytesPerCluster)

(* Where the byte at an offset is: in cluster k, d bytes from its start *)
LEMMA PlaceInCluster ==
    ASSUME NEW ch, IsChain(ch), NEW k \in 1 .. Len(ch), NEW d \in 0 .. BytesPerCluster - 1,
           NEW o, o = (k - 1) * BytesPerCluster + d
    PROVE  /\ o \div BytesPerCluster = k - 1 /\ o % BytesPerCluster = d
           /\ o \div BytesPerCluster < Len(ch) /\ ch[o \div BytesPerCluster + 1] = ch[k]
<1> DEFINE C == BytesPerCluster
<1>1. C \in Nat \ {0} /\ Len(ch) \in Nat
  BY ClusterSize DEF IsChain
<1> HIDE DEF C
<1>2. k - 1 \in Int /\ (k - 1) * C \in Int /\ o \in Int
  BY <1>1, ProductGrows DEF C
<1>3. o \div C = k - 1 /\ o % C = d
  BY <1>1, <1>2, DivisionUnique, SMTT(40) DEF C
<1>4. (k - 1) + 1 = k
  BY <1>1
<1>5. QED BY <1>1, <1>3, <1>4 DEF C

(* The clusters of a chain are numbers *)
LEMMA ChainType ==
    ASSUME NEW ch, IsChain(ch)
    PROVE  Len(ch) \in Nat /\ \A k \in 1 .. Len(ch) : ch[k] \in Clusters /\ ch[k] \in Int /\ ch[k] # CLUSTER_FREE
BY FileAssumption DEF IsChain, Clusters, CLUSTER_FIRST, CLUSTER_FREE

(* A transfer inside a cluster hits the file *)
LEMMA HitInCluster ==
    ASSUME NEW ch, IsChain(ch), NEW p, NEW o, NEW k, At(ch, p, o, k), NEW size \in Nat,
           p.sector * BytesPerSector + p.byte + size <= BytesPerCluster
    PROVE  Hits(ch, o, Address(p.cluster, p.sector, p.byte), size)
<1> DEFINE C == BytesPerCluster
           x == p.sector * BytesPerSector + p.byte
           a == Address(p.cluster, p.sector, p.byte)
<1>1. C \in Nat \ {0} /\ k \in 1 .. Len(ch) /\ k \in Int /\ Len(ch) \in Nat /\ ch[k] - CLUSTER_FIRST \in Int
  BY ClusterSize, ChainType DEF At, CLUSTER_FIRST
<1>2. (ch[k] - CLUSTER_FIRST) * C \in Int /\ (k - 1) * C \in Int
  BY <1>1, ProductGrows DEF C
<1>a. /\ p.sector * BytesPerSector \in Nat /\ p.byte \in Nat /\ p.cluster = ch[k]
      /\ o = (k - 1) * C + p.sector * BytesPerSector + p.byte
  BY SectorOffset, ClusterSize, SMTT(40) DEF At
<1>b. x \in Nat /\ x + size <= C
  BY <1>a
<1>3. o = (k - 1) * C + x /\ a = (ch[k] - CLUSTER_FIRST) * C + x
  BY <1>2, <1>a DEF Address
<1> HIDE DEF C, x, a
<1> SUFFICES ASSUME NEW j \in 0 .. size - 1
             PROVE  /\ (o + j) \div C < Len(ch)
                    /\ a + j = (ch[(o + j) \div C + 1] - CLUSTER_FIRST) * C + ((o + j) % C)
  BY DEF Hits, C, a
<1> DEFINE d == x + j
           y == o + j
<1>4. d \in 0 .. C - 1 /\ y = (k - 1) * C + d
  BY <1>1, <1>2, <1>3, <1>b
<1>5. a + j = (ch[k] - CLUSTER_FIRST) * C + d
  BY <1>2, <1>3, <1>b
<1> HIDE DEF d, y
<1>c. d \in 0 .. BytesPerCluster - 1 /\ y = (k - 1) * BytesPerCluster + d /\ k \in 1 .. Len(ch)
  BY <1>1, <1>4 DEF C
<1>d. /\ y \div BytesPerCluster < Len(ch) /\ ch[y \div BytesPerCluster + 1] = ch[k]
      /\ y % BytesPerCluster = d
  BY <1>c, PlaceInCluster
<1>6. y \div C < Len(ch) /\ ch[y \div C + 1] = ch[k] /\ y % C = d
  BY <1>d DEF C
<1>7. QED BY <1>5, <1>6 DEF y

(* The clusters k .. m of a chain follow each other on the disc *)
Run(ch, k, m) ==
    /\ k \in 1 .. Len(ch) /\ m \in k .. Len(ch)
    /\ \A i \in k .. m : ch[i] = ch[k] + (i - k)

(* A transfer of a run of clusters hits the file *)
LEMMA HitRun ==
    ASSUME NEW ch, IsChain(ch), NEW k, NEW m, Run(ch, k, m)
    PROVE  Hits(ch, (k - 1) * BytesPerCluster, Address(ch[k], 0, 0), (m - k + 1) * BytesPerCluster)
<1> DEFINE C == BytesPerCluster
           a == Address(ch[k], 0, 0)
           o == (k - 1) * C
<1>1. /\ C \in Nat \ {0} /\ k \in 1 .. Len(ch) /\ m \in k .. Len(ch) /\ k \in Int /\ m \in Int /\ Len(ch) \in Nat
      /\ ch[k] - CLUSTER_FIRST \in Int
  BY ClusterSize, ChainType DEF Run, CLUSTER_FIRST
<1>2. (ch[k] - CLUSTER_FIRST) * C \in Int /\ o \in Int
  BY <1>1, ProductGrows DEF C
<1>3. a = (ch[k] - CLUSTER_FIRST) * C
  BY <1>1, <1>2, ClusterSize DEF Address
<1> HIDE DEF C, a
<1> SUFFICES ASSUME NEW j \in 0 .. (m - k + 1) * C - 1
             PROVE  /\ (o + j) \div C < Len(ch)
                    /\ a + j = (ch[(o + j) \div C + 1] - CLUSTER_FIRST) * C + ((o + j) % C)
  BY DEF Hits, C, a
<1>4. (m - k + 1) * C \in Int /\ j \in Int
  BY <1>1, ProductGrows
<1>5. PICK q \in Int, r \in 0 .. C - 1 : j = q * C + r
  BY <1>1, <1>4, Division
<1>6. q * C \in Int /\ 0 <= q
  <2>1. q < 0 => q * C + C <= 0 * C
    BY <1>1, ProductGrows
  <2>2. QED BY <1>1, <1>5, <2>1, ProductGrows
<1>7. q < m - k + 1
  <2>1. m - k + 1 <= q => (m - k + 1) * C <= q * C
    BY <1>1, ProductGrows
  <2>2. QED BY <1>1, <1>4, <1>5, <1>6, <2>1
<1>8. /\ k + q \in k .. m /\ k + q \in 1 .. Len(ch)
      /\ ch[k + q] = ch[k] + q
  <2>1. k + q \in k .. m /\ k + q \in 1 .. Len(ch) /\ (k + q) - k = q
    BY <1>1, <1>6, <1>7
  <2>2. QED BY <2>1 DEF Run
<1>9. o + j = ((k + q) - 1) * C + r
  BY <1>1, <1>2, <1>5, <1>6, ProductGrows
<1>10. (o + j) \div C < Len(ch) /\ ch[(o + j) \div C + 1] = ch[k + q] /\ (o + j) % C = r
  <2>1. \A i \in 1 .. Len(ch), d \in 0 .. C - 1 : \A x : x = (i - 1) * C + d =>
           x \div C < Len(ch) /\ ch[x \div C + 1] = ch[i] /\ x % C = d
    BY PlaceInCluster DEF C
  <2>2. k + q \in 1 .. Len(ch) /\ r \in 0 .. C - 1
    BY <1>5, <1>8
  <2>3. QED BY <2>1, <2>2, <1>9, Zenon
<1>11. (ch[k + q] - CLUSTER_FIRST) * C = (ch[k] - CLUSTER_FIRST) * C + q * C
  <2>1. ch[k + q] - CLUSTER_FIRST = (ch[k] - CLUSTER_FIRST) + q
    BY <1>1, <1>8, ChainType DEF CLUSTER_FIRST
  <2>2. QED BY <1>1, <2>1, ProductGrows
<1>12. QED BY <1>2, <1>3, <1>5, <1>6, <1>10, <1>11

-----------------------------------------------------------------------------
(* The allocation table *)

(* A cluster of the chain is found at its place *)
LEMMA IndexFound ==
    ASSUME IsChain(chain), NEW k \in 1 .. Len(chain)
    PROVE  chain[k] \in Chained /\ IndexOf(chain[k]) = k
<1>1. DOMAIN chain = 1 .. Len(chain)
  BY DEF IsChain
<1>2. IndexOf(chain[k]) \in DOMAIN chain /\ chain[IndexOf(chain[k])] = chain[k]
  BY <1>1 DEF IndexOf
<1>3. QED BY <1>1, <1>2 DEF IsChain, Chained

(* The cluster that follows is that of the chain, and none is for the last *)
LEMMA NextFound ==
    ASSUME IsChain(chain), NEW k \in 1 .. Len(chain)
    PROVE  /\ k < Len(chain) => NextCluster(chain[k]) = chain[k + 1] /\ NextCluster(chain[k]) \in Clusters
           /\ k = Len(chain) => NextCluster(chain[k]) = CLUSTER_EOF /\ NextCluster(chain[k]) \notin Clusters
<1>1. chain[k] \in Chained /\ IndexOf(chain[k]) = k
  BY IndexFound
<1>2. Len(chain) \in Nat /\ (chain[k] = chain[Len(chain)] <=> k = Len(chain))
  BY DEF IsChain
<1>3. k < Len(chain) => k + 1 \in 1 .. Len(chain)
  BY <1>2
<1>4. CLUSTER_EOF \notin Clusters
  BY FileAssumption DEF CLUSTER_EOF, Clusters
<1>5. QED BY <1>1, <1>2, <1>3, <1>4, ChainType DEF NextCluster

(* A chain with one more cluster *)
LEMMA AppendedChain ==
    ASSUME NEW ch, IsChain(ch), NEW r \in Clusters, \A i \in 1 .. Len(ch) : ch[i] # r
    PROVE  /\ IsChain(Append(ch, r)) /\ Len(Append(ch, r)) = Len(ch) + 1
           /\ Append(ch, r)[Len(ch) + 1] = r /\ \A i \in 1 .. Len(ch) : Append(ch, r)[i] = ch[i]
<1>1. /\ Append(ch, r) \in Seq(Clusters) /\ Len(Append(ch, r)) = Len(ch) + 1 /\ Len(ch) \in Nat
      /\ Append(ch, r)[Len(ch) + 1] = r /\ \A i \in 1 .. Len(ch) : Append(ch, r)[i] = ch[i]
  BY DEF IsChain
<1>2. \A i, j \in 1 .. Len(ch) + 1 : Append(ch, r)[i] = Append(ch, r)[j] => i = j
  BY <1>1 DEF IsChain
<1>3. QED BY <1>1, <1>2 DEF IsChain

(* ch is a chain that begins with the one there is *)
Grows(ch) == IsChain(ch) /\ Len(ch) >= Len(chain) /\ \A i \in 1 .. Len(chain) : ch[i] = chain[i]

(* linkFreeCluster of the k-th cluster gives the next one, or a new one *)
LEMMA Linked ==
    ASSUME IsChain(chain), NEW k \in 1 .. Len(chain), NEW r, LinkFreeCluster(chain[k], r)
    PROVE  /\ Grows(chain') /\ k + 1 \in 1 .. Len(chain') /\ r = chain'[k + 1]
           /\ k < Len(chain) => chain' = chain
           /\ k = Len(chain) => Len(chain') = Len(chain) + 1
<1>0. Len(chain) \in Nat
  BY DEF IsChain
<1>1. CASE k < Len(chain)
  <2>1. r = chain[k + 1] /\ chain' = chain
    BY <1>1, NextFound DEF LinkFreeCluster, Taken
  <2>2. QED BY <1>0, <1>1, <2>1 DEF Grows
<1>2. CASE k = Len(chain)
  <2>1. r \in Clusters \ Chained /\ chain' = Append(chain, r)
    BY <1>2, NextFound DEF LinkFreeCluster, Taken, LastOfChain
  <2>2. \A i \in 1 .. Len(chain) : chain[i] # r
    BY <2>1, IndexFound
  <2>3. QED BY <1>0, <1>2, <2>1, <2>2, AppendedChain DEF Grows
<1>3. QED BY <1>0, <1>1, <1>2

(* The first cluster of a file without one *)
LEMMA LinkedFirst ==
    ASSUME IsChain(chain), chain = <<>>, NEW r, LinkFreeCluster(CLUSTER_FREE, r)
    PROVE  IsChain(chain') /\ Len(chain') = 1 /\ r = chain'[1] /\ r \in Clusters
<1>1. DOMAIN chain = {} /\ Len(chain) = 0
  OBVIOUS
<1>2. NextCluster(CLUSTER_FREE) = CLUSTER_FREE /\ CLUSTER_FREE \notin Clusters
  BY <1>1, FileAssumption DEF NextCluster, Chained, Clusters, CLUSTER_FREE, CLUSTER_FIRST
<1>3. r \in Clusters /\ chain' = Append(chain, r)
  BY <1>2 DEF LinkFreeCluster, Taken, LastOfChain
<1>4. \A i \in 1 .. Len(chain) : chain[i] # r
  BY <1>1
<1>5. IsChain(Append(chain, r)) /\ Len(Append(chain, r)) = Len(chain) + 1 /\ Append(chain, r)[Len(chain) + 1] = r
  BY <1>3, <1>4, AppendedChain
<1>6. Len(chain) + 1 = 1
  BY <1>1
<1>7. QED BY <1>3, <1>5, <1>6

(* A position is where it was if the chain grows *)
LEMMA AtGrown ==
    ASSUME NEW ch, Grows(ch), NEW p, NEW o, NEW k, At(chain, p, o, k), IsChain(chain)
    PROVE  At(ch, p, o, k)
<1>1. Len(ch) \in Nat /\ Len(chain) \in Nat
  BY DEF Grows, IsChain
<1>2. QED BY <1>1 DEF At, Grows

(* The end of a cluster is the start of the next one *)
LEMMA AtNextCluster ==
    ASSUME NEW ch, IsChain(ch), NEW p \in Position, NEW o, NEW k, At(ch, p, o, k), p.sector = SectorsPerCluster,
           k + 1 \in 1 .. Len(ch)
    PROVE  At(ch, [p EXCEPT !.cluster = ch[k + 1], !.sector = 0], o, k + 1)
<1> DEFINE q == [p EXCEPT !.cluster = ch[k + 1], !.sector = 0]
<1>1. q.cluster = ch[k + 1] /\ q.sector = 0 /\ q.byte = p.byte /\ p.byte = 0
  BY DEF Position, At
<1>2. k \in Int /\ k * BytesPerCluster \in Int /\ (k - 1) * BytesPerCluster = k * BytesPerCluster - BytesPerCluster
  BY ClusterSize, ProductGrows, ChainType DEF At
<1>3. o = k * BytesPerCluster
  BY <1>1, <1>2, ClusterSize, SMTT(40) DEF At
<1>4. (k + 1) - 1 = k
  BY <1>2
<1> HIDE DEF q
<1>5. o = ((k + 1) - 1) * BytesPerCluster + q.sector * BytesPerSector + q.byte
  BY <1>1, <1>2, <1>3, <1>4, ClusterSize
<1>6. q.sector \in 0 .. SectorsPerCluster /\ q.byte \in 0 .. BytesPerSector - 1 /\ q.sector # SectorsPerCluster
  BY <1>1, ClusterSize
<1>7. At(ch, q, o, k + 1)
  BY <1>1, <1>5, <1>6 DEF At
<1>8. QED BY <1>7 DEF q

(* What check_position_for_next_cluster does to a position and the chain *)
LEMMA Checked ==
    ASSUME IsChain(chain), NEW position \in Position, NEW o, NEW k, At(chain, position, o, k), NEW remain \in Nat,
           NEW p, CheckPosition(position, remain, p)
    PROVE  /\ Grows(chain')
           /\ remain > 0 => p.sector < SectorsPerCluster
           /\ \/ p = position /\ chain' = chain /\ At(chain', p, o, k)
              \/ /\ remain > 0 /\ position.sector = SectorsPerCluster
                 /\ p.sector = 0 /\ p.byte = 0 /\ p \in Position /\ At(chain', p, o, k + 1)
                 /\ chain' = chain \/ (k = Len(chain) /\ Len(chain') = k + 1)
<1>1. CASE remain > 0 /\ position.sector = SectorsPerCluster
  <2>1. PICK r \in Clusters : LinkFreeCluster(position.cluster, r) /\ p = [position EXCEPT !.cluster = r, !.sector = 0]
    BY <1>1 DEF CheckPosition
  <2>2. k \in 1 .. Len(chain) /\ position.cluster = chain[k]
    BY DEF At
  <2>3. /\ Grows(chain') /\ k + 1 \in 1 .. Len(chain') /\ r = chain'[k + 1]
        /\ k < Len(chain) => chain' = chain
        /\ k = Len(chain) => Len(chain') = Len(chain) + 1
    BY <2>1, <2>2, Linked
  <2>4. At(chain', position, o, k)
    BY <2>3, AtGrown
  <2>5. At(chain', p, o, k + 1)
    BY <1>1, <2>1, <2>3, <2>4, AtNextCluster DEF Grows
  <2>0. 0 \in 0 .. SectorsPerCluster
    BY ClusterSize
  <2>a. \A c \in Clusters : [position EXCEPT !.cluster = c, !.sector = 0] \in Position
    BY <2>0 DEF Position
  <2>6. p.sector = 0 /\ p.byte = 0 /\ p \in Position
    <3>1. position.byte = 0
      BY <1>1 DEF At
    <3>2. p.sector = 0 /\ p.byte = position.byte
      BY <2>1 DEF Position
    <3>3. QED BY <2>1, <2>a, <3>1, <3>2
  <2>7. chain' = chain \/ (k = Len(chain) /\ Len(chain') = k + 1)
    BY <2>2, <2>3, ChainType
  <2>8. QED BY <1>1, <2>3, <2>5, <2>6, <2>7, ClusterSize
<1>2. CASE ~(remain > 0 /\ position.sector = SectorsPerCluster)
  <2>1. p = position /\ chain' = chain
    BY <1>2 DEF CheckPosition
  <2>2. Grows(chain')
    BY <2>1, ChainType DEF Grows
  <2>3. remain > 0 => p.sector < SectorsPerCluster
    BY <1>2, <2>1, ClusterSize DEF At
  <2>4. QED BY <2>1, <2>2, <2>3
<1>3. QED BY <1>1, <1>2

(* A volume without a free cluster has a chain of all of them *)
LEMMA FullChain ==
    ASSUME IsChain(chain), Clusters \subseteq Chained
    PROVE  Len(chain) >= LastCluster - 1
<1>1. DOMAIN chain = 1 .. Len(chain) /\ Len(chain) \in Nat
  BY DEF IsChain
<1>2. IsFiniteSet(1 .. Len(chain)) /\ Cardinality(1 .. Len(chain)) = Len(chain)
  <2>1. 1 \in Int /\ Len(chain) \in Int /\ ~(1 > Len(chain) /\ Len(chain) # 0)
    BY <1>1
  <2>2. QED BY <1>1, <2>1, FS_Interval
<1>3. Cardinality(Clusters) = LastCluster - 1 /\ IsFiniteSet(Clusters)
  <2>1. CLUSTER_FIRST \in Int /\ LastCluster \in Int /\ CLUSTER_FIRST <= LastCluster /\ CLUSTER_FIRST = 2
    BY FileAssumption DEF CLUSTER_FIRST
  <2>2. QED BY <2>1, FS_Interval DEF Clusters
<1>4. chain \in Surjection(1 .. Len(chain), Chained)
  <2>1. chain = [i \in 1 .. Len(chain) |-> chain[i]]
    BY <1>1 DEF IsChain
  <2>2. chain \in [1 .. Len(chain) -> Chained]
    BY <1>1, <2>1, IndexFound
  <2>3. \A t \in Chained : \E i \in 1 .. Len(chain) : chain[i] = t
    BY <1>1 DEF Chained
  <2>4. QED BY <2>2, <2>3 DEF Surjection
<1>5. IsFiniteSet(Chained) /\ Cardinality(Chained) <= Cardinality(1 .. Len(chain))
  BY <1>2, <1>4, FS_Surjection
<1>6. Cardinality(Clusters) <= Cardinality(Chained)
  BY <1>5, FS_Subset
<1>7. Cardinality(Chained) \in Nat
  BY <1>5, FS_CardinalityType
<1>8. QED BY <1>1, <1>2, <1>3, <1>5, <1>6, <1>7, FileAssumption

-----------------------------------------------------------------------------
(* The positions that offsets are turned into *)

(* An offset is made up of clusters, sectors and bytes *)
LEMMA SplitOffset ==
    ASSUME NEW o \in Nat
    PROVE  /\ o \div BytesPerCluster \in Nat
           /\ (o % BytesPerCluster) \div BytesPerSector \in 0 .. SectorsPerCluster - 1
           /\ o % BytesPerSector \in 0 .. BytesPerSector - 1
           /\ o % BytesPerCluster = ((o % BytesPerCluster) \div BytesPerSector) * BytesPerSector + (o % BytesPerSector)
           /\ o = (o \div BytesPerCluster) * BytesPerCluster
                  + ((o % BytesPerCluster) \div BytesPerSector) * BytesPerSector + (o % BytesPerSector)
<1> DEFINE C == BytesPerCluster
           B == BytesPerSector
           S == SectorsPerCluster
           q == o \div C
           d == o % C
           t == d \div B
           b == d % B
<1>1. C \in Nat \ {0} /\ B \in Nat \ {0} /\ S \in Nat \ {0} /\ C = S * B
  BY ClusterSize
<1> HIDE DEF C, B, S
<1>2. q \in Nat /\ d \in 0 .. C - 1 /\ o = q * C + d
  BY <1>1
<1> HIDE DEF q, d
<1>3. t \in Nat /\ b \in 0 .. B - 1 /\ d = t * B + b
  BY <1>1, <1>2
<1> HIDE DEF t, b
<1>4. t < S
  <2>1. S <= t => S * B <= t * B
    BY <1>1, <1>3, ProductGrows
  <2>2. t * B \in Int
    BY <1>1, <1>3, ProductGrows
  <2>3. QED BY <1>1, <1>2, <1>3, <2>1, <2>2
<1>5. q * C = (q * S) * B /\ q * S \in Int
  BY <1>1, <1>2
<1>6. (q * S + t) * B = (q * S) * B + t * B /\ q * S + t \in Int
  BY <1>1, <1>3, <1>5, ProductGrows
<1>7. (q * S) * B \in Int /\ t * B \in Int
  BY <1>1, <1>3, <1>5, ProductGrows
<1>8. o = (q * S + t) * B + b
  BY <1>2, <1>3, <1>5, <1>6, <1>7
<1>9. o % B = b
  <2> DEFINE e == q * S + t
  <2>1. e \in Int /\ o = e * B + b /\ o \in Int
    BY <1>6, <1>8
  <2> HIDE DEF e
  <2>2. QED BY <1>1, <1>3, <2>1, DivisionUnique
<1>10. o = q * C + t * B + b
  BY <1>2, <1>3, <1>5, <1>7
<1>11. QED BY <1>1, <1>2, <1>3, <1>4, <1>9, <1>10 DEF C, B, S, q, d, t

(* A multiple of the cluster size that fits n clusters is all of them *)
LEMMA FitsExactly ==
    ASSUME NEW n \in Nat, NEW q \in Nat, NEW size \in Nat, NEW r \in 0 .. BytesPerCluster - 1,
           Fits(n, size), size = q * BytesPerCluster + r
    PROVE  /\ r = 0 => q = n
           /\ r > 0 => q = n - 1
<1> DEFINE C == BytesPerCluster
<1>1. C \in Nat \ {0}
  BY ClusterSize
<1>2. r \in 0 .. C - 1 /\ size = q * C + r /\ (n - 1) * C < size /\ size <= n * C
  BY DEF Fits
<1> HIDE DEF C
<1>3. n * C \in Int /\ q * C \in Int /\ (n - 1) * C = n * C - C
  BY <1>1, ProductGrows
<1>4. n < q => n * C + C <= q * C
  BY <1>1, ProductGrows
<1>5. q < n - 1 => q * C + C <= (n - 1) * C
  BY <1>1, ProductGrows
<1>6. q = n - 1 => q * C = n * C - C
  BY <1>3
<1>7. q = n => q * C = n * C
  OBVIOUS
<1>8. QED BY <1>1, <1>2, <1>3, <1>4, <1>5, <1>6, <1>7

(* The position for appending stands for the size *)
LEMMA EndPositionAt ==
    ASSUME NEW ch, IsChain(ch), NEW size \in Nat, Len(ch) > 0, Fits(Len(ch), size)
    PROVE  At(ch, EndPosition(ch[Len(ch)], size), size, Len(ch))
<1> DEFINE C == BytesPerCluster
           B == BytesPerSector
           S == SectorsPerCluster
           n == Len(ch)
           p == EndPosition(ch[n], size)
           q == size \div C
           d == size % C
           t == d \div B
           b == size % B
<1>1. C \in Nat \ {0} /\ B \in Nat \ {0} /\ S \in Nat \ {0} /\ S * B = C /\ n \in Nat /\ n \in 1 .. n
  BY ClusterSize, ChainType
<1>2. q \in Nat /\ t \in 0 .. S - 1 /\ b \in 0 .. B - 1 /\ d = t * B + b /\ size = q * C + t * B + b
  BY SplitOffset
<1>4. p = [cluster |-> ch[n], sector |-> IF size > 0 /\ d = 0 THEN S ELSE t, byte |-> b]
  BY DEF EndPosition
<1>a. (n - 1) * C < size /\ size <= n * C /\ n > 0
  BY DEF Fits
<1>b. d \in 0 .. C - 1
  BY <1>1
<1> HIDE DEF q, d, t, b, p, C, B, S, n
<1>3. q * C \in Int /\ t * B \in Int /\ 0 <= t * B /\ (n - 1) * C = n * C - C /\ n * C \in Int
  BY <1>1, <1>2, ProductGrows
<1>5. size > 0
  <2>1. n - 1 \in Int /\ 0 <= n - 1
    BY <1>1, <1>a
  <2>2. 0 <= (n - 1) * C /\ (n - 1) * C \in Int
    BY <1>1, <2>1, ProductGrows
  <2>3. QED BY <1>a, <2>2
<1>6. size = q * C + d
  BY <1>2, <1>3
<1>c. (d = 0 => q = n) /\ (d > 0 => q = n - 1)
  BY <1>1, <1>2, <1>6, <1>b, FitsExactly DEF C, n
<1>7. CASE d = 0
  <2>2. b = 0
    BY <1>2, <1>3, <1>7
  <2>3. p.cluster = ch[n] /\ p.sector = S /\ p.byte = 0
    BY <1>4, <1>5, <1>7, <2>2
  <2>4. size = (n - 1) * C + S * B + 0
    BY <1>1, <1>3, <1>6, <1>7, <1>c
  <2>5. At(ch, p, size, n)
    BY <1>1, <2>3, <2>4 DEF At, C, S, B, n
  <2>6. QED BY <2>5 DEF p, n
<1>8. CASE d # 0
  <2>1. q = n - 1
    BY <1>b, <1>c, <1>8
  <2>3. p.cluster = ch[n] /\ p.sector = t /\ p.byte = b
    BY <1>4, <1>8
  <2>4. size = (n - 1) * C + p.sector * B + p.byte /\ p.sector \in 0 .. S /\ p.byte \in 0 .. B - 1 /\ p.sector # S
    BY <1>1, <1>2, <2>1, <2>3
  <2>5. At(ch, p, size, n)
    BY <1>1, <2>3, <2>4 DEF At, C, S, B, n
  <2>6. QED BY <2>5 DEF p, n
<1>9. QED BY <1>7, <1>8

(* It is a position, of whatever cluster *)
LEMMA EndPositionType ==
    ASSUME NEW size \in Nat, NEW c \in Clusters \cup {CLUSTER_FREE}
    PROVE  /\ EndPosition(c, size) \in Position
           /\ EndPosition(c, size).cluster = c
<1>1. /\ (size % BytesPerCluster) \div BytesPerSector \in 0 .. SectorsPerCluster
      /\ size % BytesPerSector \in 0 .. BytesPerSector
  BY SplitOffset, ClusterSize
<1>2. SectorsPerCluster \in 0 .. SectorsPerCluster
  BY ClusterSize
<1>3. QED BY <1>1, <1>2 DEF EndPosition, Position

-----------------------------------------------------------------------------
(* The inductive invariant *)

(***************************************************************************)
(* What the theorems are about.                                            *)
(*                                                                         *)
(* Calls: between two openings a file is read or written, not both (the    *)
(* run file_boundary shows why), ftruncate is called on files that are     *)
(* opened with O_APPEND (file_truncate shows why), and these are neither   *)
(* read nor moved in; offsets do not wrap around.                          *)
(***************************************************************************)
Calls ==
    /\ ~("read" \in PlainCalls /\ "write" \in PlainCalls)
    /\ PlainCalls \cap {"shrink", "grow", "wrap"} = {}
    /\ AppendCalls \cap {"read", "seek", "seekPast", "wrap"} = {}

(* The volume has room for what is to be extended, and transfers fail only *)
(* where no call changes the file: a chain is then as long as its size     *)
(* needs, and its entry leads to it.                                       *)
Exact ==
    /\ MaxExtend <= (LastCluster - 1) * BytesPerCluster
    /\ IoErrors => /\ (PlainCalls \cup AppendCalls) \cap {"write", "shrink", "grow"} = {}
                   /\ "O_TRUNC" \notin OpenModes

(* The hypothesis of what is said of files that are written *)
Setting == Calls /\ Exact

(* The hypothesis of what is said of reads: writes and extensions of a     *)
(* file opened with O_APPEND may also fail, half way or for want of room   *)
ReadSetting == Calls /\ (Exact \/ "write" \notin PlainCalls)

(* n clusters hold size bytes, and if the chain is exact, no fewer do *)
Filled(n, size) ==
    /\ size <= n * BytesPerCluster
    /\ Exact => (n - 1) * BytesPerCluster < size

(* The offset that the call in progress has come to *)
Offset == call.offset + (call.len - call.remain)

(* The position p stands for the offset o of the chain ch *)
Somewhere(ch, p, o) == \E k \in 1 .. Len(ch) : At(ch, p, o, k)

(* n clusters hold size bytes, and none of them is more than these bytes   *)
(* and a call need that has come to the offset o and has left bytes to go  *)
Tight(n, size, o, left) ==
    /\ size <= n * BytesPerCluster
    /\ Exact => \/ (n - 1) * BytesPerCluster < size
                \/ (n - 1) * BytesPerCluster < o
                \/ (n - 1) * BytesPerCluster = o /\ left > 0

(* What is so between two calls, and while a file is read *)
PlainSettled ==
    /\ file.currentPosition <= file.filesize /\ chain # <<>> => Somewhere(chain, file.rwPosition, file.currentPosition)
    /\ "read" \in PlainCalls /\ file.currentPosition < file.filesize /\ chain # <<>>
          => file.rwPosition.sector < SectorsPerCluster

AppendSettled == chain # <<>> => Somewhere(chain, file.appendPosition, file.filesize)

EntrySettled ==
    Exact /\ (IoErrors \/ ~file.modified) => entry = [filesize |-> file.filesize, startCluster |-> StartCluster]

Settled ==
    /\ Filled(Len(chain), file.filesize) /\ EntrySettled
    /\ IF file.append THEN AppendSettled ELSE PlainSettled

SettledState == file.inUse /\ (call.phase = "none" \/ call.op = "read") => Settled

(* What is always so of the file *)
ClosedState ==
    ~file.inUse => /\ call.phase = "none"
                   /\ Exact => entry.startCluster = StartCluster /\ Filled(Len(chain), entry.filesize)

(* No cluster is lost where the entry leads to the chain *)
LostState == Exact => lost = {}

OpenState ==
    /\ file.append => Exact
    /\ file.append => file.currentPosition = 0 /\ (chain # <<>> => At(chain, file.rwPosition, 0, 1))
    /\ file.currentPosition > file.filesize => file.currentPosition <= MaxExtend

(* What a call has come to *)
Extending == call.phase \in {"extend", "zero"}

Moving == call.phase \notin {"none", "extend", "zero"}

CallState ==
    /\ IF call.phase = "none" THEN call.op = "none" ELSE call.op # "none" /\ chain # <<>> /\ file.inUse
    /\ call.op = "read" => ~Extending /\ ~file.append /\ "read" \in PlainCalls
    /\ call.op = "grow" => ~Moving /\ file.append /\ ~IoErrors
    /\ call.op = "write" => (file.append \/ "write" \in PlainCalls) /\ ~IoErrors /\ Exact
    /\ call.phase = "next" => call.op = "read"

TransferState ==
    call.op \in {"read", "write"} =>
       /\ call.remain <= call.len /\ call.offset + call.len <= FILE_MAX_SIZE
       /\ call.offset = IF file.append THEN file.filesize ELSE file.currentPosition
       /\ call.op = "read" => call.offset + call.len <= file.filesize
       /\ Moving => /\ call.offset <= file.filesize
                    /\ call.appending => call.offset + call.len >= file.filesize

ExtendState ==
    Extending =>
       /\ call.target <= MaxExtend /\ call.zeros <= call.target - file.filesize
       /\ file.filesize < call.target
       /\ call.op = "write" => ~file.append /\ call.target = call.offset /\ call.remain = call.len /\ call.len > 0
       /\ call.phase = "extend" => /\ call.zeros = call.target - file.filesize
                                   /\ Fits(Len(chain), file.filesize) \/ (file.filesize = 0 /\ Len(chain) = 1)
       /\ call.phase = "zero" => /\ At(chain, call.position, call.target - call.zeros, Len(chain))
                                 /\ call.position.byte = 0 /\ Tight(Len(chain), file.filesize, call.target - call.zeros, call.zeros)

(* Where a transfer is *)
AtEdge == call.position.sector = SectorsPerCluster

WholeSectors == call.position.byte = 0 \/ call.remain = 0

PhaseState ==
    /\ Moving /\ call.phase # "group" => Somewhere(chain, call.position, Offset) /\ Tight(Len(chain), file.filesize, Offset, call.remain)
    /\ call.phase = "partial" => call.remain = call.len /\ call.len > 0 /\ (call.op = "read" => ~AtEdge)
    /\ call.phase \in {"sectors", "next", "clusters", "last"} => WholeSectors
    /\ call.phase = "next" => AtEdge \/ call.remain < BytesPerSector
    /\ call.phase = "clusters" => /\ call.position.sector = 0 \/ AtEdge \/ call.remain < BytesPerSector
                                  /\ call.op = "read" => ~AtEdge \/ call.remain = 0
    /\ call.phase = "last" => call.remain < BytesPerSector /\ (call.remain > 0 => ~AtEdge)
    /\ call.op = "read" /\ call.phase \in {"clusters", "last", "end"} /\ AtEdge => Offset >= file.filesize
    /\ call.phase = "end" => /\ Tight(Len(chain), file.filesize, Offset, 0)
                             /\ call.remain > 0 => IoErrors \/ (call.op = "write" /\ Clusters \subseteq Chained)

GroupState ==
    call.phase = "group" =>
       /\ call.position.sector = 0 /\ call.position.byte = 0
       /\ \E k, m \in 1 .. Len(chain) :
             /\ At(chain, call.position, Offset, k) /\ Run(chain, k, m)
             /\ call.chunkEnd = chain[m] /\ call.chunkSize = (m - k + 1) * BytesPerCluster
             /\ call.chunkSize <= call.remain /\ Tight(Len(chain), file.filesize, m * BytesPerCluster, 0)

(* TypeOK without the clusters that are lost *)
FileTyped ==
    /\ chain \in Seq(Clusters) /\ \A i, j \in DOMAIN chain : chain[i] = chain[j] => i = j
    /\ entry \in [filesize : Sizes, startCluster : Clusters \cup {CLUSTER_FREE}]
    /\ file \in FileStruct
    /\ call \in Call
    /\ io.offset \in Nat /\ io.address \in Int /\ io.size \in Nat
    /\ io.write \in BOOLEAN /\ io.erase \in BOOLEAN

(* What the last transfer did *)
TransfersRight == WritesHitFile /\ ReadsHitFile /\ EraseSpares

Inv ==
    /\ ReadSetting /\ FileTyped /\ TransfersRight
    /\ SettledState /\ ClosedState /\ OpenState
    /\ CallState /\ TransferState /\ ExtendState /\ PhaseState /\ GroupState

-----------------------------------------------------------------------------
(* Facts that every step needs *)

(* The types of the state's parts *)
LEMMA Types ==
    ASSUME FileTyped
    PROVE  /\ IsChain(chain)
           /\ file \in FileStruct /\ call \in Call
           /\ file.filesize \in Nat /\ file.filesize <= FILE_MAX_SIZE
           /\ file.currentPosition \in Nat /\ file.currentPosition <= FILE_MAX_SIZE
           /\ file.rwPosition \in Position /\ file.appendPosition \in Position
           /\ file.append \in BOOLEAN /\ file.inUse \in BOOLEAN /\ file.modified \in BOOLEAN
           /\ call.offset \in Nat /\ call.len \in Nat /\ call.remain \in Nat /\ call.target \in Nat /\ call.zeros \in Nat
           /\ call.position \in Position /\ call.phase \in Phases /\ call.chunkSize \in Nat
<1>1. chain \in Seq(Clusters) /\ DOMAIN chain = 1 .. Len(chain)
  BY DEF FileTyped
<1>2. IsChain(chain)
  BY <1>1 DEF FileTyped, IsChain
<1>3. file \in FileStruct /\ call \in Call
  BY DEF FileTyped
<1>4. QED BY <1>2, <1>3, FileAssumption DEF FileStruct, Call, Sizes

(* The fields of a position *)
LEMMA PositionFields ==
    ASSUME NEW p \in Position
    PROVE  /\ p.sector \in 0 .. SectorsPerCluster /\ p.byte \in 0 .. BytesPerSector
           /\ p.cluster \in Clusters \cup {CLUSTER_FREE}
BY DEF Position

(* A position that stands for an offset is one *)
LEMMA AtType ==
    ASSUME NEW ch, IsChain(ch), NEW p, NEW o, NEW k, At(ch, p, o, k)
    PROVE  /\ k \in Nat /\ k >= 1 /\ k <= Len(ch) /\ Len(ch) \in Nat
           /\ p.sector \in Nat /\ p.byte \in Nat /\ p.byte < BytesPerSector /\ p.sector * BytesPerSector \in Nat
           /\ o \in Nat /\ (k - 1) * BytesPerCluster <= o /\ o <= k * BytesPerCluster
           /\ p.sector = SectorsPerCluster => o = k * BytesPerCluster
           /\ p.sector < SectorsPerCluster => o < k * BytesPerCluster
           /\ p.cluster \in Clusters
<1>1. /\ k \in 1 .. Len(ch) /\ p.cluster = ch[k] /\ p.sector \in 0 .. SectorsPerCluster /\ p.byte \in 0 .. BytesPerSector - 1
      /\ p.sector = SectorsPerCluster => p.byte = 0
      /\ o = (k - 1) * BytesPerCluster + p.sector * BytesPerSector + p.byte
  BY DEF At
<1>2. Len(ch) \in Nat /\ k \in Nat /\ k >= 1 /\ ch[k] \in Clusters
  BY <1>1, ChainType
<1>3. /\ k - 1 \in Int /\ 0 <= k - 1
      /\ k * BytesPerCluster \in Int /\ (k - 1) * BytesPerCluster = k * BytesPerCluster - BytesPerCluster
  BY <1>2, ClusterSize, ProductGrows
<1>4. 0 <= (k - 1) * BytesPerCluster
  BY <1>3, ClusterSize, ProductGrows
<1>5. /\ p.sector * BytesPerSector \in 0 .. BytesPerCluster
      /\ p.sector < SectorsPerCluster => p.sector * BytesPerSector + BytesPerSector <= BytesPerCluster
      /\ p.sector = SectorsPerCluster <=> p.sector * BytesPerSector = BytesPerCluster
  BY <1>1, SectorOffset
<1> DEFINE x == p.sector * BytesPerSector
           y == k * BytesPerCluster
<1>6. o = (y - BytesPerCluster) + x + p.byte /\ y - BytesPerCluster >= 0 /\ x \in 0 .. BytesPerCluster /\ y \in Int
  BY <1>1, <1>3, <1>4, <1>5
<1>7. p.sector < SectorsPerCluster => x + BytesPerSector <= BytesPerCluster
  BY <1>5
<1>8. p.sector = SectorsPerCluster => x = BytesPerCluster
  BY <1>5
<1> HIDE DEF x, y
<1>9. p.sector < SectorsPerCluster \/ p.sector = SectorsPerCluster
  BY <1>1, ClusterSize
<1>10. /\ o \in Nat /\ y - BytesPerCluster <= o /\ o <= y
       /\ p.sector = SectorsPerCluster => o = y
       /\ p.sector < SectorsPerCluster => o < y
  <2>1. PICK b \in Nat : b = p.byte /\ b < BytesPerSector /\ (p.sector = SectorsPerCluster => b = 0)
    BY <1>1, PositiveSizes
  <2>2. o = (y - BytesPerCluster) + x + b
    BY <1>6, <2>1
  <2>3. CASE p.sector < SectorsPerCluster
    <3>1. SectorsPerCluster \in Nat /\ p.sector # SectorsPerCluster
      BY <1>1, <2>3, PositiveSizes
    <3>2. QED BY <1>6, <1>7, <2>1, <2>2, <2>3, <3>1, PositiveSizes
  <2>4. CASE p.sector = SectorsPerCluster
    <3>1. ~(p.sector < SectorsPerCluster)
      BY <2>4, PositiveSizes
    <3>2. QED BY <1>6, <1>8, <2>1, <2>2, <2>4, <3>1, PositiveSizes
  <2>5. QED BY <1>9, <2>3, <2>4
<1>11. p.sector \in Nat /\ p.byte \in Nat /\ p.byte < BytesPerSector
  BY <1>1, ClusterSize
<1>12. QED BY <1>1, <1>2, <1>3, <1>6, <1>10, <1>11, ClusterSize DEF x, y

(* The addresses of the disc are numbers *)
LEMMA AddressType ==
    ASSUME NEW c \in Clusters \cup {CLUSTER_FREE}, NEW s \in Nat, NEW b \in Nat
    PROVE  Address(c, s, b) \in Int
<1>1. c - CLUSTER_FIRST \in Int
  BY FileAssumption DEF Clusters, CLUSTER_FREE, CLUSTER_FIRST
<1>2. (c - CLUSTER_FIRST) * BytesPerCluster \in Int /\ s * BytesPerSector \in Int
  BY <1>1, ClusterSize, ProductGrows
<1>3. QED BY <1>2 DEF Address

(* A step without a transfer *)
LEMMA NoTransfer ==
    ASSUME io' = NoIo, file'.filesize \in Nat
    PROVE  /\ TransfersRight'
           /\ io'.offset \in Nat /\ io'.address \in Int /\ io'.size \in Nat /\ io'.write \in BOOLEAN /\ io'.erase \in BOOLEAN
<1>1. io'.offset = 0 /\ io'.address = 0 /\ io'.size = 0 /\ io'.write = FALSE /\ io'.erase = FALSE
  BY DEF NoIo
<1>2. 0 .. io'.size - 1 = {}
  BY <1>1
<1>3. HitsFile'
  BY <1>2 DEF HitsFile
<1>4. io'.offset + io'.size <= file'.filesize
  BY <1>1
<1>5. WritesHitFile' /\ ReadsHitFile'
  BY <1>3, <1>4 DEF WritesHitFile, ReadsHitFile
<1>6. EraseSpares'
  BY <1>1 DEF EraseSpares
<1>7. io'.offset \in Nat /\ io'.address \in Int /\ io'.size \in Nat
  BY <1>1
<1>8. io'.write \in BOOLEAN /\ io'.erase \in BOOLEAN
  BY <1>1
<1>9. QED BY <1>5, <1>6, <1>7, <1>8 DEF TransfersRight

(* A step with one *)
LEMMA Transferred ==
    ASSUME NEW w \in BOOLEAN, NEW o \in Nat, NEW a \in Int, NEW size \in Nat, NEW e \in BOOLEAN,
           io' = [write |-> w, offset |-> o, address |-> a, size |-> size, erase |-> e],
           IsChain(chain'), Hits(chain', o, a, size),
           ~w => o + size <= file'.filesize,
           e => o + size >= file'.filesize
    PROVE  /\ TransfersRight'
           /\ io'.offset \in Nat /\ io'.address \in Int /\ io'.size \in Nat /\ io'.write \in BOOLEAN /\ io'.erase \in BOOLEAN
<1>1. io'.offset = o /\ io'.address = a /\ io'.size = size /\ io'.write = w /\ io'.erase = e
  OBVIOUS
<1>2. HitsFile'
  <2> SUFFICES ASSUME NEW j \in 0 .. size - 1
               PROVE  /\ (o + j) \div BytesPerCluster < Len(chain')
                      /\ a + j = Address(chain'[(o + j) \div BytesPerCluster + 1], 0, 0) + ((o + j) % BytesPerCluster)
    BY <1>1 DEF HitsFile, HasPlace, PlaceOf
  <2> DEFINE y == o + j
             i == y \div BytesPerCluster + 1
  <2>1. y \in Nat
    OBVIOUS
  <2>2. /\ y \div BytesPerCluster < Len(chain')
        /\ a + j = (chain'[i] - CLUSTER_FIRST) * BytesPerCluster + (y % BytesPerCluster)
    BY DEF Hits
  <2> HIDE DEF y
  <2>3. y \div BytesPerCluster \in Nat
    BY <2>1, SplitOffset
  <2>4. i \in 1 .. Len(chain')
    BY <2>2, <2>3, ChainType
  <2>5. chain'[i] - CLUSTER_FIRST \in Int
    BY <2>4, ChainType DEF CLUSTER_FIRST
  <2>6. (chain'[i] - CLUSTER_FIRST) * BytesPerCluster \in Int
    BY <2>5, ClusterSize, ProductGrows
  <2>7. Address(chain'[i], 0, 0) = (chain'[i] - CLUSTER_FIRST) * BytesPerCluster
    BY <2>6, ClusterSize DEF Address
  <2>8. QED BY <2>2, <2>7 DEF y
<1>3. QED BY <1>1, <1>2 DEF TransfersRight, WritesHitFile, ReadsHitFile, EraseSpares

(* A call that comes further needs what it needed *)
LEMMA TightOn ==
    ASSUME NEW n \in Nat, NEW size \in Nat, NEW o \in Nat, NEW o2 \in Nat, NEW left \in Nat, NEW left2 \in Nat,
           Tight(n, size, o, left), o <= o2, o2 = o /\ left > 0 => left2 > 0
    PROVE  Tight(n, size, o2, left2)
<1>1. (n - 1) * BytesPerCluster \in Int
  BY ClusterSize, ProductGrows
<1>2. QED BY <1>1 DEF Tight

(* A cluster that check_position_for_next_cluster adds is needed *)
LEMMA CheckedTight ==
    ASSUME IsChain(chain), NEW position \in Position, NEW o, NEW k, At(chain, position, o, k), NEW remain \in Nat,
           NEW p, CheckPosition(position, remain, p), NEW size \in Nat, Tight(Len(chain), size, o, remain)
    PROVE  Tight(Len(chain'), size, o, remain)
<1> DEFINE n == Len(chain)
<1>1. \/ chain' = chain
      \/ remain > 0 /\ position.sector = SectorsPerCluster /\ k = n /\ Len(chain') = k + 1
  BY Checked
<1>2. CASE chain' = chain
  BY <1>2
<1>3. CASE remain > 0 /\ position.sector = SectorsPerCluster /\ k = n /\ Len(chain') = k + 1
  <2>1. o = n * BytesPerCluster /\ n \in Nat
    BY <1>3, AtType
  <2>2. /\ n * BytesPerCluster \in Int /\ Len(chain') * BytesPerCluster = n * BytesPerCluster + BytesPerCluster
        /\ Len(chain') - 1 = n
    BY <1>3, <2>1, ClusterSize, ProductGrows
  <2>3. QED BY <1>3, <2>1, <2>2, ClusterSize DEF Tight
<1>4. QED BY <1>1, <1>2, <1>3

(* Sectors on *)
LEMMA AtSectors ==
    ASSUME NEW ch, IsChain(ch), NEW p, NEW o, NEW k, At(ch, p, o, k), NEW n \in Nat, NEW q,
           p.sector + n <= SectorsPerCluster, p.byte = 0 \/ n = 0,
           q.sector = p.sector + n, q.byte = p.byte, q.cluster = p.cluster
    PROVE  At(ch, q, o + n * BytesPerSector, k)
<1> DEFINE B == BytesPerSector
           C == BytesPerCluster
           S == SectorsPerCluster
<1>1. /\ k \in 1 .. Len(ch) /\ p.cluster = ch[k] /\ p.sector \in 0 .. S /\ p.byte \in 0 .. B - 1
      /\ p.sector = S => p.byte = 0
      /\ o = (k - 1) * C + p.sector * B + p.byte
  BY DEF At
<1>0. S \in Nat /\ B \in Nat \ {0} /\ C \in Nat \ {0} /\ p.sector \in Int /\ Len(ch) \in Nat /\ k \in Int
  BY <1>1, PositiveSizes, ChainType
<1> HIDE DEF B, C, S
<1>2. p.sector + n \in 0 .. S
  BY <1>0, <1>1 DEF S
<1>3. /\ p.sector * B \in Int /\ n * B \in Int /\ (p.sector + n) * B = p.sector * B + n * B
      /\ (k - 1) * C \in Int
  BY <1>0, ProductGrows
<1>a. q.sector * B = p.sector * B + n * B /\ q.byte = p.byte /\ p.byte \in Int
  BY <1>0, <1>1, <1>3
<1>4. o + n * B = (k - 1) * C + q.sector * B + q.byte
  BY <1>1, <1>3, <1>a
<1>5. q.sector = S => q.byte = 0
  BY <1>0, <1>1
<1>6. QED BY <1>1, <1>2, <1>4, <1>5 DEF At, B, C, S

(* Bytes on, to the end of the sector or less *)
LEMMA AtBytes ==
    ASSUME NEW ch, IsChain(ch), NEW p, NEW o, NEW k, At(ch, p, o, k), NEW n \in Nat, NEW q,
           p.sector < SectorsPerCluster, p.byte + n <= BytesPerSector, q.cluster = p.cluster,
           p.byte + n >= BytesPerSector => q.byte = 0 /\ q.sector = p.sector + 1,
           p.byte + n < BytesPerSector => q.byte = p.byte + n /\ q.sector = p.sector
    PROVE  At(ch, q, o + n, k)
<1> DEFINE B == BytesPerSector
           C == BytesPerCluster
           S == SectorsPerCluster
<1>1. /\ k \in 1 .. Len(ch) /\ p.cluster = ch[k] /\ p.sector \in 0 .. S /\ p.byte \in 0 .. B - 1
      /\ o = (k - 1) * C + p.sector * B + p.byte
  BY DEF At
<1>0. /\ S \in Nat /\ B \in Nat \ {0} /\ C \in Nat \ {0} /\ p.sector \in Int /\ p.byte \in Int /\ Len(ch) \in Nat /\ k \in Int
      /\ p.sector < S /\ p.byte + n <= B
  BY <1>1, PositiveSizes, ChainType
<1>2. /\ p.byte + n >= B => q.byte = 0 /\ q.sector = p.sector + 1
      /\ p.byte + n < B => q.byte = p.byte + n /\ q.sector = p.sector
      /\ p.byte + n \in Int
  BY <1>0
<1> HIDE DEF B, C, S
<1>4. p.sector * B \in Int /\ (p.sector + 1) * B = p.sector * B + B /\ (k - 1) * C \in Int
  BY <1>0, ProductGrows
<1>3. CASE p.byte + n >= B
  <2>1. q.byte = 0 /\ q.sector = p.sector + 1 /\ p.byte + n = B
    BY <1>0, <1>2, <1>3
  <2>2. q.byte \in 0 .. B - 1 /\ q.sector \in 0 .. S /\ (q.sector = S => q.byte = 0)
    <3>1. 0 \in 0 .. B - 1
      BY <1>0
    <3>2. p.sector + 1 \in 0 .. S
      BY <1>0, <1>1, SMTT(40)
    <3>3. QED BY <2>1, <3>1, <3>2
  <2>3. q.sector * B = p.sector * B + B
    BY <1>4, <2>1
  <2>4. o + n = (k - 1) * C + q.sector * B + q.byte
    <3> DEFINE x == (k - 1) * C + p.sector * B
    <3>1. x \in Int /\ o = x + p.byte
      BY <1>1, <1>4
    <3> HIDE DEF x
    <3>a. o + n = x + B
      <4>1. PICK b \in Int : b = p.byte
        BY <1>0
      <4>2. b + n = B /\ o = x + b
        BY <2>1, <3>1, <4>1
      <4>3. QED BY <1>0, <3>1, <4>2, SMTT(40)
    <3>2. o + n = (k - 1) * C + p.sector * B + B
      BY <3>a DEF x
    <3>3. QED BY <1>0, <1>4, <2>1, <2>3, <3>2
  <2>5. QED BY <1>1, <2>2, <2>4 DEF At, B, C, S
<1>5. CASE p.byte + n < B
  <2>1. q.byte = p.byte + n /\ q.sector = p.sector
    BY <1>2, <1>5
  <2>2. q.byte \in 0 .. B - 1 /\ q.sector \in 0 .. S /\ (q.sector = S => q.byte = 0)
    BY <1>0, <1>1, <1>5, <2>1, SMTT(40)
  <2>3. q.sector * B = p.sector * B
    BY <2>1
  <2>4. o + n = (k - 1) * C + q.sector * B + q.byte
    BY <1>0, <1>1, <1>4, <2>1, <2>3, SMTT(40)
  <2>5. QED BY <1>1, <2>2, <2>4 DEF At, B, C, S
<1>6. QED BY <1>0, <1>2, <1>3, <1>5

(* A position in a cluster leaves room for a sector *)
LEMMA AtSector ==
    ASSUME NEW ch, NEW p, NEW o, NEW k, At(ch, p, o, k), p.sector < SectorsPerCluster
    PROVE  p.sector * BytesPerSector \in Nat /\ p.sector * BytesPerSector + BytesPerSector <= BytesPerCluster
<1>1. p.sector \in 0 .. SectorsPerCluster
  BY DEF At
<1>2. PICK x \in 0 .. SectorsPerCluster : x = p.sector
  BY <1>1
<1>3. x * BytesPerSector \in 0 .. BytesPerCluster /\ x * BytesPerSector + BytesPerSector <= BytesPerCluster
  BY <1>2, SectorOffset
<1>4. x * BytesPerSector \in Nat
  BY <1>3, PositiveSizes
<1>5. QED BY <1>2, <1>3, <1>4

-----------------------------------------------------------------------------
(* Steps of a transfer *)

(* The call goes on in the phase ph at the position p with r bytes to go *)
GoesOn(ph, p, r) ==
    /\ call' \in Call /\ call'.phase = ph /\ call'.position = p /\ call'.remain = r
    /\ call'.op = call.op /\ call'.offset = call.offset /\ call'.len = call.len
    /\ call'.appending = call.appending /\ call'.zeros = call.zeros

(* The type of io *)
IoType ==
    io.offset \in Nat /\ io.address \in Int /\ io.size \in Nat /\ io.write \in BOOLEAN /\ io.erase \in BOOLEAN

(* Whatever the step, what is so of the file and of the call as a whole    *)
(* is so behind it                                                         *)
LEMMA TransferKeeps ==
    ASSUME Inv, Moving, NEW ph \in Phases \ {"none", "extend", "zero"}, ph = "next" => call.op = "read",
           NEW p, NEW r, r <= call.remain, GoesOn(ph, p, r),
           Grows(chain'), call.op = "read" => chain' = chain, UNCHANGED <<entry, file>>, IoType'
    PROVE  /\ FileTyped' /\ ReadSetting' /\ SettledState' /\ ClosedState' /\ OpenState'
           /\ CallState' /\ TransferState' /\ ExtendState'
<1>1. FileTyped /\ SettledState /\ ClosedState /\ OpenState /\ CallState /\ TransferState
  BY DEF Inv
<1>2. /\ chain # <<>> /\ file.inUse /\ call.op \in {"read", "write"} /\ call.phase # "none"
      /\ chain' # <<>> /\ chain' \in Seq(Clusters)
  <2>1. chain # <<>> /\ file.inUse /\ call.op # "none" /\ call.op # "grow" /\ call.phase # "none"
    BY <1>1 DEF CallState, Moving
  <2>2. call.op \in {"read", "write"}
    BY <1>1, <2>1, Types DEF Call
  <2>3. Len(chain) \in Nat /\ Len(chain) # 0 /\ Len(chain') \in Nat
    BY <1>1, <2>1, Types DEF IsChain, Grows
  <2>4. Len(chain') # 0 /\ chain' \in Seq(Clusters)
    BY <2>3 DEF Grows, IsChain
  <2>5. QED BY <2>1, <2>2, <2>4
<1>3. ReadSetting'
  BY DEF Inv, ReadSetting, Calls
<1>4. FileTyped'
  <2>1. chain' \in Seq(Clusters) /\ \A i, j \in DOMAIN chain' : chain'[i] = chain'[j] => i = j
    BY DEF Grows, IsChain
  <2>2. call' \in Call
    BY DEF GoesOn
  <2>3. QED BY <1>1, <2>1, <2>2 DEF FileTyped, IoType
<1>5. SettledState'
  <2>1. CASE call.op = "read"
    <3>1. Settled
      BY <1>1, <1>2, <2>1 DEF SettledState
    <3>2. Settled' <=> Settled
      BY <2>1 DEF Settled, EntrySettled, AppendSettled, PlainSettled, StartCluster
    <3>3. QED BY <3>1, <3>2 DEF SettledState
  <2>2. CASE call.op # "read"
    BY <2>2 DEF SettledState, GoesOn
  <2>3. QED BY <2>1, <2>2
<1>6. ClosedState'
  BY <1>2 DEF ClosedState
<1>7. OpenState'
  <2>1. ASSUME file.append PROVE At(chain', file.rwPosition, 0, 1)
    <3>1. At(chain, file.rwPosition, 0, 1)
      BY <1>1, <1>2, <2>1 DEF OpenState
    <3>2. QED BY <1>1, <3>1, AtGrown, Types
  <2>2. QED BY <1>1, <2>1 DEF OpenState
<1>8. CallState'
  BY <1>1, <1>2 DEF CallState, GoesOn, Moving, Extending
<1>9. TransferState'
  <2>1. call'.remain <= call'.len
    <3>1. call.remain <= call.len /\ call.remain \in Nat /\ call.len \in Nat
      BY <1>1, <1>2, Types DEF TransferState
    <3>2. call'.remain \in Nat
      BY FileAssumption DEF GoesOn, Call, Sizes
    <3>3. QED BY <3>1, <3>2 DEF GoesOn
  <2>2. QED BY <1>1, <1>2, <2>1 DEF TransferState, GoesOn, Moving
<1>10. ExtendState'
  BY DEF ExtendState, Extending, GoesOn
<1>11. QED BY <1>3, <1>4, <1>5, <1>6, <1>7, <1>8, <1>9, <1>10

(* The offset that a call has come to is a number *)
LEMMA OffsetType ==
    ASSUME Inv, Moving
    PROVE  Offset \in Nat /\ Offset + call.remain = call.offset + call.len /\ Offset <= FILE_MAX_SIZE
<1>1. call.op \in {"read", "write"}
  BY Types DEF Inv, CallState, Moving, Call
<1>2. call.remain <= call.len /\ call.offset + call.len <= FILE_MAX_SIZE
  BY <1>1 DEF Inv, TransferState
<1>3. call.remain \in Nat /\ call.len \in Nat /\ call.offset \in Nat /\ FILE_MAX_SIZE \in Nat
  BY Types, FileAssumption DEF Inv
<1>4. QED BY <1>2, <1>3 DEF Offset

(* A write makes sure of its cluster, a read has it *)
LEMMA Advanced ==
    ASSUME Inv, call.phase \in {"partial", "clusters"}, NEW p, Advance(p)
    PROVE  /\ Grows(chain') /\ (call.op = "read" => chain' = chain) /\ p \in Position
           /\ Somewhere(chain', p, Offset)
           /\ Tight(Len(chain'), file.filesize, Offset, call.remain)
           /\ call.remain > 0 => p.sector < SectorsPerCluster
           /\ p = call.position \/ (p.sector = 0 /\ p.byte = 0)
<1>1. /\ IsChain(chain) /\ call.position \in Position /\ call.remain \in Nat /\ file.filesize \in Nat
      /\ Somewhere(chain, call.position, Offset) /\ Tight(Len(chain), file.filesize, Offset, call.remain)
      /\ call.op = "read" /\ call.remain > 0 => call.position.sector # SectorsPerCluster
  BY Types DEF Inv, PhaseState, Moving, AtEdge
<1>2. PICK k \in 1 .. Len(chain) : At(chain, call.position, Offset, k)
  BY <1>1 DEF Somewhere
<1>3. CASE call.op = "write"
  <2>1. CheckPosition(call.position, call.remain, p)
    BY <1>3 DEF Advance
  <2>2. /\ Grows(chain')
        /\ call.remain > 0 => p.sector < SectorsPerCluster
        /\ \/ p = call.position /\ At(chain', p, Offset, k)
           \/ p.sector = 0 /\ p.byte = 0 /\ p \in Position /\ At(chain', p, Offset, k + 1)
    BY <1>1, <1>2, <2>1, Checked
  <2>3. Somewhere(chain', p, Offset)
    BY <2>2 DEF Somewhere, At
  <2>4. QED BY <1>1, <1>2, <1>3, <2>1, <2>2, <2>3, CheckedTight
<1>4. CASE call.op # "write"
  <2>1. p = call.position /\ chain' = chain
    BY <1>4 DEF Advance
  <2>2. Grows(chain')
    BY <1>1, <2>1, ChainType DEF Grows
  <2>3. call.op = "read"
    BY <1>4, Types DEF Inv, CallState, Moving, Call
  <2>4. call.remain > 0 => p.sector < SectorsPerCluster
    BY <1>1, <2>1, <2>3, PositiveSizes, PositionFields
  <2>5. QED BY <1>1, <2>1, <2>2, <2>4
<1>5. QED BY <1>3, <1>4

(* The record of a call that goes on *)
LEMMA CallChanged ==
    ASSUME call \in Call, NEW ph \in Phases, NEW p \in Position, NEW r \in Sizes,
           call' = [call EXCEPT !.phase = ph, !.remain = r, !.position = p]
    PROVE  GoesOn(ph, p, r)
BY DEF GoesOn, Call

(* A step from one phase to another that is not that of a run of clusters  *)
LEMMA TransferStep ==
    ASSUME Inv, Moving, NEW ph \in {"sectors", "next", "clusters", "last", "end"}, ph = "next" => call.op = "read",
           NEW p, NEW r \in Nat, r <= call.remain, GoesOn(ph, p, r),
           Grows(chain'), call.op = "read" => chain' = chain, UNCHANGED <<entry, file>>, IoType', TransfersRight',
           NEW o, o = call.offset + (call.len - r), Somewhere(chain', p, o),
           Tight(Len(chain'), file.filesize, o, r),
           ph # "end" => p.byte = 0 \/ r = 0,
           ph = "next" => p.sector = SectorsPerCluster \/ r < BytesPerSector,
           ph = "clusters" => /\ p.sector = 0 \/ p.sector = SectorsPerCluster \/ r < BytesPerSector
                              /\ call.op = "read" => p.sector # SectorsPerCluster \/ r = 0,
           ph = "last" => r < BytesPerSector /\ (r > 0 => p.sector # SectorsPerCluster),
           call.op = "read" /\ ph \in {"clusters", "last", "end"} /\ p.sector = SectorsPerCluster => o >= file.filesize,
           ph = "end" => /\ Tight(Len(chain'), file.filesize, o, 0)
                         /\ r > 0 => IoErrors \/ (call.op = "write" /\ Clusters \subseteq Chained')
    PROVE  Inv'
<1>1. ph \in Phases \ {"none", "extend", "zero"}
  BY DEF Phases
<1>2. /\ FileTyped' /\ ReadSetting' /\ SettledState' /\ ClosedState' /\ OpenState'
      /\ CallState' /\ TransferState' /\ ExtendState'
  BY <1>1, TransferKeeps
<1>3. Offset' = o
  BY DEF Offset, GoesOn
<1>4. call'.phase = ph /\ call'.position = p /\ call'.remain = r /\ call'.op = call.op /\ file' = file
  BY DEF GoesOn
<1>5. PhaseState'
  BY <1>3, <1>4 DEF PhaseState, AtEdge, WholeSectors
<1>6. GroupState'
  BY <1>4 DEF GroupState
<1>7. QED BY <1>2, <1>5, <1>6 DEF Inv

(* A transfer of the call in progress, inside a cluster *)
LEMMA TransferInside ==
    ASSUME Inv, Moving, IsChain(chain'), file' = file, NEW p, NEW k, At(chain', p, Offset, k), NEW size \in Nat,
           size <= call.remain, p.sector * BytesPerSector + p.byte + size <= BytesPerCluster,
           NEW e \in BOOLEAN, e => call.op = "write" /\ call.appending /\ size = call.remain,
           Transfer(Address(p.cluster, p.sector, p.byte), size, e)
    PROVE  IoType' /\ TransfersRight'
<1>1. Offset \in Nat /\ Offset + call.remain = call.offset + call.len /\ call.remain \in Nat
  BY OffsetType, Types DEF Inv
<1>2. Hits(chain', Offset, Address(p.cluster, p.sector, p.byte), size)
  BY HitInCluster
<1>3. Address(p.cluster, p.sector, p.byte) \in Int
  BY AtType, AddressType
<1>4. file.filesize \in Nat /\ call.offset \in Nat /\ call.len \in Nat
  BY Types DEF Inv
<1>5. call.op = "read" => Offset + size <= file'.filesize
  <2>1. call.op = "read" => call.offset + call.len <= file.filesize
    BY DEF Inv, TransferState
  <2>2. QED BY <1>1, <1>4, <2>1
<1>6. e => Offset + size >= file'.filesize
  <2>1. e => call.offset + call.len >= file.filesize
    BY DEF Inv, TransferState
  <2>2. QED BY <1>1, <1>4, <2>1
<1> DEFINE w == call.op # "read"
           a == Address(p.cluster, p.sector, p.byte)
<1>7. io' = [write |-> w, offset |-> Offset, address |-> a, size |-> size, erase |-> e]
  BY DEF Transfer, Offset
<1>8. w \in BOOLEAN /\ (~w => Offset + size <= file'.filesize)
  BY <1>5
<1> HIDE DEF w, a
<1>9. a \in Int /\ Hits(chain', Offset, a, size)
  BY <1>2, <1>3 DEF a
<1>10. QED BY <1>1, <1>6, <1>7, <1>8, <1>9, Transferred DEF IoType

(* The rest of a sector *)
LEMMA PartialInv ==
    ASSUME Inv, Partial
    PROVE  Inv'
<1>1. call.phase = "partial" /\ UNCHANGED <<entry, file>> /\ Moving
  BY DEF Partial, Moving
<1>2. PICK p \in Position :
         /\ Advance(p)
         /\ LET n == Lesser(BytesPerSector - p.byte, call.remain)
                wraps == p.byte + n >= BytesPerSector
            IN  IF n < BytesPerSector
                THEN /\ Transfer(Address(p.cluster, p.sector, p.byte), n, FALSE)
                     /\ call' = [call EXCEPT !.phase = "sectors", !.remain = call.remain - n,
                           !.position = [p EXCEPT !.byte = IF wraps THEN 0 ELSE p.byte + n,
                                                  !.sector = IF wraps THEN p.sector + 1 ELSE p.sector]]
                ELSE /\ io' = NoIo
                     /\ call' = [call EXCEPT !.phase = "sectors", !.position = p]
  BY DEF Partial
<1>3. /\ call.remain = call.len /\ call.len > 0 /\ call.len \in Nat /\ call.remain \in Nat /\ call.remain \in Sizes
      /\ call \in Call /\ call.offset \in Nat /\ file.filesize \in Nat
  BY <1>1, Types DEF Inv, PhaseState, Call, Sizes
<1>4. /\ Grows(chain') /\ (call.op = "read" => chain' = chain)
      /\ Somewhere(chain', p, Offset)
      /\ Tight(Len(chain'), file.filesize, Offset, call.remain)
      /\ p.sector < SectorsPerCluster
  BY <1>1, <1>2, <1>3, Advanced
<1>5. PICK k \in 1 .. Len(chain') : At(chain', p, Offset, k)
  BY <1>4 DEF Somewhere
<1>6. IsChain(chain') /\ Len(chain') \in Nat
  BY <1>4, ChainType DEF Grows
<1>7. p.sector \in Nat /\ p.byte \in Nat /\ p.byte < BytesPerSector /\ Offset \in Nat /\ p.sector \in 0 .. SectorsPerCluster
  BY <1>5, <1>6, AtType DEF At
<1> DEFINE n == Lesser(BytesPerSector - p.byte, call.remain)
<1>8. n \in Nat /\ n > 0 /\ p.byte + n <= BytesPerSector /\ n <= call.remain /\ (n = BytesPerSector - p.byte \/ n = call.remain)
  BY <1>3, <1>7, PositiveSizes DEF Lesser
<1> HIDE DEF n
<1>9. CASE n < BytesPerSector
  <2> DEFINE b == IF p.byte + n >= BytesPerSector THEN 0 ELSE p.byte + n
             t == IF p.byte + n >= BytesPerSector THEN p.sector + 1 ELSE p.sector
             q == [p EXCEPT !.byte = b, !.sector = t]
             r == call.remain - n
  <2>1. /\ Transfer(Address(p.cluster, p.sector, p.byte), n, FALSE)
        /\ call' = [call EXCEPT !.phase = "sectors", !.remain = r, !.position = q]
    BY <1>2, <1>9 DEF n
  <2>2. b \in 0 .. BytesPerSector /\ t \in 0 .. SectorsPerCluster
    BY <1>4, <1>7, <1>8, PositiveSizes, SMTT(40)
  <2>3. r \in Nat /\ r \in Sizes /\ r <= call.remain
    BY <1>3, <1>8, FileAssumption DEF Sizes
  <2>4. /\ p.byte + n >= BytesPerSector => b = 0 /\ t = p.sector + 1
        /\ p.byte + n < BytesPerSector => b = p.byte + n /\ t = p.sector
    BY <1>7, <1>8, PositiveSizes
  <2>5. b = 0 \/ r = 0
    BY <1>3, <1>7, <1>8, PositiveSizes
  <2> HIDE DEF b, t
  <2>6. q \in Position /\ q.byte = b /\ q.sector = t /\ q.cluster = p.cluster
    BY <1>2, <2>2 DEF Position
  <2> HIDE DEF q
  <2>7. At(chain', q, Offset + n, k)
    BY <1>4, <1>5, <1>6, <1>8, <2>4, <2>6, AtBytes
  <2>8. Offset + n = call.offset + (call.len - r)
    BY <1>3, <1>8, <2>3 DEF Offset
  <2>9. GoesOn("sectors", q, r)
    BY <1>3, <2>1, <2>3, <2>6, CallChanged DEF Phases
  <2>10. p.sector * BytesPerSector + p.byte + n <= BytesPerCluster
    <3>1. p.sector * BytesPerSector \in Int /\ p.sector * BytesPerSector + BytesPerSector <= BytesPerCluster
      BY <1>4, <1>5, AtSector
    <3>2. QED BY <1>7, <1>8, <3>1, PositiveSizes, SMTT(40)
  <2>11. IoType' /\ TransfersRight'
    BY <1>1, <1>5, <1>6, <1>8, <2>1, <2>10, TransferInside
  <2>12. Tight(Len(chain'), file.filesize, Offset + n, r)
    <3>1. Offset + n \in Nat /\ Offset <= Offset + n /\ Offset + n # Offset
      BY <1>7, <1>8
    <3>2. QED BY <1>3, <1>4, <1>6, <1>7, <2>3, <3>1, TightOn
  <2>13. Somewhere(chain', q, Offset + n)
    BY <2>7 DEF Somewhere
  <2> HIDE DEF r
  <2>14. QED BY <1>1, <1>4, <2>3, <2>5, <2>6, <2>8, <2>9, <2>11, <2>12, <2>13, TransferStep
<1>10. CASE ~(n < BytesPerSector)
  <2>1. io' = NoIo /\ call' = [call EXCEPT !.phase = "sectors", !.position = p]
    BY <1>2, <1>10 DEF n
  <2>2. p.byte = 0
    BY <1>7, <1>8, <1>10, PositiveSizes
  <2>3. call' = [call EXCEPT !.phase = "sectors", !.remain = call.remain, !.position = p]
    BY <1>3, <2>1 DEF Call
  <2>4. GoesOn("sectors", p, call.remain)
    BY <1>2, <1>3, <2>3, CallChanged DEF Phases
  <2>5. IoType' /\ TransfersRight'
    BY <1>1, <1>3, <2>1, NoTransfer DEF IoType
  <2>6. QED BY <1>1, <1>3, <1>4, <2>2, <2>4, <2>5, TransferStep DEF Offset
<1>11. QED BY <1>9, <1>10

(* The transfer of n sectors fails, and that of a run of clusters *)
SectorsFail(p, n) ==
    IoErrors /\ n > 0 /\ io' = NoIo /\ call' = [call EXCEPT !.phase = "end", !.position = p]

GroupFails ==
    /\ IoErrors /\ io' = NoIo
    /\ call' = [call EXCEPT !.phase = "end", !.chunkEnd = CLUSTER_FREE, !.chunkSize = 0]

(* A read that fails ends where it has come to *)
LEMMA ReadFails ==
    ASSUME Inv, Moving, IoErrors, UNCHANGED <<entry, file>>, io' = NoIo, call.op = "read" => chain' = chain,
           NEW p \in Position, Somewhere(chain', p, Offset), p.sector # SectorsPerCluster,
           GoesOn("end", p, call.remain)
    PROVE  Inv'
<1>1. call.op = "read" /\ file.inUse /\ chain' = chain
  BY Types DEF Inv, CallState, Moving, Call
<1>2. /\ call.remain \in Nat /\ call.len \in Nat /\ call.offset \in Nat /\ file.filesize \in Nat
      /\ IsChain(chain) /\ Len(chain) \in Nat
  BY Types, ChainType DEF Inv
<1>3. Grows(chain')
  BY <1>1, <1>2, ChainType DEF Grows
<1>4. IoType' /\ TransfersRight'
  BY <1>2, NoTransfer DEF IoType
<1>5. Filled(Len(chain), file.filesize)
  BY <1>1 DEF Inv, SettledState, Settled
<1>6. /\ Tight(Len(chain'), file.filesize, Offset, 0)
      /\ Tight(Len(chain'), file.filesize, Offset, call.remain)
  BY <1>1, <1>5 DEF Filled, Tight
<1>7. Offset = call.offset + (call.len - call.remain) /\ "end" \in Phases
  BY DEF Offset, Phases
<1>8. QED BY <1>1, <1>2, <1>3, <1>4, <1>6, <1>7, TransferStep

(* Whole sectors are transferred, or none *)
LEMMA SectorsTransferred ==
    ASSUME Inv, Moving, Grows(chain'), UNCHANGED <<entry, file>>, NEW p \in Position, Somewhere(chain', p, Offset),
           Tight(Len(chain'), file.filesize, Offset, call.remain), NEW n \in Nat, NEW sector,
           n > 0 => p.byte = 0 /\ sector = p.sector, p.sector + n <= SectorsPerCluster,
           n * BytesPerSector <= call.remain, NEW ph \in Phases, MoveSectors(p, sector, n, ph), ~SectorsFail(p, n)
    PROVE  /\ IoType' /\ TransfersRight'
           /\ \E q \in Position, r \in Nat :
                /\ r = call.remain - n * BytesPerSector /\ r <= call.remain /\ GoesOn(ph, q, r)
                /\ q.sector = p.sector + n /\ q.byte = p.byte
                /\ Somewhere(chain', q, call.offset + (call.len - r))
                /\ Tight(Len(chain'), file.filesize, call.offset + (call.len - r), r)
<1> DEFINE x == n * BytesPerSector
           r == call.remain - x
           t == p.sector + n
           q == [p EXCEPT !.sector = t]
<1>1. /\ call.remain \in Nat /\ call.len \in Nat /\ call.offset \in Nat /\ call \in Call /\ file.filesize \in Nat
      /\ call.remain \in Sizes /\ Offset \in Nat
  BY Types, OffsetType DEF Inv, Call
<1>2. /\ IF n > 0 THEN Transfer(Address(p.cluster, sector, 0), x, FALSE) ELSE io' = NoIo
      /\ call' = [call EXCEPT !.phase = ph, !.remain = r, !.position = q]
  BY DEF MoveSectors, SectorsFail
<1>3. x \in Nat /\ (n > 0 => x > 0) /\ (n = 0 => x = 0)
  <2>1. n * BytesPerSector \in Int /\ 0 <= n * BytesPerSector
    BY PositiveSizes, ProductGrows
  <2>2. 1 <= n => 1 * BytesPerSector <= n * BytesPerSector
    BY PositiveSizes, ProductGrows
  <2>3. QED BY <2>1, <2>2, PositiveSizes
<1> HIDE DEF x
<1>4. r \in Nat /\ r <= call.remain /\ r \in Sizes
  BY <1>1, <1>3, FileAssumption DEF Sizes, x
<1>5. PICK k \in 1 .. Len(chain') : At(chain', p, Offset, k)
  BY DEF Somewhere
<1>6. IsChain(chain') /\ Len(chain') \in Nat
  BY ChainType DEF Grows
<1>7. p.sector \in 0 .. SectorsPerCluster /\ p.sector \in Nat /\ p.byte \in Nat
  BY <1>5, <1>6, AtType DEF At
<1>8. t \in 0 .. SectorsPerCluster
  BY <1>7, PositiveSizes
<1> HIDE DEF t
<1>9. q \in Position /\ q.sector = t /\ q.byte = p.byte /\ q.cluster = p.cluster
  BY <1>8 DEF Position
<1> HIDE DEF q, r
<1>10. At(chain', q, Offset + x, k)
  BY <1>5, <1>6, <1>9, AtSectors DEF t, x
<1>11. Offset + x = call.offset + (call.len - r)
  BY <1>1, <1>3, <1>4, SMTT(40) DEF Offset, r
<1>12. GoesOn(ph, q, r)
  BY <1>1, <1>2, <1>4, <1>9, CallChanged
<1>13. Tight(Len(chain'), file.filesize, Offset + x, r)
  <2>1. Offset + x \in Nat /\ Offset <= Offset + x /\ (Offset + x = Offset /\ call.remain > 0 => r > 0)
    BY <1>1, <1>3 DEF r
  <2>2. QED BY <1>1, <1>4, <1>6, <2>1, TightOn
<1>14. IoType' /\ TransfersRight'
  <2>1. CASE n > 0
    <3>1. Transfer(Address(p.cluster, p.sector, p.byte), x, FALSE)
      BY <1>2, <2>1
    <3>2. p.sector * BytesPerSector + p.byte + x <= BytesPerCluster
      <4>1. t * BytesPerSector = p.sector * BytesPerSector + x /\ p.sector * BytesPerSector \in Int
        BY <1>7, PositiveSizes, ProductGrows DEF t, x
      <4>2. t * BytesPerSector <= BytesPerCluster
        BY <1>8, SectorOffset, PositiveSizes
      <4>3. p.byte = 0
        BY <2>1
      <4>4. QED BY <1>3, <4>1, <4>2, <4>3, PositiveSizes
    <3>3. QED BY <1>3, <1>5, <1>6, <3>1, <3>2, TransferInside DEF x
  <2>2. CASE n = 0
    <3>1. io' = NoIo /\ file' = file
      BY <1>2, <2>2
    <3>2. QED BY <1>1, <3>1, NoTransfer DEF IoType
  <2>3. QED BY <2>1, <2>2
<1>15. Somewhere(chain', q, Offset + x)
  BY <1>10 DEF Somewhere
<1>16. r = call.remain - n * BytesPerSector /\ q.sector = p.sector + n /\ q.byte = p.byte
  BY <1>9 DEF r, x, t
<1>17. QED BY <1>4, <1>9, <1>11, <1>12, <1>13, <1>14, <1>15, <1>16

(* The sectors up to the end of the cluster, or less *)
LEMMA SectorsLeftBound ==
    ASSUME NEW s \in 0 .. SectorsPerCluster, s = call.position.sector, NEW m \in Nat, m = call.remain
    PROVE  /\ SectorsLeft \in Nat /\ SectorsLeft <= SectorsPerCluster - s /\ SectorsLeft * BytesPerSector <= m
           /\ SectorsLeft = SectorsPerCluster - s \/ m - SectorsLeft * BytesPerSector < BytesPerSector
           /\ m = 0 => SectorsLeft = 0
<1> DEFINE B == BytesPerSector
           h == SectorsPerCluster - s
           d == m \div B
<1>1. B \in Nat \ {0} /\ h \in Nat
  BY PositiveSizes
<1>2. SectorsLeft = IF m > h * B THEN h ELSE d
  BY DEF SectorsLeft
<1> HIDE DEF B, h
<1>a. m \in Int /\ 0 <= m
  OBVIOUS
<1>b. d \in Int /\ m % B \in 0 .. B - 1 /\ m = d * B + (m % B) /\ 0 <= d
  BY <1>1, <1>a, Division
<1> HIDE DEF d
<1>3. d \in Nat /\ m % B \in 0 .. B - 1 /\ m = d * B + (m % B)
  BY <1>b
<1>4. h * B \in Int /\ d * B \in Int
  BY <1>1, <1>3, ProductGrows
<1>5. h < d => h * B + B <= d * B
  BY <1>1, <1>3, ProductGrows
<1>6. CASE m > h * B
  <2>1. 0 <= h * B
    BY <1>1, ProductGrows
  <2>2. QED BY <1>1, <1>2, <1>4, <1>6, <2>1 DEF B, h
<1>7. CASE m <= h * B
  <2>1. d <= h /\ d * B <= m /\ m - d * B < B
    BY <1>1, <1>3, <1>4, <1>5, <1>7
  <2>2. m = 0 => d = 0
    <3>1. 1 <= d => 1 * B <= d * B
      BY <1>1, <1>3, ProductGrows
    <3>2. QED BY <1>1, <1>3, <1>4, <2>1, <3>1
  <2>3. SectorsLeft = d
    BY <1>2, <1>4, <1>7
  <2>4. QED BY <1>3, <2>1, <2>2, <2>3 DEF B, h
<1>8. QED BY <1>4, <1>6, <1>7

(* The sectors up to the end of the cluster *)
LEMMA ToClusterEndInv ==
    ASSUME Inv, ToClusterEnd
    PROVE  Inv'
<1> DEFINE p == call.position
           n == SectorsMoved
           ph == IF call.op = "read" THEN "next" ELSE "clusters"
<1>1. call.phase = "sectors" /\ MoveSectors(p, p.sector, n, ph) /\ UNCHANGED <<chain, entry, file>>
  BY DEF ToClusterEnd
<1>2. Moving /\ ph \in Phases /\ call.op \in {"read", "write"}
  BY <1>1, Types DEF Moving, Phases, Inv, CallState, Call
<1>3. /\ IsChain(chain) /\ p \in Position /\ call.remain \in Nat
      /\ Somewhere(chain', p, Offset) /\ Tight(Len(chain'), file.filesize, Offset, call.remain)
      /\ p.byte = 0 \/ call.remain = 0
  BY <1>1, Types DEF Inv, PhaseState, Moving, WholeSectors
<1>4. Grows(chain')
  BY <1>1, <1>3, ChainType DEF Grows
<1>5. p.sector \in 0 .. SectorsPerCluster
  BY <1>3, PositionFields
<1>6. PICK s \in 0 .. SectorsPerCluster, m \in Nat : s = p.sector /\ m = call.remain
  BY <1>3, <1>5
<1>7. /\ SectorsLeft \in Nat /\ SectorsLeft <= SectorsPerCluster - s /\ SectorsLeft * BytesPerSector <= m
      /\ SectorsLeft = SectorsPerCluster - s \/ m - SectorsLeft * BytesPerSector < BytesPerSector
      /\ m = 0 => SectorsLeft = 0
  BY <1>6, SectorsLeftBound
<1>8. /\ n = SectorsLeft \/ (n = 0 /\ call.op = "write" /\ SectorsLeft = SectorsPerCluster)
      /\ call.op = "read" => n = SectorsLeft
  BY DEF SectorsMoved
<1> HIDE DEF n
<1>9. /\ n \in Nat /\ s + n <= SectorsPerCluster /\ n * BytesPerSector <= m /\ (m = 0 => n = 0)
      /\ s + n = SectorsPerCluster \/ m - n * BytesPerSector < BytesPerSector \/ (s + n = 0 /\ call.op = "write")
  <2>1. CASE n = SectorsLeft
    BY <1>7, <2>1, PositiveSizes
  <2>2. CASE n = 0 /\ call.op = "write" /\ SectorsLeft = SectorsPerCluster
    BY <1>6, <1>7, <2>2, PositiveSizes
  <2>3. QED BY <1>8, <2>1, <2>2
<1>10. n > 0 => p.byte = 0
  BY <1>3, <1>6, <1>9
<1> HIDE DEF p, ph
<1>a. CASE SectorsFail(p, n)
  <2>1. p.sector # SectorsPerCluster /\ IoErrors /\ io' = NoIo
    BY <1>6, <1>9, <1>a, PositiveSizes DEF SectorsFail
  <2>2. GoesOn("end", p, call.remain)
    <3>1. call \in Call /\ call.remain \in Sizes /\ "end" \in Phases
      BY Types DEF Inv, Call, Phases
    <3>2. call' = [call EXCEPT !.phase = "end", !.remain = call.remain, !.position = p]
      BY <1>a, <3>1 DEF SectorsFail, Call
    <3>3. QED BY <1>3, <3>1, <3>2, CallChanged
  <2>3. QED BY <1>1, <1>2, <1>3, <2>1, <2>2, ReadFails
<1>b. CASE ~SectorsFail(p, n)
  <2>11. /\ IoType' /\ TransfersRight'
         /\ \E q \in Position, r \in Nat :
                  /\ r = call.remain - n * BytesPerSector /\ r <= call.remain /\ GoesOn(ph, q, r)
                  /\ q.sector = p.sector + n /\ q.byte = p.byte
                  /\ Somewhere(chain', q, call.offset + (call.len - r))
                  /\ Tight(Len(chain'), file.filesize, call.offset + (call.len - r), r)
    BY <1>1, <1>2, <1>3, <1>4, <1>6, <1>9, <1>10, <1>b, SectorsTransferred
  <2>12. PICK q \in Position, r \in Nat :
                  /\ r = call.remain - n * BytesPerSector /\ r <= call.remain /\ GoesOn(ph, q, r)
                  /\ q.sector = p.sector + n /\ q.byte = p.byte
                  /\ Somewhere(chain', q, call.offset + (call.len - r))
                  /\ Tight(Len(chain'), file.filesize, call.offset + (call.len - r), r)
    BY <2>11
  <2>13. q.byte = 0 \/ r = 0
    <3>1. CASE p.byte = 0
      BY <2>12, <3>1
    <3>2. CASE call.remain = 0
      BY <2>12, <3>2
    <3>3. QED BY <1>3, <3>1, <3>2 DEF p
  <2>14. q.sector = SectorsPerCluster \/ r < BytesPerSector \/ (q.sector = 0 /\ call.op = "write")
    BY <1>6, <1>9, <2>12
  <2>15. ph \in {"next", "clusters"} /\ (ph = "next" <=> call.op = "read")
    BY <1>2 DEF ph
  <2>16. QED BY <1>1, <1>2, <1>4, <2>11, <2>12, <2>13, <2>14, <2>15, TransferStep
<1>17. QED BY <1>a, <1>b

(* A read behind the end of a cluster goes on in the next one.  Where      *)
(* there is none, it has all its bytes.                                    *)
LEMMA ReadNextInv ==
    ASSUME Inv, ReadNext
    PROVE  Inv'
<1> DEFINE p == call.position
           next == NextCluster(p.cluster)
<1>1. call.phase = "next" /\ io' = NoIo /\ UNCHANGED <<chain, entry, file>> /\ Moving /\ call.op = "read"
  BY DEF ReadNext, Moving, Inv, CallState
<1>2. /\ IsChain(chain) /\ p \in Position /\ call.remain \in Nat /\ call \in Call /\ call.remain \in Sizes
      /\ Somewhere(chain, p, Offset) /\ Tight(Len(chain), file.filesize, Offset, call.remain)
      /\ p.byte = 0 \/ call.remain = 0
      /\ p.sector = SectorsPerCluster \/ call.remain < BytesPerSector
      /\ file.filesize \in Nat
  BY <1>1, Types DEF Inv, PhaseState, Moving, WholeSectors, AtEdge, Call
<1>3. Grows(chain')
  BY <1>1, <1>2, ChainType DEF Grows
<1>4. IoType' /\ TransfersRight'
  BY <1>1, <1>2, NoTransfer DEF IoType
<1>5. p.sector \in 0 .. SectorsPerCluster
  BY <1>2, PositionFields
<1>6. PICK k \in 1 .. Len(chain) : At(chain, p, Offset, k)
  BY <1>2 DEF Somewhere
<1>7. /\ "clusters" \in Phases /\ Offset = call.offset + (call.len - call.remain)
  BY DEF Phases, Offset
<1>8. CASE p.sector < SectorsPerCluster
  <2>1. call' = [call EXCEPT !.phase = "clusters"]
    BY <1>8 DEF ReadNext
  <2>2. call' = [call EXCEPT !.phase = "clusters", !.remain = call.remain, !.position = p]
    BY <1>2, <2>1 DEF Call
  <2>3. GoesOn("clusters", p, call.remain)
    BY <1>2, <1>7, <2>2, CallChanged
  <2>4. p.sector # SectorsPerCluster
    BY <1>5, <1>8, PositiveSizes
  <2> HIDE DEF p
  <2>5. QED BY <1>1, <1>2, <1>3, <1>4, <1>7, <2>3, <2>4, TransferStep
<1>9. CASE p.sector = SectorsPerCluster /\ k < Len(chain)
  <2> DEFINE q == [p EXCEPT !.cluster = chain[k + 1], !.sector = 0]
  <2>1. next = chain[k + 1] /\ next \in Clusters /\ k + 1 \in 1 .. Len(chain)
    BY <1>2, <1>6, <1>9, NextFound, ChainType, SMTT(40) DEF At
  <2>2. next # CLUSTER_EOF
    BY <2>1, FileAssumption DEF CLUSTER_EOF, Clusters
  <2>3. ReadOn(p, call.remain, next) = [p EXCEPT !.sector = 0, !.cluster = chain[k + 1]]
    BY <2>1, <2>2 DEF ReadOn
  <2>4. [p EXCEPT !.sector = 0, !.cluster = chain[k + 1]] = q
    BY <1>2 DEF Position
  <2>5. ~(p.sector < SectorsPerCluster)
    BY <1>9, PositiveSizes
  <2>6. call' = [call EXCEPT !.phase = "clusters", !.position = q]
    BY <2>1, <2>3, <2>4, <2>5 DEF ReadNext
  <2>7. call' = [call EXCEPT !.phase = "clusters", !.remain = call.remain, !.position = q]
    BY <1>2, <2>6 DEF Call
  <2>8. 0 \in 0 .. SectorsPerCluster
    BY PositiveSizes
  <2>9. q \in Position /\ q.sector = 0 /\ q.byte = p.byte
    BY <1>2, <2>1, <2>8 DEF Position
  <2>10. At(chain, q, Offset, k + 1)
    BY <1>2, <1>6, <1>9, <2>1, AtNextCluster
  <2>11. Somewhere(chain, q, Offset)
    BY <2>1, <2>10 DEF Somewhere
  <2> HIDE DEF q
  <2>12. GoesOn("clusters", q, call.remain)
    BY <1>2, <1>7, <2>7, <2>9, CallChanged
  <2>13. q.sector # SectorsPerCluster
    BY <2>9, PositiveSizes
  <2> HIDE DEF p
  <2>14. QED BY <1>1, <1>2, <1>3, <1>4, <1>7, <2>9, <2>11, <2>12, <2>13, TransferStep
<1>10. CASE p.sector = SectorsPerCluster /\ k = Len(chain)
  <2>1. next = CLUSTER_EOF /\ next \notin Clusters
    BY <1>2, <1>6, <1>10, NextFound DEF At
  <2>2. call.remain = 0
    <3>1. Offset = Len(chain) * BytesPerCluster
      BY <1>2, <1>6, <1>10, AtType
    <3>2. file.filesize <= Len(chain) * BytesPerCluster
      BY <1>2 DEF Tight
    <3>3. call.offset + call.len <= file.filesize
      BY <1>1 DEF Inv, TransferState
    <3>4. Offset \in Nat /\ Offset + call.remain = call.offset + call.len
      BY <1>1, OffsetType
    <3>5. QED BY <1>2, <3>1, <3>2, <3>3, <3>4
  <2>3. ReadOn(p, call.remain, next) = [p EXCEPT !.sector = SectorsPerCluster]
    BY <2>1, <2>2 DEF ReadOn
  <2>4. [p EXCEPT !.sector = SectorsPerCluster] = p
    BY <1>2, <1>10 DEF Position
  <2>5. ~(p.sector < SectorsPerCluster)
    BY <1>10, PositiveSizes
  <2>6. call' = [call EXCEPT !.phase = "clusters", !.position = p]
    BY <2>1, <2>2, <2>3, <2>4, <2>5 DEF ReadNext
  <2>7. call' = [call EXCEPT !.phase = "clusters", !.remain = call.remain, !.position = p]
    BY <1>2, <2>6 DEF Call
  <2> HIDE DEF p
  <2>8. GoesOn("clusters", p, call.remain)
    BY <1>2, <1>7, <2>7, CallChanged
  <2>9. Offset >= file.filesize
    <3>1. Offset = Len(chain) * BytesPerCluster /\ Offset \in Nat
      BY <1>2, <1>6, <1>10, AtType
    <3>2. file.filesize <= Len(chain) * BytesPerCluster
      BY <1>2 DEF Tight
    <3>3. QED BY <1>2, <3>1, <3>2
  <2>10. QED BY <1>1, <1>2, <1>3, <1>4, <1>7, <1>10, <2>2, <2>8, <2>9, TransferStep
<1>11. QED
  <2>1. p.sector < SectorsPerCluster \/ p.sector = SectorsPerCluster
    BY <1>5, PositiveSizes
  <2>2. k < Len(chain) \/ k = Len(chain)
    BY <1>2, ChainType
  <2>3. QED BY <1>8, <1>9, <1>10, <2>1, <2>2

(* The sectors behind the last whole cluster *)
LEMMA RestInv ==
    ASSUME Inv, Rest
    PROVE  Inv'
<1> DEFINE n == call.remain \div BytesPerSector
<1>1. call.phase = "clusters" /\ call.remain < BytesPerCluster /\ UNCHANGED <<entry, file>> /\ Moving
  BY DEF Rest, Moving
<1>2. PICK p \in Position : Advance(p) /\ MoveSectors(p, 0, n, "last")
  BY DEF Rest
<1>3. /\ call.remain \in Nat /\ call.position \in Position
      /\ call.position.byte = 0 \/ call.remain = 0
      /\ call.position.sector = 0 \/ call.position.sector = SectorsPerCluster \/ call.remain < BytesPerSector
  BY <1>1, Types DEF Inv, PhaseState, WholeSectors, AtEdge
<1>4. /\ Grows(chain') /\ (call.op = "read" => chain' = chain)
      /\ Somewhere(chain', p, Offset)
      /\ Tight(Len(chain'), file.filesize, Offset, call.remain)
      /\ call.remain > 0 => p.sector < SectorsPerCluster
      /\ p = call.position \/ (p.sector = 0 /\ p.byte = 0)
  BY <1>1, <1>2, Advanced
<1>5. PICK m \in Nat, s \in 0 .. SectorsPerCluster : m = call.remain /\ s = p.sector
  BY <1>2, <1>3, PositionFields
<1>6. m < BytesPerCluster /\ (m > 0 => s < SectorsPerCluster) /\ (p.byte = 0 \/ m = 0)
      /\ (s = 0 \/ s = SectorsPerCluster \/ m < BytesPerSector)
  BY <1>1, <1>3, <1>4, <1>5
<1>7. PICK d \in Nat : d = n /\ d * BytesPerSector <= m /\ m - d * BytesPerSector < BytesPerSector
  <2> DEFINE B == BytesPerSector
             e == m \div B
  <2>1. B \in Nat \ {0} /\ m \in Int /\ 0 <= m
    BY PositiveSizes
  <2> HIDE DEF B
  <2>2. e \in Int /\ m % B \in 0 .. B - 1 /\ m = e * B + (m % B) /\ 0 <= e
    BY <2>1, Division
  <2> HIDE DEF e
  <2>3. e * B \in Int
    BY <2>1, <2>2, ProductGrows
  <2>4. e \in Nat /\ e * B <= m /\ m - e * B < B
    BY <2>1, <2>2, <2>3
  <2>5. e = n
    BY <1>5 DEF e, B
  <2>6. QED BY <2>4, <2>5 DEF B
<1>8. d * BytesPerSector \in Int /\ (1 <= d => 1 * BytesPerSector <= d * BytesPerSector)
      /\ (SectorsPerCluster <= d => SectorsPerCluster * BytesPerSector <= d * BytesPerSector)
  BY PositiveSizes, ProductGrows
<1>9. d > 0 => m >= BytesPerSector /\ m > 0 /\ s = 0 /\ p.byte = 0
  BY <1>6, <1>7, <1>8, PositiveSizes
<1>10. d < SectorsPerCluster
  BY <1>6, <1>7, <1>8, ClusterSize
<1>11. s + d <= SectorsPerCluster /\ (m - d * BytesPerSector > 0 => s + d < SectorsPerCluster)
  <2>1. CASE d = 0
    BY <1>6, <2>1, PositiveSizes
  <2>2. CASE d > 0
    BY <1>9, <1>10, <2>2, PositiveSizes
  <2>3. QED BY <2>1, <2>2
<1>12. MoveSectors(p, 0, d, "last") /\ "last" \in Phases
  BY <1>2, <1>7 DEF Phases
<1>a. (d > 0 => p.byte = 0 /\ 0 = p.sector) /\ p.sector + d <= SectorsPerCluster /\ d * BytesPerSector <= call.remain
  BY <1>5, <1>7, <1>9, <1>11
<1> HIDE DEF n
<1>b. CASE SectorsFail(p, d)
  <2>1. p.sector # SectorsPerCluster /\ IoErrors /\ io' = NoIo
    BY <1>5, <1>9, <1>b, PositiveSizes DEF SectorsFail
  <2>2. GoesOn("end", p, call.remain)
    <3>1. call \in Call /\ call.remain \in Sizes /\ "end" \in Phases
      BY Types DEF Inv, Call, Phases
    <3>2. call' = [call EXCEPT !.phase = "end", !.remain = call.remain, !.position = p]
      BY <1>b, <3>1 DEF SectorsFail, Call
    <3>3. QED BY <1>2, <3>1, <3>2, CallChanged
  <2>3. QED BY <1>1, <1>2, <1>4, <2>1, <2>2, ReadFails
<1>c. CASE ~SectorsFail(p, d)
  <2>13. /\ IoType' /\ TransfersRight'
         /\ \E q \in Position, r \in Nat :
                  /\ r = call.remain - d * BytesPerSector /\ r <= call.remain /\ GoesOn("last", q, r)
                  /\ q.sector = p.sector + d /\ q.byte = p.byte
                  /\ Somewhere(chain', q, call.offset + (call.len - r))
                  /\ Tight(Len(chain'), file.filesize, call.offset + (call.len - r), r)
    BY <1>1, <1>2, <1>4, <1>12, <1>a, <1>c, SectorsTransferred
  <2>14. PICK q \in Position, r \in Nat :
                  /\ r = call.remain - d * BytesPerSector /\ r <= call.remain /\ GoesOn("last", q, r)
                  /\ q.sector = p.sector + d /\ q.byte = p.byte
                  /\ Somewhere(chain', q, call.offset + (call.len - r))
                  /\ Tight(Len(chain'), file.filesize, call.offset + (call.len - r), r)
    BY <2>13
  <2>15. r < BytesPerSector /\ (r > 0 => q.sector # SectorsPerCluster)
    BY <1>5, <1>7, <1>8, <1>11, <2>14, PositiveSizes
  <2>16. q.byte = 0 \/ r = 0
    BY <1>5, <1>6, <1>7, <2>14
  <2>17. call.op = "read" /\ q.sector = SectorsPerCluster => call.offset + (call.len - r) >= file.filesize
    <3> SUFFICES ASSUME call.op = "read", q.sector = SectorsPerCluster
                 PROVE  call.offset + (call.len - r) >= file.filesize
      OBVIOUS
    <3>1. s + d = SectorsPerCluster
      BY <1>5, <2>14
    <3>2. d = 0 /\ s = SectorsPerCluster
      BY <1>9, <1>10, <3>1, PositiveSizes
    <3>3. p = call.position /\ r = call.remain
      BY <1>4, <1>5, <1>8, <2>14, <3>2, PositiveSizes
    <3>4. Offset >= file.filesize
      BY <1>1, <1>5, <3>2, <3>3 DEF Inv, PhaseState, AtEdge
    <3>5. QED BY <3>3, <3>4 DEF Offset
  <2>18. QED BY <1>1, <1>4, <2>13, <2>14, <2>15, <2>16, <2>17, TransferStep
<1>19. QED BY <1>b, <1>c

(* The bytes left *)
LEMMA LastInv ==
    ASSUME Inv, Last
    PROVE  Inv'
<1> DEFINE p == call.position
           q == [p EXCEPT !.byte = p.byte + call.remain]
           e == call.op = "write" /\ call.appending
<1>1. call.phase = "last" /\ UNCHANGED <<chain, entry, file>> /\ Moving
  BY DEF Last, Moving
<1>2. /\ IF call.remain > 0 THEN Transfer(Address(p.cluster, p.sector, 0), call.remain, e) ELSE io' = NoIo
      /\ call' = [call EXCEPT !.phase = "end", !.remain = 0, !.position.byte = p.byte + call.remain]
  BY DEF Last
<1>3. /\ IsChain(chain) /\ p \in Position /\ call.remain \in Nat /\ call \in Call /\ call.len \in Nat /\ call.offset \in Nat
      /\ Somewhere(chain, p, Offset) /\ Tight(Len(chain), file.filesize, Offset, call.remain)
      /\ p.byte = 0 \/ call.remain = 0
      /\ call.remain < BytesPerSector /\ (call.remain > 0 => p.sector # SectorsPerCluster)
      /\ file.filesize \in Nat
  BY <1>1, Types DEF Inv, PhaseState, Moving, WholeSectors, AtEdge
<1>4. PICK k \in 1 .. Len(chain) : At(chain, p, Offset, k)
  BY <1>3 DEF Somewhere
<1>5. Grows(chain') /\ Len(chain) \in Nat
  BY <1>1, <1>3, ChainType DEF Grows
<1>6. call' = [call EXCEPT !.phase = "end", !.remain = 0, !.position = q]
  BY <1>2, <1>3 DEF Call, Position
<1>7. PICK s \in 0 .. SectorsPerCluster, b \in 0 .. BytesPerSector - 1, m \in Nat : s = p.sector /\ b = p.byte /\ m = call.remain
  BY <1>3, <1>4 DEF At
<1>8. b + m \in 0 .. BytesPerSector /\ (m > 0 => b = 0 /\ s < SectorsPerCluster) /\ b + m < BytesPerSector
  <2>1. /\ b = 0 \/ m = 0
        /\ m < BytesPerSector /\ (m > 0 => s # SectorsPerCluster)
    BY <1>3, <1>7
  <2>2. QED BY <2>1, PositiveSizes
<1>9. q = [p EXCEPT !.byte = b + m]
  BY <1>7
<1> HIDE DEF q
<1>10. q \in Position /\ q.byte = b + m /\ q.sector = s /\ q.cluster = p.cluster
  BY <1>3, <1>7, <1>8, <1>9 DEF Position
<1>11. At(chain, q, Offset + m, k)
  <2>1. CASE m > 0
    <3>1. /\ p.sector < SectorsPerCluster /\ p.byte + m <= BytesPerSector /\ q.cluster = p.cluster
          /\ ~(p.byte + m >= BytesPerSector)
          /\ q.byte = p.byte + m /\ q.sector = p.sector
      BY <1>7, <1>8, <1>10, <2>1, PositiveSizes
    <3>2. QED BY <1>3, <1>4, <3>1, AtBytes
  <2>2. CASE m = 0
    <3>1. q.sector = p.sector /\ q.byte = p.byte /\ q.cluster = p.cluster
      BY <1>7, <1>10, <2>2
    <3>2. Offset + m = Offset
      BY <1>1, <2>2, OffsetType
    <3>3. QED BY <1>4, <3>1, <3>2 DEF At
  <2>3. QED BY <2>1, <2>2
<1>12. Offset + m = call.offset + (call.len - 0) /\ Offset \in Nat /\ Offset + m \in Nat
  BY <1>1, <1>3, <1>7, OffsetType
<1>13. 0 \in Sizes /\ "end" \in Phases /\ 0 <= call.remain
  BY <1>3, FileAssumption DEF Sizes, Phases
<1>14. GoesOn("end", q, 0)
  BY <1>3, <1>6, <1>10, <1>13, CallChanged
<1>15. Tight(Len(chain), file.filesize, Offset + m, 0)
  <2>1. Offset <= Offset + m /\ (Offset + m = Offset /\ m > 0 => 0 > 0)
    BY <1>12
  <2>2. Tight(Len(chain), file.filesize, Offset, m)
    BY <1>3, <1>7
  <2>3. QED BY <1>3, <1>5, <1>12, <2>1, <2>2, TightOn
<1>16. IoType' /\ TransfersRight'
  <2>1. CASE m > 0
    <3>1. Transfer(Address(p.cluster, p.sector, p.byte), m, e)
      BY <1>2, <1>7, <1>8, <2>1
    <3>2. e \in BOOLEAN /\ (e => call.op = "write" /\ call.appending /\ m = call.remain) /\ m <= call.remain
      BY <1>3, <1>7 DEF Call
    <3>a. p.sector < SectorsPerCluster
      BY <1>7, <1>8, <2>1
    <3>3. PICK x \in Nat : x = p.sector * BytesPerSector /\ x + BytesPerSector <= BytesPerCluster
      BY <1>4, <3>a, AtSector
    <3>4. p.sector * BytesPerSector + p.byte + m <= BytesPerCluster
      <4>1. x + b + m <= BytesPerCluster
        BY <1>8, <3>3, PositiveSizes
      <4>2. QED BY <1>7, <3>3, <4>1
    <3> HIDE DEF e, p
    <3>5. QED BY <1>1, <1>3, <1>4, <3>1, <3>2, <3>4, TransferInside
  <2>2. CASE m = 0
    <3>1. io' = NoIo /\ file' = file
      BY <1>1, <1>2, <1>7, <2>2
    <3>2. QED BY <1>3, <3>1, NoTransfer DEF IoType
  <2>3. QED BY <2>1, <2>2
<1>17. Somewhere(chain, q, Offset + m)
  BY <1>11 DEF Somewhere
<1>18. call.op = "read" /\ q.sector = SectorsPerCluster => Offset + m >= file.filesize
  <2> SUFFICES ASSUME call.op = "read", q.sector = SectorsPerCluster
               PROVE  Offset + m >= file.filesize
    OBVIOUS
  <2>1. p.sector = SectorsPerCluster
    BY <1>7, <1>10
  <2>2. Offset >= file.filesize
    BY <1>1, <2>1 DEF Inv, PhaseState, AtEdge
  <2>3. QED BY <1>3, <1>12, <2>2
<1> HIDE DEF p, e
<1>19. QED BY <1>1, <1>5, <1>12, <1>13, <1>14, <1>15, <1>16, <1>17, <1>18, TransferStep

(* Where a call writes, the clusters that are taken are those of the file *)
LEMMA NothingLost ==
    ASSUME Inv, LostState, call.op \in {"write", "grow"}
    PROVE  Taken = Chained
<1>1. Exact
  BY DEF Inv, CallState, OpenState
<1>2. QED BY <1>1 DEF LostState, Taken

(* The disc is full *)
LEMMA OutOfSpaceInv ==
    ASSUME Inv, LostState, OutOfSpace
    PROVE  Inv'
<1> DEFINE p == call.position
<1>1. /\ call.phase \in {"partial", "clusters"} /\ io' = NoIo /\ UNCHANGED <<chain, entry, file>> /\ Moving /\ call.op = "write"
      /\ call.remain > 0 /\ p.sector = SectorsPerCluster
      /\ NextCluster(p.cluster) \notin Clusters /\ Clusters \subseteq Chained
      /\ call' = [call EXCEPT !.phase = "end"]
  BY NothingLost DEF OutOfSpace, Moving, NoNextCluster, NoFreeCluster
<1>2. /\ IsChain(chain) /\ p \in Position /\ call.remain \in Nat /\ call \in Call /\ call.remain \in Sizes
      /\ Somewhere(chain, p, Offset) /\ Tight(Len(chain), file.filesize, Offset, call.remain)
      /\ file.filesize \in Nat
  BY <1>1, Types DEF Inv, PhaseState, Moving, Call
<1>3. PICK k \in 1 .. Len(chain) : At(chain, p, Offset, k)
  BY <1>2 DEF Somewhere
<1>4. k = Len(chain) /\ Len(chain) \in Nat
  BY <1>1, <1>2, <1>3, NextFound, ChainType, SMTT(40) DEF At
<1>5. Tight(Len(chain), file.filesize, Offset, 0)
  <2>1. Offset = Len(chain) * BytesPerCluster
    BY <1>1, <1>2, <1>3, <1>4, AtType
  <2>2. Len(chain) * BytesPerCluster \in Int /\ (Len(chain) - 1) * BytesPerCluster = Len(chain) * BytesPerCluster - BytesPerCluster
    BY <1>4, PositiveSizes, ProductGrows
  <2>3. (Len(chain) - 1) * BytesPerCluster < Offset
    BY <2>1, <2>2, PositiveSizes
  <2>4. QED BY <1>2, <2>3 DEF Tight
<1>6. Grows(chain')
  BY <1>1, <1>2, <1>4 DEF Grows
<1>7. IoType' /\ TransfersRight'
  BY <1>1, <1>2, NoTransfer DEF IoType
<1>8. call' = [call EXCEPT !.phase = "end", !.remain = call.remain, !.position = p]
  BY <1>1, <1>2 DEF Call
<1> HIDE DEF p
<1>9. GoesOn("end", p, call.remain)
  BY <1>2, <1>8, CallChanged DEF Phases
<1>10. Clusters \subseteq Chained'
  BY <1>1 DEF Chained
<1>11. Offset = call.offset + (call.len - call.remain) /\ call.remain <= call.remain
  BY <1>2 DEF Offset
<1>12. QED BY <1>1, <1>2, <1>5, <1>6, <1>7, <1>9, <1>10, <1>11, TransferStep

-----------------------------------------------------------------------------
(* Runs of clusters *)

(* A run is as long as its clusters *)
LEMMA RunLength ==
    ASSUME NEW k \in Nat, NEW m \in Nat, k <= m
    PROVE  /\ (k - 1) * BytesPerCluster + (m - k + 1) * BytesPerCluster = m * BytesPerCluster
           /\ (m - k + 1) * BytesPerCluster \in Nat /\ (m - k + 1) * BytesPerCluster > 0
           /\ (m - k + 1) * BytesPerCluster + BytesPerCluster = ((m + 1) - k + 1) * BytesPerCluster
           /\ m * BytesPerCluster \in Nat /\ (m + 1) * BytesPerCluster = m * BytesPerCluster + BytesPerCluster
           /\ (m + 1) * BytesPerCluster \in Nat
<1> DEFINE C == BytesPerCluster
           d == m - k + 1
<1>1. C \in Nat \ {0} /\ d \in Nat /\ d >= 1
  BY PositiveSizes
<1> HIDE DEF C
<1>2. /\ k * C \in Int /\ m * C \in Int /\ (k - 1) * C = k * C - C /\ (m + 1) * C = m * C + C
      /\ 0 <= m * C
  BY <1>1, ProductGrows
<1>3. d * C \in Int /\ 1 * C <= d * C /\ (d + 1) * C = d * C + C
  BY <1>1, ProductGrows
<1>4. d * C = m * C - k * C + C
  <2>1. (m - k) * C = m * C - k * C
    BY <1>1, ProductGrows
  <2>2. ((m - k) + 1) * C = (m - k) * C + C /\ (m - k) * C \in Int
    BY <1>1, ProductGrows
  <2>3. d = (m - k) + 1
    OBVIOUS
  <2>4. QED BY <2>1, <2>2, <2>3
<1>5. (m + 1) - k + 1 = d + 1
  OBVIOUS
<1> HIDE DEF d
<1>6. d * C \in Nat /\ d * C > 0 /\ (k - 1) * C + d * C = m * C
  BY <1>1, <1>2, <1>3, <1>4
<1>7. m * C \in Nat /\ (m + 1) * C \in Nat
  BY <1>1, <1>2
<1>8. QED BY <1>2, <1>3, <1>5, <1>6, <1>7 DEF d, C

(* A run is begun or gets a cluster more *)
LEMMA GroupStep ==
    ASSUME Inv, Moving, NEW p, p.sector = 0, p.byte = 0, GoesOn("group", p, call.remain),
           Grows(chain'), call.op = "read" => chain' = chain, UNCHANGED <<entry, file>>, io' = NoIo,
           NEW k, NEW m, At(chain', p, Offset, k), Run(chain', k, m),
           call'.chunkEnd = chain'[m], call'.chunkSize = (m - k + 1) * BytesPerCluster,
           call'.chunkSize <= call.remain, Tight(Len(chain'), file.filesize, m * BytesPerCluster, 0)
    PROVE  Inv'
<1>1. "group" \in Phases \ {"none", "extend", "zero"} /\ call.remain \in Nat /\ file.filesize \in Nat
  BY Types DEF Phases, Inv
<1>2. IoType' /\ TransfersRight'
  BY <1>1, NoTransfer DEF IoType
<1>3. call.remain <= call.remain
  BY <1>1
<1>4. /\ FileTyped' /\ ReadSetting' /\ SettledState' /\ ClosedState' /\ OpenState'
      /\ CallState' /\ TransferState' /\ ExtendState'
  BY <1>1, <1>2, <1>3, TransferKeeps
<1>5. Offset' = Offset /\ call'.phase = "group" /\ call'.position = p /\ call'.remain = call.remain /\ file' = file
  BY DEF Offset, GoesOn
<1>6. k \in 1 .. Len(chain') /\ m \in 1 .. Len(chain')
  BY ChainType DEF Run, Grows
<1>7. PhaseState'
  BY <1>5 DEF PhaseState
<1>8. GroupState'
  BY <1>5, <1>6 DEF GroupState
<1>9. QED BY <1>2, <1>4, <1>7, <1>8 DEF Inv

(* A run is transferred *)
LEMMA GroupMoved ==
    ASSUME Inv, call.phase = "group", Grows(chain'), UNCHANGED <<entry, file>>, NEW k, NEW m,
           At(chain, call.position, Offset, k), Run(chain, k, m), call.position.sector = 0, call.position.byte = 0,
           call.chunkSize = (m - k + 1) * BytesPerCluster, call.chunkSize <= call.remain,
           NEW q \in Position, NEW ph \in Phases, MoveGroup(q, ph), ~GroupFails
    PROVE  /\ IoType' /\ TransfersRight' /\ GoesOn(ph, q, call.remain - call.chunkSize)
           /\ call.remain - call.chunkSize \in Nat /\ call.remain - call.chunkSize <= call.remain
           /\ m * BytesPerCluster = call.offset + (call.len - (call.remain - call.chunkSize))
<1>1. Moving /\ IsChain(chain)
  BY Types DEF Moving, Inv
<1>2. /\ call.remain \in Nat /\ call.len \in Nat /\ call.offset \in Nat /\ call.chunkSize \in Nat
      /\ call \in Call /\ file.filesize \in Nat
  BY Types DEF Inv
<1>3. /\ Transfer(Address(call.position.cluster, 0, 0), call.chunkSize, FALSE)
      /\ call' = [call EXCEPT !.phase = ph, !.remain = call.remain - call.chunkSize, !.position = q,
                              !.chunkEnd = CLUSTER_FREE, !.chunkSize = 0]
  BY DEF MoveGroup, GroupFails
<1>4. PICK r \in Nat : r = call.remain - call.chunkSize /\ r <= call.remain /\ r \in Sizes
  <2>1. call.remain <= FILE_MAX_SIZE
    BY <1>2, FileAssumption DEF Call, Sizes
  <2>2. QED BY <1>2, <2>1, FileAssumption DEF Sizes
<1>5. GoesOn(ph, q, r)
  <2>1. call' = [call EXCEPT !.phase = ph, !.remain = r, !.position = q, !.chunkEnd = CLUSTER_FREE, !.chunkSize = 0]
    BY <1>3, <1>4
  <2>2. QED BY <1>2, <1>4, <2>1 DEF GoesOn, Call
<1>6. k \in 1 .. Len(chain) /\ m \in k .. Len(chain) /\ Len(chain) \in Nat /\ call.position.cluster = chain[k]
  BY <1>1, ChainType DEF Run, At
<1>7. k \in Nat /\ m \in Nat /\ k <= m /\ k - 1 \in Int
  BY <1>6
<1>8. Offset = (k - 1) * BytesPerCluster
  <2>1. Offset = (k - 1) * BytesPerCluster + 0 * BytesPerSector + 0
    BY DEF At
  <2>2. (k - 1) * BytesPerCluster \in Int /\ 0 * BytesPerSector = 0
    BY <1>7, PositiveSizes, ProductGrows
  <2>3. QED BY <2>1, <2>2
<1>9. Offset + call.chunkSize = m * BytesPerCluster
  BY <1>7, <1>8, RunLength
<1>10. m * BytesPerCluster = call.offset + (call.len - r)
  BY <1>2, <1>4, <1>9 DEF Offset
<1>11. IsChain(chain') /\ Run(chain', k, m)
  <2>1. IsChain(chain') /\ Len(chain') >= Len(chain) /\ Len(chain') \in Nat /\ \A i \in 1 .. Len(chain) : chain'[i] = chain[i]
    BY ChainType DEF Grows
  <2>2. \A i \in k .. m : i \in 1 .. Len(chain)
    BY <1>6
  <2>3. k \in 1 .. Len(chain') /\ m \in k .. Len(chain')
    BY <1>6, <2>1
  <2>4. QED BY <1>6, <2>1, <2>2, <2>3 DEF Run
<1>12. chain'[k] = chain[k]
  BY <1>6 DEF Grows
<1> DEFINE a == Address(chain'[k], 0, 0)
           z == (m - k + 1) * BytesPerCluster
<1>13. Hits(chain', Offset, a, z)
  BY <1>8, <1>11, HitRun
<1>14. a \in Int
  <2>1. chain'[k] \in Clusters \cup {CLUSTER_FREE}
    BY <1>11, ChainType DEF Run
  <2>2. QED BY <2>1, AddressType
<1>15. call.op = "read" => Offset + z <= file'.filesize
  <2>1. call.op = "read" => call.offset + call.len <= file.filesize
    BY DEF Inv, TransferState
  <2>2. Offset + call.remain = call.offset + call.len /\ Offset \in Nat
    BY <1>1, OffsetType
  <2>3. z = call.chunkSize
    OBVIOUS
  <2> HIDE DEF z
  <2>4. QED BY <1>2, <2>1, <2>2, <2>3
<1>16. z \in Nat /\ Offset \in Nat
  BY <1>1, <1>7, RunLength, OffsetType
<1> DEFINE w == call.op # "read"
<1>17. io' = [write |-> w, offset |-> Offset, address |-> a, size |-> z, erase |-> FALSE]
  BY <1>3, <1>6, <1>12 DEF Transfer, Offset
<1>18. w \in BOOLEAN /\ (~w => Offset + z <= file'.filesize)
  BY <1>15
<1> HIDE DEF a, z, w
<1>19. IoType' /\ TransfersRight'
  BY <1>11, <1>13, <1>14, <1>16, <1>17, <1>18, Transferred DEF IoType
<1>20. QED BY <1>4, <1>5, <1>10, <1>19

(* A run begins with one cluster *)
LEMMA StartGroupInv ==
    ASSUME Inv, StartGroup
    PROVE  Inv'
<1>1. call.phase = "clusters" /\ call.remain >= BytesPerCluster /\ UNCHANGED <<entry, file>> /\ io' = NoIo /\ Moving
  BY DEF StartGroup, Moving
<1>2. PICK p \in Position :
         /\ Advance(p)
         /\ call' = [call EXCEPT !.phase = "group", !.position = p,
                                 !.chunkEnd = p.cluster, !.chunkSize = BytesPerCluster]
  BY DEF StartGroup
<1>3. /\ call.remain \in Nat /\ call \in Call /\ file.filesize \in Nat
      /\ call.position.byte = 0 \/ call.remain = 0
      /\ call.position.sector = 0 \/ call.position.sector = SectorsPerCluster \/ call.remain < BytesPerSector
  BY <1>1, Types DEF Inv, PhaseState, WholeSectors, AtEdge
<1>4. call.remain > 0 /\ ~(call.remain < BytesPerSector)
  BY <1>1, <1>3, PositiveSizes
<1>5. /\ Grows(chain') /\ (call.op = "read" => chain' = chain)
      /\ Somewhere(chain', p, Offset)
      /\ Tight(Len(chain'), file.filesize, Offset, call.remain)
      /\ p.sector < SectorsPerCluster
      /\ p = call.position \/ (p.sector = 0 /\ p.byte = 0)
  BY <1>1, <1>2, <1>4, Advanced
<1>6. p.sector = 0 /\ p.byte = 0
  <2>1. p.sector # SectorsPerCluster
    BY <1>5, PositiveSizes
  <2>2. QED BY <1>3, <1>4, <1>5, <2>1
<1>7. PICK k \in 1 .. Len(chain') : At(chain', p, Offset, k)
  BY <1>5 DEF Somewhere
<1>8. IsChain(chain') /\ Len(chain') \in Nat /\ k \in Nat /\ p.cluster = chain'[k] /\ p.cluster \in Clusters
  BY <1>5, <1>7, ChainType DEF Grows, At
<1>9. Run(chain', k, k)
  <2>1. k \in k .. Len(chain') /\ \A i \in k .. k : i = k
    BY <1>8
  <2>2. chain'[k] = chain'[k] + (k - k)
    BY <1>8, ChainType
  <2>3. QED BY <2>1, <2>2 DEF Run
<1>10. (k - k + 1) * BytesPerCluster = BytesPerCluster /\ BytesPerCluster \in Nat
  <2>1. k - k + 1 = 1
    BY <1>8
  <2>2. QED BY <2>1, PositiveSizes
<1>11. Tight(Len(chain'), file.filesize, k * BytesPerCluster, 0)
  <2>1. Offset < k * BytesPerCluster /\ Offset \in Nat
    BY <1>5, <1>7, <1>8, AtType
  <2>2. k * BytesPerCluster \in Nat
    BY <1>8, RunLength
  <2> DEFINE x == k * BytesPerCluster
  <2>3. x \in Nat /\ Offset <= x /\ Offset # x
    BY <2>1, <2>2
  <2> HIDE DEF x
  <2>4. Tight(Len(chain'), file.filesize, x, 0)
    BY <1>3, <1>5, <1>8, <2>1, <2>3, TightOn
  <2>5. QED BY <2>4 DEF x
<1>12. /\ GoesOn("group", p, call.remain)
       /\ call'.chunkEnd = p.cluster /\ call'.chunkSize = BytesPerCluster
  <2>1. \A c \in Clusters, n \in Nat :
           [call EXCEPT !.phase = "group", !.position = p, !.chunkEnd = c, !.chunkSize = n] \in Call
    BY <1>2, <1>3 DEF Call, Phases
  <2>2. call' \in Call
    BY <1>2, <1>8, <1>10, <2>1
  <2>3. QED BY <1>2, <1>3, <2>2 DEF GoesOn, Call
<1>13. QED BY <1>1, <1>5, <1>6, <1>7, <1>8, <1>9, <1>10, <1>11, <1>12, GroupStep

(* What is known of a run *)
LEMMA GroupFacts ==
    ASSUME Inv, call.phase = "group"
    PROVE  /\ Moving /\ IsChain(chain) /\ Len(chain) \in Nat /\ call.position \in Position /\ call \in Call
           /\ call.remain \in Nat /\ file.filesize \in Nat /\ call.chunkSize \in Nat /\ call.op \in {"read", "write"}
           /\ call.position.sector = 0 /\ call.position.byte = 0
           /\ \E k, m \in 1 .. Len(chain) :
                /\ At(chain, call.position, Offset, k) /\ Run(chain, k, m) /\ k \in Nat /\ m \in Nat /\ k <= m
                /\ call.chunkEnd = chain[m] /\ chain[m] \in Clusters /\ call.chunkSize = (m - k + 1) * BytesPerCluster
                /\ call.chunkSize <= call.remain /\ Tight(Len(chain), file.filesize, m * BytesPerCluster, 0)
<1>1. Moving
  BY DEF Moving
<1>2. IsChain(chain) /\ call.position \in Position /\ call.remain \in Nat /\ file.filesize \in Nat /\ call.chunkSize \in Nat
      /\ call \in Call
  BY Types DEF Inv
<1>3. call.op \in {"read", "write"}
  BY <1>1, <1>2 DEF Inv, CallState, Call
<1>4. call.position.sector = 0 /\ call.position.byte = 0
  BY DEF Inv, GroupState
<1>5. PICK k, m \in 1 .. Len(chain) :
             /\ At(chain, call.position, Offset, k) /\ Run(chain, k, m)
             /\ call.chunkEnd = chain[m] /\ call.chunkSize = (m - k + 1) * BytesPerCluster
             /\ call.chunkSize <= call.remain /\ Tight(Len(chain), file.filesize, m * BytesPerCluster, 0)
  BY DEF Inv, GroupState
<1>6. Len(chain) \in Nat /\ k \in Nat /\ m \in Nat /\ chain[m] \in Clusters
  BY <1>2, ChainType
<1>7. k <= m
  BY <1>5, <1>6 DEF Run
<1>8. QED BY <1>1, <1>2, <1>3, <1>4, <1>5, <1>6, <1>7

(* The end of a run, as a position *)
LEMMA EndOfRun ==
    ASSUME NEW ch, IsChain(ch), NEW m \in 1 .. Len(ch), NEW q,
           q.cluster = ch[m], q.sector = SectorsPerCluster, q.byte = 0
    PROVE  At(ch, q, m * BytesPerCluster, m)
<1>1. m \in Int /\ SectorsPerCluster \in 0 .. SectorsPerCluster
  BY ChainType, PositiveSizes
<1>2. m * BytesPerCluster = (m - 1) * BytesPerCluster + SectorsPerCluster * BytesPerSector + 0
  <2>1. m * BytesPerCluster \in Int /\ (m - 1) * BytesPerCluster = m * BytesPerCluster - BytesPerCluster
    BY <1>1, PositiveSizes, ProductGrows
  <2>2. QED BY <2>1, ClusterSize
<1>3. q.sector \in 0 .. SectorsPerCluster /\ q.byte \in 0 .. BytesPerSector - 1
  BY <1>1, PositiveSizes
<1>4. QED BY <1>2, <1>3 DEF At

(* The run gets the next cluster, if that follows it on the disc *)
LEMMA RunGrows ==
    ASSUME NEW ch, IsChain(ch), NEW k, NEW m, Run(ch, k, m), m + 1 \in 1 .. Len(ch), ch[m + 1] = ch[m] + 1
    PROVE  Run(ch, k, m + 1)
<1>1. k \in 1 .. Len(ch) /\ m \in k .. Len(ch) /\ Len(ch) \in Nat /\ m + 1 \in k .. Len(ch)
  BY ChainType DEF Run
<1>2. ch[m] = ch[k] + (m - k) /\ ch[k] \in Int
  BY <1>1, ChainType DEF Run
<1>3. ch[m + 1] = ch[k] + ((m + 1) - k)
  BY <1>1, <1>2
<1>4. \A i \in k .. m + 1 : i \in k .. m \/ i = m + 1
  BY <1>1
<1>5. \A i \in k .. m + 1 : ch[i] = ch[k] + (i - k)
  BY <1>3, <1>4 DEF Run
<1>6. QED BY <1>1, <1>5 DEF Run

(* A run has a cluster more *)
LEMMA RunAhead ==
    ASSUME Inv, call.phase = "group", Grows(chain'), call.op = "read" => chain' = chain, UNCHANGED <<entry, file>>,
           io' = NoIo, NEW k, NEW m, k \in Nat, m \in Nat, k <= m, At(chain, call.position, Offset, k), Run(chain, k, m),
           call.chunkEnd = chain[m], call.chunkSize = (m - k + 1) * BytesPerCluster,
           NEW size \in Nat, size = call.chunkSize + BytesPerCluster, size <= call.remain, m + 1 \in 1 .. Len(chain'),
           chain'[m + 1] = chain[m] + 1, NEW left \in Nat,
           Tight(Len(chain'), file.filesize, m * BytesPerCluster, left),
           call' = [call EXCEPT !.chunkEnd = chain'[m + 1], !.chunkSize = size]
    PROVE  Inv'
<1>1. /\ Moving /\ IsChain(chain) /\ Len(chain) \in Nat /\ call.position \in Position /\ call \in Call
      /\ call.remain \in Nat /\ file.filesize \in Nat /\ call.chunkSize \in Nat
      /\ call.position.sector = 0 /\ call.position.byte = 0
  BY GroupFacts
<1>2. IsChain(chain') /\ Len(chain') \in Nat /\ chain'[m + 1] \in Clusters
  BY ChainType DEF Grows
<1>3. m \in 1 .. Len(chain) /\ k \in 1 .. Len(chain) /\ chain'[m] = chain[m] /\ \A i \in k .. m : chain'[i] = chain[i]
  <2>1. k \in 1 .. Len(chain) /\ m \in k .. Len(chain) /\ Len(chain') >= Len(chain)
    BY DEF Run, Grows
  <2>2. \A i \in k .. m : i \in 1 .. Len(chain)
    BY <1>1, <2>1
  <2>3. m \in k .. m
    OBVIOUS
  <2>4. QED BY <2>1, <2>2, <2>3 DEF Grows
<1>4. Run(chain', k, m)
  <2>1. k \in 1 .. Len(chain') /\ m \in k .. Len(chain')
    BY <1>1, <1>2, <1>3
  <2>2. chain'[k] = chain[k]
    BY <1>3 DEF Grows
  <2>3. QED BY <1>3, <2>1, <2>2 DEF Run
<1>5. Run(chain', k, m + 1)
  BY <1>2, <1>3, <1>4, RunGrows
<1>6. At(chain', call.position, Offset, k)
  BY <1>1, AtGrown
<1>7. /\ size = ((m + 1) - k + 1) * BytesPerCluster
      /\ (m + 1) * BytesPerCluster \in Nat /\ m * BytesPerCluster \in Nat
      /\ (m + 1) * BytesPerCluster = m * BytesPerCluster + BytesPerCluster
  BY RunLength
<1>8. Tight(Len(chain'), file.filesize, (m + 1) * BytesPerCluster, 0)
  <2> DEFINE x == m * BytesPerCluster
             y == (m + 1) * BytesPerCluster
  <2>1. x \in Nat /\ y \in Nat /\ y = x + BytesPerCluster
    BY <1>7
  <2>2. Tight(Len(chain'), file.filesize, x, left)
    OBVIOUS
  <2> HIDE DEF x, y
  <2>a. x <= y /\ y # x
    BY <2>1, PositiveSizes, SMTT(40)
  <2>3. Tight(Len(chain'), file.filesize, y, 0)
    BY <1>1, <1>2, <2>1, <2>2, <2>a, TightOn
  <2>4. QED BY <2>3 DEF y
<1>9. /\ GoesOn("group", call.position, call.remain)
      /\ call'.chunkEnd = chain'[m + 1] /\ call'.chunkSize = size
  <2>1. \A c \in Clusters, n \in Nat : [call EXCEPT !.chunkEnd = c, !.chunkSize = n] \in Call
    BY <1>1 DEF Call
  <2>3. call' \in Call
    BY <1>2, <2>1
  <2>4. QED BY <1>1, <2>3 DEF GoesOn, Call
<1>10. call'.chunkSize = ((m + 1) - k + 1) * BytesPerCluster /\ call'.chunkSize <= call.remain
  BY <1>7, <1>9
<1>11. QED BY <1>1, <1>5, <1>6, <1>8, <1>9, <1>10, GroupStep

(* A run is not fetched *)
LEMMA GroupFailsInv ==
    ASSUME Inv, call.phase = "group", call.op = "read", UNCHANGED <<chain, entry, file>>, GroupFails
    PROVE  Inv'
<1>1. /\ Moving /\ call.position \in Position /\ call \in Call /\ call.position.sector = 0
      /\ Somewhere(chain', call.position, Offset)
  BY GroupFacts DEF Somewhere
<1>2. call.position.sector # SectorsPerCluster
  BY <1>1, PositiveSizes
<1>3. GoesOn("end", call.position, call.remain)
  BY <1>1 DEF GroupFails, GoesOn, Call, Phases
<1>4. IoErrors /\ io' = NoIo
  BY DEF GroupFails
<1>5. QED BY <1>1, <1>2, <1>3, <1>4, ReadFails

(* A read goes on with a run, or fetches it *)
LEMMA ReadGroupInv ==
    ASSUME Inv, ReadGroup, ~GroupFails
    PROVE  Inv'
<1> DEFINE next == NextCluster(call.chunkEnd)
           left == call.remain - call.chunkSize
           p    == [call.position EXCEPT !.cluster = call.chunkEnd]
<1>1. call.phase = "group" /\ call.op = "read" /\ UNCHANGED <<chain, entry, file>>
  BY DEF ReadGroup
<1>2. /\ Moving /\ IsChain(chain) /\ Len(chain) \in Nat /\ call.position \in Position /\ call \in Call
      /\ call.remain \in Nat /\ file.filesize \in Nat /\ call.chunkSize \in Nat
      /\ call.position.sector = 0 /\ call.position.byte = 0
  BY <1>1, GroupFacts
<1>3. PICK k, m \in 1 .. Len(chain) :
                /\ At(chain, call.position, Offset, k) /\ Run(chain, k, m) /\ k \in Nat /\ m \in Nat /\ k <= m
                /\ call.chunkEnd = chain[m] /\ chain[m] \in Clusters /\ call.chunkSize = (m - k + 1) * BytesPerCluster
                /\ call.chunkSize <= call.remain /\ Tight(Len(chain), file.filesize, m * BytesPerCluster, 0)
  BY <1>1, GroupFacts
<1>4. Grows(chain')
  BY <1>1, <1>2 DEF Grows
<1>5. /\ m < Len(chain) => next = chain[m + 1] /\ next \in Clusters /\ m + 1 \in 1 .. Len(chain)
      /\ m = Len(chain) => next = CLUSTER_EOF /\ next \notin Clusters
      /\ m < Len(chain) \/ m = Len(chain)
  <2>1. m < Len(chain) \/ m = Len(chain)
    BY <1>2, <1>3
  <2>2. m < Len(chain) => m + 1 \in 1 .. Len(chain)
    BY <1>2, <1>3
  <2>3. QED BY <1>2, <1>3, <2>1, <2>2, NextFound
<1>6. m * BytesPerCluster \in Nat
  BY <1>3, RunLength
<1>7. left \in Nat
  BY <1>2, <1>3
<1>8. /\ IF next = call.chunkEnd + 1 /\ left >= BytesPerCluster
         THEN /\ call' = [call EXCEPT !.chunkEnd = next, !.chunkSize = call.chunkSize + BytesPerCluster]
              /\ io' = NoIo
         ELSE IF next \in Clusters \/ (left = 0 /\ next = CLUSTER_EOF)
         THEN MoveGroup(ReadOn(p, left, next), "clusters")
         ELSE MoveGroup(call.position, "end")
  BY DEF ReadGroup
<1>9. CASE next = call.chunkEnd + 1 /\ left >= BytesPerCluster
  <2>1. m < Len(chain)
    <3>1. next # CLUSTER_EOF
      BY <1>3, <1>9, FileAssumption DEF CLUSTER_EOF, Clusters, CLUSTER_FIRST
    <3>2. QED BY <1>5, <3>1
  <2>2. PICK size \in Nat : size = call.chunkSize + BytesPerCluster
    BY <1>2, PositiveSizes
  <2>3. size <= call.remain
    BY <1>2, <1>9, <2>2, PositiveSizes
  <2>4. call' = [call EXCEPT !.chunkEnd = chain'[m + 1], !.chunkSize = size] /\ io' = NoIo
    BY <1>1, <1>5, <1>8, <1>9, <2>1, <2>2
  <2>5. m + 1 \in 1 .. Len(chain') /\ chain'[m + 1] = chain[m] + 1
    BY <1>1, <1>3, <1>5, <1>9, <2>1
  <2>6. Tight(Len(chain'), file.filesize, m * BytesPerCluster, 0)
    BY <1>1, <1>3
  <2>7. QED BY <1>1, <1>3, <1>4, <2>2, <2>3, <2>4, <2>5, <2>6, RunAhead
<1>10. CASE ~(next = call.chunkEnd + 1 /\ left >= BytesPerCluster) /\ m < Len(chain)
  <2> DEFINE q == [call.position EXCEPT !.cluster = chain[m + 1], !.sector = 0]
  <2>1. MoveGroup(ReadOn(p, left, next), "clusters") /\ next \in Clusters /\ next = chain[m + 1] /\ m + 1 \in 1 .. Len(chain)
    BY <1>5, <1>8, <1>10
  <2>2. next # CLUSTER_EOF
    BY <2>1, FileAssumption DEF CLUSTER_EOF, Clusters
  <2>3. ReadOn(p, left, next) = [p EXCEPT !.sector = 0, !.cluster = chain[m + 1]]
    BY <2>1, <2>2 DEF ReadOn
  <2>4. [p EXCEPT !.sector = 0, !.cluster = chain[m + 1]] = q
    BY <1>2, <1>3 DEF Position
  <2>5. 0 \in 0 .. SectorsPerCluster
    BY PositiveSizes
  <2>6. q \in Position /\ q.sector = 0 /\ q.byte = 0 /\ q.cluster = chain[m + 1]
    BY <1>2, <2>1, <2>5 DEF Position
  <2> HIDE DEF q
  <2>7. At(chain, q, m * BytesPerCluster, m + 1)
    <3>1. (m + 1) - 1 = m
      BY <1>3
    <3>2. m * BytesPerCluster = ((m + 1) - 1) * BytesPerCluster + q.sector * BytesPerSector + q.byte
      <4>1. 0 * BytesPerSector = 0
        BY PositiveSizes
      <4>2. QED BY <1>6, <2>6, <3>1, <4>1
    <3>3. q.sector \in 0 .. SectorsPerCluster /\ q.byte \in 0 .. BytesPerSector - 1
      BY <2>6, PositiveSizes
    <3>4. QED BY <2>1, <2>6, <3>2, <3>3 DEF At
  <2>8. MoveGroup(q, "clusters") /\ "clusters" \in Phases
    BY <2>1, <2>3, <2>4 DEF Phases
  <2>9. QED
    <3>1. /\ IoType' /\ TransfersRight' /\ GoesOn("clusters", q, left)
          /\ left <= call.remain
          /\ m * BytesPerCluster = call.offset + (call.len - left)
      BY <1>1, <1>2, <1>3, <1>4, <2>6, <2>8, GroupMoved
    <3>2. Somewhere(chain', q, m * BytesPerCluster)
      BY <1>1, <2>1, <2>7 DEF Somewhere
    <3>3. Tight(Len(chain'), file.filesize, m * BytesPerCluster, left)
      BY <1>1, <1>3 DEF Tight
    <3>4. q.sector # SectorsPerCluster
      BY <2>6, PositiveSizes
    <3> HIDE DEF left
    <3>5. QED BY <1>1, <1>2, <1>4, <1>7, <2>6, <3>1, <3>2, <3>3, <3>4, TransferStep
<1>11. CASE m = Len(chain)
  <2>1. next = CLUSTER_EOF /\ next \notin Clusters /\ next # call.chunkEnd + 1
    BY <1>3, <1>5, <1>11, FileAssumption DEF CLUSTER_EOF, Clusters, CLUSTER_FIRST
  <2>2. left = 0
    <3>1. file.filesize <= m * BytesPerCluster
      BY <1>3, <1>11 DEF Tight
    <3>2. call.offset + call.len <= file.filesize
      BY <1>1 DEF Inv, TransferState
    <3>3. Offset \in Nat /\ Offset + call.remain = call.offset + call.len
      BY <1>2, OffsetType
    <3>4. Offset = (k - 1) * BytesPerCluster
      <4>1. Offset = (k - 1) * BytesPerCluster + 0 * BytesPerSector + 0
        BY <1>2, <1>3 DEF At
      <4>2. (k - 1) * BytesPerCluster \in Int /\ 0 * BytesPerSector = 0
        BY <1>3, PositiveSizes, ProductGrows
      <4>3. QED BY <4>1, <4>2
    <3>5. Offset + call.chunkSize = m * BytesPerCluster
      BY <1>3, <3>4, RunLength
    <3>6. QED BY <1>2, <1>6, <1>7, <3>1, <3>2, <3>3, <3>5
  <2> DEFINE q == [call.position EXCEPT !.cluster = chain[m], !.sector = SectorsPerCluster]
  <2>3. MoveGroup(ReadOn(p, left, next), "clusters")
    BY <1>8, <2>1, <2>2
  <2>4. ReadOn(p, left, next) = [p EXCEPT !.sector = SectorsPerCluster]
    BY <2>1, <2>2 DEF ReadOn
  <2>5. [p EXCEPT !.sector = SectorsPerCluster] = q
    BY <1>2, <1>3 DEF Position
  <2>6. MoveGroup(q, "clusters") /\ "clusters" \in Phases
    BY <2>3, <2>4, <2>5 DEF Phases
  <2>7. At(chain, q, m * BytesPerCluster, m) /\ q \in Position /\ q.sector = SectorsPerCluster /\ q.byte = 0
    <3>1. SectorsPerCluster \in 0 .. SectorsPerCluster
      BY PositiveSizes
    <3>2. q \in Position /\ q.cluster = chain[m] /\ q.sector = SectorsPerCluster /\ q.byte = 0
      BY <1>2, <1>3, <3>1 DEF Position
    <3> HIDE DEF q
    <3>3. QED BY <1>2, <3>2, EndOfRun
  <2> HIDE DEF q
  <2>8. /\ IoType' /\ TransfersRight' /\ GoesOn("clusters", q, left)
        /\ left <= call.remain
        /\ m * BytesPerCluster = call.offset + (call.len - left)
    BY <1>1, <1>2, <1>3, <1>4, <2>6, <2>7, GroupMoved
  <2>9. Somewhere(chain', q, m * BytesPerCluster)
    BY <1>1, <2>7 DEF Somewhere
  <2>10. Tight(Len(chain'), file.filesize, m * BytesPerCluster, left)
    BY <1>1, <1>3 DEF Tight
  <2> HIDE DEF left
  <2>11. m * BytesPerCluster >= file.filesize
    BY <1>2, <1>3, <1>6, <1>11 DEF Tight
  <2>12. QED BY <1>1, <1>2, <1>4, <1>7, <2>2, <2>7, <2>8, <2>9, <2>10, <2>11, TransferStep
<1>12. QED BY <1>5, <1>9, <1>10, <1>11

(* A write goes on with a run, or puts it on the disc *)
LEMMA WriteGroupInv ==
    ASSUME Inv, LostState, WriteGroup
    PROVE  Inv'
<1> DEFINE used  == [call.position EXCEPT !.cluster = call.chunkEnd, !.sector = SectorsPerCluster]
           left == call.remain - call.chunkSize
           ahead == call.chunkSize + BytesPerCluster < call.remain
<1>1. call.phase = "group" /\ call.op = "write" /\ UNCHANGED <<entry, file>> /\ ~GroupFails
  BY DEF WriteGroup, GroupFails, Inv, CallState
<1>2. /\ Moving /\ IsChain(chain) /\ Len(chain) \in Nat /\ call.position \in Position /\ call \in Call
      /\ call.remain \in Nat /\ file.filesize \in Nat /\ call.chunkSize \in Nat
      /\ call.position.sector = 0 /\ call.position.byte = 0
  BY <1>1, GroupFacts
<1>3. PICK k, m \in 1 .. Len(chain) :
                /\ At(chain, call.position, Offset, k) /\ Run(chain, k, m) /\ k \in Nat /\ m \in Nat /\ k <= m
                /\ call.chunkEnd = chain[m] /\ chain[m] \in Clusters /\ call.chunkSize = (m - k + 1) * BytesPerCluster
                /\ call.chunkSize <= call.remain /\ Tight(Len(chain), file.filesize, m * BytesPerCluster, 0)
  BY <1>1, GroupFacts
<1>4. left \in Nat
  BY <1>2, <1>3
<1>5. PICK x \in Nat : x = m * BytesPerCluster
  BY <1>3, RunLength
<1>6. At(chain, used, x, m) /\ used \in Position /\ used.sector = SectorsPerCluster /\ used.byte = 0 /\ used.cluster = chain[m]
  <2>1. used = [call.position EXCEPT !.cluster = chain[m], !.sector = SectorsPerCluster]
    BY <1>3
  <2> HIDE DEF used
  <2>2. At(chain, used, m * BytesPerCluster, m) /\ used \in Position /\ used.sector = SectorsPerCluster /\ used.byte = 0
    <3>1. SectorsPerCluster \in 0 .. SectorsPerCluster
      BY PositiveSizes
    <3>2. used \in Position /\ used.cluster = chain[m] /\ used.sector = SectorsPerCluster /\ used.byte = 0
      BY <1>2, <1>3, <2>1, <3>1 DEF Position
    <3>3. QED BY <1>2, <3>2, EndOfRun
  <2>3. QED BY <1>5, <2>2 DEF At
<1>7. Tight(Len(chain), file.filesize, x, call.remain) /\ Tight(Len(chain), file.filesize, x, left)
  BY <1>3, <1>5 DEF Tight
<1>8. \/ ~ahead /\ MoveGroup(used, "clusters") /\ UNCHANGED chain
      \/ ahead /\ NoNextCluster(used, call.remain) /\ MoveGroup(used, "end") /\ UNCHANGED chain
      \/ /\ ahead
         /\ \E p \in Position :
                   /\ CheckPosition(used, call.remain, p)
                   /\ IF p.cluster = call.chunkEnd + 1
                      THEN /\ call' = [call EXCEPT !.chunkEnd = p.cluster,
                                                   !.chunkSize = call.chunkSize + BytesPerCluster]
                           /\ io' = NoIo
                      ELSE MoveGroup(p, "clusters")
  BY DEF WriteGroup
<1> HIDE DEF used, left
<1>9. CASE MoveGroup(used, "clusters") /\ UNCHANGED chain
  <2>1. Grows(chain')
    BY <1>2, <1>9 DEF Grows
  <2>2. /\ IoType' /\ TransfersRight' /\ GoesOn("clusters", used, left) /\ left <= call.remain
        /\ x = call.offset + (call.len - left)
    BY <1>1, <1>2, <1>3, <1>5, <1>6, <1>9, <2>1, GroupMoved DEF left, Phases
  <2>3. Somewhere(chain', used, x) /\ Tight(Len(chain'), file.filesize, x, left)
    BY <1>6, <1>7, <1>9 DEF Somewhere
  <2>4. QED BY <1>1, <1>2, <1>4, <1>6, <2>1, <2>2, <2>3, TransferStep
<1>10. CASE NoNextCluster(used, call.remain) /\ MoveGroup(used, "end") /\ UNCHANGED chain
  <2>1. Grows(chain')
    BY <1>2, <1>10 DEF Grows
  <2>2. /\ IoType' /\ TransfersRight' /\ GoesOn("end", used, left) /\ left <= call.remain
        /\ x = call.offset + (call.len - left)
    BY <1>1, <1>2, <1>3, <1>5, <1>6, <1>10, <2>1, GroupMoved DEF left, Phases
  <2>3. Somewhere(chain', used, x) /\ Tight(Len(chain'), file.filesize, x, left)
    BY <1>6, <1>7, <1>10 DEF Somewhere
  <2>4. Tight(Len(chain'), file.filesize, x, 0)
    BY <1>3, <1>5, <1>10
  <2>5. Clusters \subseteq Chained'
    BY <1>1, <1>10, NothingLost DEF NoNextCluster, NoFreeCluster, Chained
  <2>6. QED BY <1>1, <1>2, <1>4, <2>1, <2>2, <2>3, <2>4, <2>5, TransferStep
<1>11. CASE /\ ahead
            /\ \E p \in Position :
                   /\ CheckPosition(used, call.remain, p)
                   /\ IF p.cluster = call.chunkEnd + 1
                      THEN /\ call' = [call EXCEPT !.chunkEnd = p.cluster,
                                                   !.chunkSize = call.chunkSize + BytesPerCluster]
                           /\ io' = NoIo
                      ELSE MoveGroup(p, "clusters")
  <2>1. PICK p \in Position :
                   /\ CheckPosition(used, call.remain, p)
                   /\ IF p.cluster = call.chunkEnd + 1
                      THEN /\ call' = [call EXCEPT !.chunkEnd = p.cluster,
                                                   !.chunkSize = call.chunkSize + BytesPerCluster]
                           /\ io' = NoIo
                      ELSE MoveGroup(p, "clusters")
    BY <1>11
  <2>2. PICK size \in Nat : size = call.chunkSize + BytesPerCluster /\ size <= call.remain /\ call.remain > 0 /\ left > 0
    BY <1>2, <1>11, PositiveSizes, SMTT(40) DEF left
  <2>3. /\ Grows(chain') /\ p.sector < SectorsPerCluster
        /\ \/ p = used /\ chain' = chain /\ At(chain', p, x, m)
           \/ p.sector = 0 /\ p.byte = 0 /\ p \in Position /\ At(chain', p, x, m + 1)
    BY <1>2, <1>6, <2>1, <2>2, Checked
  <2>4. p.sector = 0 /\ p.byte = 0 /\ At(chain', p, x, m + 1)
    <3>1. p # used
      BY <1>6, <2>3, PositiveSizes
    <3>2. QED BY <2>3, <3>1
  <2>5. Tight(Len(chain'), file.filesize, x, call.remain)
    BY <1>2, <1>6, <1>7, <2>1, CheckedTight
  <2>6. m + 1 \in 1 .. Len(chain') /\ p.cluster = chain'[m + 1]
    BY <2>4 DEF At
  <2>7. CASE p.cluster = call.chunkEnd + 1
    <3>1. call' = [call EXCEPT !.chunkEnd = chain'[m + 1], !.chunkSize = size] /\ io' = NoIo
      BY <2>1, <2>2, <2>6, <2>7
    <3>2. chain'[m + 1] = chain[m] + 1
      BY <1>3, <2>6, <2>7
    <3>3. Tight(Len(chain'), file.filesize, m * BytesPerCluster, call.remain)
      BY <1>5, <2>5
    <3>4. QED BY <1>1, <1>2, <1>3, <2>2, <2>3, <2>6, <3>1, <3>2, <3>3, RunAhead
  <2>8. CASE p.cluster # call.chunkEnd + 1
    <3>1. MoveGroup(p, "clusters")
      BY <2>1, <2>8
    <3>2. /\ IoType' /\ TransfersRight' /\ GoesOn("clusters", p, left) /\ left <= call.remain
          /\ x = call.offset + (call.len - left)
      BY <1>1, <1>2, <1>3, <1>5, <2>1, <2>3, <3>1, GroupMoved DEF left, Phases
    <3>3. Somewhere(chain', p, x)
      BY <2>4, <2>6 DEF Somewhere
    <3>4. Tight(Len(chain'), file.filesize, x, left)
      BY <2>2, <2>5 DEF Tight
    <3>5. QED BY <1>1, <1>2, <1>4, <2>3, <2>4, <3>2, <3>3, <3>4, TransferStep
  <2>9. QED BY <2>7, <2>8
<1>12. QED BY <1>8, <1>9, <1>10, <1>11

-----------------------------------------------------------------------------
(* The ends of calls, and the calls that are one step *)

(* The record of no call *)
LEMMA NoCallType ==
    /\ NoCall \in Call /\ NoCall.phase = "none" /\ NoCall.op = "none"
    /\ PositionAt(CLUSTER_FREE) \in Position
<1>1. 0 \in Sizes /\ 0 \in 0 .. SectorsPerCluster /\ 0 \in 0 .. BytesPerSector /\ 0 \in Nat
  BY FileAssumption, PositiveSizes DEF Sizes
<1>2. PositionAt(CLUSTER_FREE) \in Position
  BY <1>1 DEF PositionAt, Position
<1>3. QED BY <1>1, <1>2 DEF NoCall, Call, Phases

(* The start of a chain, as a position *)
LEMMA PositionStart ==
    ASSUME NEW ch, IsChain(ch), Len(ch) >= 1
    PROVE  At(ch, PositionAt(ch[1]), 0, 1) /\ PositionAt(ch[1]) \in Position
<1>1. 1 \in 1 .. Len(ch) /\ ch[1] \in Clusters
  BY ChainType
<1>2. 0 \in 0 .. SectorsPerCluster /\ 0 \in 0 .. BytesPerSector - 1 /\ 0 \in 0 .. BytesPerSector /\ 0 # SectorsPerCluster
  BY PositiveSizes
<1>3. 0 = (1 - 1) * BytesPerCluster + 0 * BytesPerSector + 0
  BY PositiveSizes
<1>4. QED BY <1>1, <1>2, <1>3 DEF At, PositionAt, Position

(* A file that fits its clusters needs them *)
LEMMA FilledTight ==
    ASSUME NEW n, NEW size, NEW o, NEW left, Filled(n, size)
    PROVE  Tight(n, size, o, left)
BY DEF Filled, Tight

(* What a call has needed fits the file behind it *)
LEMMA TightFilled ==
    ASSUME NEW n \in Nat, NEW size \in Nat, NEW o \in Nat, Tight(n, size, o, 0), o <= n * BytesPerCluster,
           NEW new \in Nat, new >= size, new >= o, new = size \/ new = o
    PROVE  Filled(n, new)
<1>1. (n - 1) * BytesPerCluster \in Int /\ n * BytesPerCluster \in Int
  BY PositiveSizes, ProductGrows
<1>2. QED BY <1>1 DEF Tight, Filled

(* Behind a call *)
LEMMA ReadyState ==
    ASSUME ReadSetting, FileTyped', TransfersRight', call'.phase = "none", call'.op = "none",
           file'.inUse => Settled', ClosedState', OpenState'
    PROVE  Inv'
<1>1. ReadSetting' /\ SettledState'
  BY DEF ReadSetting, Calls, SettledState
<1>2. CallState' /\ TransferState' /\ ExtendState' /\ PhaseState' /\ GroupState'
  BY DEF CallState, TransferState, ExtendState, PhaseState, GroupState, Extending, Moving
<1>3. QED BY <1>1, <1>2 DEF Inv

(* A step that ends a call, or makes none, keeps the invariant *)
LEMMA ReadyStep ==
    ASSUME Inv, FileTyped', TransfersRight', call'.phase = "none", call'.op = "none",
           file'.inUse => Settled', ClosedState', OpenState'
    PROVE  Inv'
BY ReadyState DEF Inv

(* The types of a state without a transfer *)
LEMMA QuietTypes ==
    ASSUME IsChain(chain'), entry' \in [filesize : Sizes, startCluster : Clusters \cup {CLUSTER_FREE}],
           file' \in FileStruct, call' \in Call, io' = NoIo
    PROVE  FileTyped' /\ TransfersRight'
<1>1. file'.filesize \in Nat
  BY FileAssumption DEF FileStruct, Sizes
<1>2. IoType' /\ TransfersRight'
  BY <1>1, NoTransfer DEF IoType
<1>3. chain' \in Seq(Clusters) /\ \A i, j \in DOMAIN chain' : chain'[i] = chain'[j] => i = j
  BY DEF IsChain
<1>4. QED BY <1>2, <1>3 DEF FileTyped, IoType

(* The end of a call *)
LEMMA EndInv ==
    ASSUME Inv, End
    PROVE  Inv'
<1> DEFINE p == call.position
           n == Len(chain)
           done == call.len - call.remain
           now == Sum32(file.currentPosition, done)
<1>1. call.phase = "end" /\ call' = NoCall /\ io' = NoIo /\ UNCHANGED <<chain, entry>> /\ Moving
  BY DEF End, Moving
<1>2. /\ IsChain(chain) /\ n \in Nat /\ p \in Position /\ file \in FileStruct /\ call \in Call
      /\ file.filesize \in Nat /\ file.currentPosition \in Nat /\ call.remain \in Nat /\ call.len \in Nat
      /\ call.offset \in Nat /\ file.append \in BOOLEAN
      /\ entry \in [filesize : Sizes, startCluster : Clusters \cup {CLUSTER_FREE}]
  BY Types, ChainType DEF Inv, FileTyped
<1>3. /\ call.op \in {"read", "write"} /\ file.inUse /\ chain # <<>>
      /\ call.op = "read" => ~file.append
      /\ call.op = "write" /\ ~file.append => ~("read" \in PlainCalls)
  BY <1>1, <1>2 DEF Inv, CallState, Call, ReadSetting, Calls
<1>4. /\ Somewhere(chain, p, Offset) /\ Tight(n, file.filesize, Offset, 0)
      /\ call.op = "read" /\ p.sector = SectorsPerCluster => Offset >= file.filesize
  BY <1>1, <1>2 DEF Inv, PhaseState, AtEdge
<1>5. /\ call.remain <= call.len /\ call.offset + call.len <= FILE_MAX_SIZE
      /\ call.offset = IF file.append THEN file.filesize ELSE file.currentPosition
      /\ call.op = "read" => call.offset + call.len <= file.filesize
      /\ call.offset <= file.filesize
  BY <1>1, <1>3 DEF Inv, TransferState
<1>6. /\ done \in Nat /\ Offset = call.offset + done /\ Offset \in Nat /\ Offset <= FILE_MAX_SIZE
      /\ call.op = "read" => Offset <= file.filesize
  BY <1>1, <1>2, <1>5, OffsetType, FileAssumption DEF Offset
<1>7. Offset \in Sizes
  BY <1>6, FileAssumption DEF Sizes
<1>8. PICK k \in 1 .. n : At(chain, p, Offset, k)
  BY <1>4 DEF Somewhere
<1>9. Offset <= n * BytesPerCluster
  <2>1. Offset <= k * BytesPerCluster /\ k \in Nat /\ k <= n
    BY <1>2, <1>8, AtType
  <2>2. k * BytesPerCluster <= n * BytesPerCluster /\ k * BytesPerCluster \in Int /\ n * BytesPerCluster \in Int
    BY <1>2, <2>1, PositiveSizes, ProductGrows
  <2>3. QED BY <1>6, <2>1, <2>2
<1>10. ~file.append => now = Offset
  BY <1>2, <1>5, <1>6, Sum32Exact
<1>11. call' \in Call /\ call'.phase = "none" /\ call'.op = "none"
  BY <1>1, NoCallType
<1>12. file' =
             IF call.op = "read"
             THEN [file EXCEPT !.rwPosition = p, !.currentPosition = now]
             ELSE IF file.append
             THEN [file EXCEPT !.modified = TRUE, !.appendPosition = p, !.filesize = file.filesize + done]
             ELSE [file EXCEPT !.modified = TRUE, !.rwPosition = p, !.currentPosition = now,
                               !.filesize = IF file.filesize < now THEN now ELSE file.filesize]
  BY DEF End
<1> HIDE DEF p, done, now
<1>13. CASE call.op = "read"
  <2>1. file' = [file EXCEPT !.rwPosition = p, !.currentPosition = Offset]
    BY <1>3, <1>10, <1>12, <1>13
  <2>2. /\ file' \in FileStruct /\ file'.rwPosition = p /\ file'.currentPosition = Offset
        /\ file'.filesize = file.filesize /\ file'.append = file.append /\ file'.inUse = file.inUse
        /\ file'.modified = file.modified
    BY <1>2, <1>7, <2>1 DEF FileStruct, p
  <2>3. FileTyped' /\ TransfersRight'
    BY <1>1, <1>2, <1>11, <2>2, QuietTypes
  <2>4. Settled
    BY <1>3, <1>13 DEF Inv, SettledState
  <2>5. PlainSettled'
    <3>1. Offset < file.filesize => p.sector < SectorsPerCluster
      <4>1. p.sector \in 0 .. SectorsPerCluster
        BY <1>2, PositionFields DEF p
      <4>2. p.sector = SectorsPerCluster => ~(Offset < file.filesize)
        BY <1>2, <1>4, <1>6, <1>13
      <4>3. QED BY <4>1, <4>2, PositiveSizes
    <3>2. Somewhere(chain', p, Offset)
      BY <1>1, <1>4
    <3>3. QED BY <2>2, <3>1, <3>2 DEF PlainSettled
  <2>6. Settled'
    BY <1>1, <1>3, <1>13, <2>2, <2>4, <2>5 DEF Settled, EntrySettled, StartCluster
  <2>7. ClosedState' /\ OpenState'
    <3>1. ~(Offset > file.filesize)
      BY <1>2, <1>6, <1>13
    <3>2. QED BY <1>3, <1>13, <2>2, <3>1 DEF ClosedState, OpenState
  <2>8. QED BY <1>11, <2>3, <2>6, <2>7, ReadyStep
<1>14. CASE call.op = "write" /\ file.append
  <2>1. file' = [file EXCEPT !.modified = TRUE, !.appendPosition = p, !.filesize = Offset]
    BY <1>5, <1>6, <1>12, <1>14
  <2>2. /\ file' \in FileStruct /\ file'.appendPosition = p /\ file'.filesize = Offset
        /\ file'.rwPosition = file.rwPosition /\ file'.currentPosition = file.currentPosition
        /\ file'.append = file.append /\ file'.inUse = file.inUse /\ file'.modified = TRUE
    BY <1>2, <1>7, <2>1 DEF FileStruct, p
  <2>3. FileTyped' /\ TransfersRight'
    BY <1>1, <1>2, <1>11, <2>2, QuietTypes
  <2>4. Filled(n, Offset)
    <3>1. Offset >= file.filesize /\ Offset >= Offset
      BY <1>2, <1>5, <1>6, <1>14
    <3>2. QED BY <1>2, <1>4, <1>6, <1>9, <3>1, TightFilled
  <2>5. AppendSettled'
    BY <1>1, <1>4, <2>2 DEF AppendSettled
  <2>6. Settled'
    <3>1. ~IoErrors
      BY <1>14 DEF Inv, CallState
    <3>2. QED BY <1>1, <1>14, <2>2, <2>4, <2>5, <3>1 DEF Settled, EntrySettled
  <2>7. ClosedState' /\ OpenState'
    <3>1. file.currentPosition = 0 /\ At(chain, file.rwPosition, 0, 1) /\ Exact
      BY <1>3, <1>14 DEF Inv, OpenState
    <3>2. ~(0 > Offset)
      BY <1>6
    <3>3. QED BY <1>1, <1>3, <2>2, <3>1, <3>2 DEF ClosedState, OpenState
  <2>8. QED BY <1>11, <2>3, <2>6, <2>7, ReadyStep
<1>15. CASE call.op = "write" /\ ~file.append
  <2>0. PICK new \in Nat : /\ new = (IF file.filesize < Offset THEN Offset ELSE file.filesize) /\ new \in Sizes
                           /\ new >= file.filesize /\ new >= Offset /\ (new = file.filesize \/ new = Offset)
    <3>1. file.filesize \in Sizes
      BY <1>2 DEF FileStruct
    <3>2. QED BY <1>2, <1>6, <1>7, <3>1
  <2>1. file' = [file EXCEPT !.modified = TRUE, !.rwPosition = p, !.currentPosition = Offset, !.filesize = new]
    BY <1>10, <1>12, <1>15, <2>0
  <2>2. /\ file' \in FileStruct /\ file'.rwPosition = p /\ file'.filesize = new /\ file'.currentPosition = Offset
        /\ file'.append = file.append /\ file'.inUse = file.inUse /\ file'.modified = TRUE
    BY <1>2, <1>7, <2>0, <2>1 DEF FileStruct, p
  <2>3. FileTyped' /\ TransfersRight'
    BY <1>1, <1>2, <1>11, <2>2, QuietTypes
  <2>4. Filled(n, new)
    BY <1>2, <1>4, <1>6, <1>9, <2>0, TightFilled
  <2>5. PlainSettled'
    BY <1>1, <1>3, <1>4, <1>15, <2>2 DEF PlainSettled
  <2>6. Settled'
    <3>1. ~IoErrors
      BY <1>15 DEF Inv, CallState
    <3>2. QED BY <1>1, <1>15, <2>2, <2>4, <2>5, <3>1 DEF Settled, EntrySettled
  <2>7. ClosedState' /\ OpenState'
    <3>1. ~(Offset > new)
      BY <1>6, <2>0
    <3>2. QED BY <1>3, <1>15, <2>2, <3>1 DEF ClosedState, OpenState
  <2>8. QED BY <1>11, <2>3, <2>6, <2>7, ReadyStep
<1>16. QED BY <1>2, <1>3, <1>13, <1>14, <1>15

-----------------------------------------------------------------------------
(* The beginnings of calls *)

(* What is known before a call *)
LEMMA ReadyFacts ==
    ASSUME Inv, Ready
    PROVE  /\ IsChain(chain) /\ Len(chain) \in Nat /\ (chain = <<>> <=> Len(chain) = 0)
           /\ file \in FileStruct /\ call \in Call /\ call.phase = "none" /\ call.op = "none" /\ file.inUse
           /\ file.filesize \in Nat /\ file.currentPosition \in Nat
           /\ file.filesize \in Sizes /\ file.currentPosition \in Sizes
           /\ file.rwPosition \in Position /\ file.appendPosition \in Position /\ file.append \in BOOLEAN
           /\ entry \in [filesize : Sizes, startCluster : Clusters \cup {CLUSTER_FREE}]
           /\ ReadSetting /\ Settled /\ Filled(Len(chain), file.filesize) /\ EntrySettled
           /\ file.append \/ "write" \in PlainCalls => Exact /\ Fits(Len(chain), file.filesize)
           /\ file.append => AppendSettled /\ file.currentPosition = 0 /\ (chain # <<>> => At(chain, file.rwPosition, 0, 1))
           /\ ~file.append => PlainSettled
           /\ file.currentPosition > file.filesize => file.currentPosition <= MaxExtend
           /\ chain = <<>> => file.filesize = 0
<1>1. call.phase = "none" /\ file.inUse
  BY DEF Ready
<1>2. Settled /\ OpenState /\ CallState /\ ReadSetting /\ FileTyped
  BY <1>1 DEF Inv, SettledState
<1>3. IsChain(chain) /\ Len(chain) \in Nat
  BY <1>2, Types, ChainType
<1>4. chain = <<>> <=> Len(chain) = 0
  BY <1>3 DEF IsChain
<1>5. Len(chain) = 0 => file.filesize = 0
  <2>1. Len(chain) = 0 => file.filesize <= 0 * BytesPerCluster
    BY <1>2 DEF Settled, Filled
  <2>2. 0 * BytesPerCluster = 0 /\ file.filesize \in Nat
    BY <1>2, Types, PositiveSizes
  <2>3. QED BY <2>1, <2>2
<1>6. file.filesize \in Sizes /\ file.currentPosition \in Sizes
  BY <1>2, Types DEF FileStruct
<1>7. file.append \/ "write" \in PlainCalls => Exact
  BY <1>2 DEF OpenState, ReadSetting
<1>8. Exact => Fits(Len(chain), file.filesize)
  BY <1>2 DEF Settled, Filled, Fits
<1>9. QED BY <1>1, <1>2, <1>3, <1>4, <1>5, <1>6, <1>7, <1>8, Types DEF Settled, OpenState, CallState, FileTyped

(* The beginning of a transfer *)
LEMMA TransferStarts ==
    ASSUME Inv, Ready, FileTyped', TransfersRight', OpenState', file'.inUse, file'.append = file.append,
           file'.filesize = file.filesize, file'.currentPosition = file.currentPosition, chain' # <<>>,
           call'.phase = "partial", call'.op \in {"read", "write"}, call'.remain = call'.len, call'.len > 0,
           call'.op = "read" => /\ ~file.append /\ "read" \in PlainCalls /\ Settled'
                                /\ call'.offset + call'.len <= file.filesize /\ call'.position.sector # SectorsPerCluster,
           call'.op = "write" => (file.append \/ "write" \in PlainCalls) /\ ~IoErrors,
           call'.offset = IF file.append THEN file.filesize ELSE file.currentPosition,
           call'.offset <= file.filesize, call'.offset + call'.len <= FILE_MAX_SIZE,
           call'.appending => call'.offset + call'.len >= file.filesize,
           Somewhere(chain', call'.position, call'.offset),
           Tight(Len(chain'), file.filesize, call'.offset, call'.len)
    PROVE  Inv'
<1>1. ReadSetting' /\ SettledState' /\ ClosedState'
  BY DEF Inv, ReadSetting, Calls, SettledState, ClosedState
<1>2. call'.len \in Nat /\ call'.offset \in Nat
  BY FileAssumption DEF FileTyped, Call, Sizes
<1>3. Offset' = call'.offset
  BY <1>2 DEF Offset
<1>4. CallState'
  BY ReadyFacts DEF CallState, Extending, Moving
<1>5. TransferState'
  BY <1>2 DEF TransferState
<1>6. ExtendState' /\ GroupState'
  BY DEF ExtendState, GroupState, Extending
<1>7. PhaseState'
  BY <1>3 DEF PhaseState, AtEdge
<1>8. QED BY <1>1, <1>4, <1>5, <1>6, <1>7 DEF Inv

(* The beginning of an extension *)
LEMMA ExtendStarts ==
    ASSUME Inv, Ready, FileTyped', TransfersRight', OpenState', file'.inUse, file'.append = file.append,
           file'.filesize = file.filesize, file'.currentPosition = file.currentPosition, chain' # <<>>,
           call'.phase = "extend", call'.op \in {"write", "grow"},
           call'.op = "grow" => file.append /\ ~IoErrors,
           call'.op = "write" => /\ ~file.append /\ "write" \in PlainCalls /\ ~IoErrors /\ call'.offset = file.currentPosition
                                 /\ call'.target = call'.offset /\ call'.remain = call'.len /\ call'.len > 0
                                 /\ call'.offset + call'.len <= FILE_MAX_SIZE,
           file.filesize < call'.target, call'.target <= MaxExtend, call'.zeros = call'.target - file.filesize,
           Fits(Len(chain'), file.filesize) \/ (file.filesize = 0 /\ Len(chain') = 1)
    PROVE  Inv'
<1>1. ReadSetting' /\ SettledState' /\ ClosedState'
  BY DEF Inv, ReadSetting, Calls, SettledState, ClosedState
<1>2. /\ call'.len \in Nat /\ call'.offset \in Nat /\ call'.remain \in Nat /\ call'.target \in Nat /\ call'.zeros \in Nat
      /\ file.filesize \in Nat
  BY FileAssumption DEF FileTyped, Call, Sizes, FileStruct
<1>3. CallState'
  BY ReadyFacts DEF CallState, Extending, Moving
<1>4. TransferState'
  <2>1. call'.op # "read" /\ ~Moving'
    BY DEF Moving
  <2>2. call'.op = "write" => call'.remain <= call'.len
    BY <1>2
  <2>3. QED BY <2>1, <2>2 DEF TransferState
<1>5. ExtendState'
  BY <1>2 DEF ExtendState, Extending
<1>6. PhaseState' /\ GroupState'
  BY DEF PhaseState, GroupState, Moving
<1>7. QED BY <1>1, <1>3, <1>4, <1>5, <1>6 DEF Inv

(* A read begins inside the file, at the place of the current position *)
LEMMA ReadInv ==
    ASSUME Inv, NEW len \in Sizes, Read(len)
    PROVE  Inv'
<1> DEFINE x == ReadLength(len)
<1>1. /\ Ready /\ Makes("read") /\ len > 0 /\ Allowed(len)
      /\ file.currentPosition < file.filesize /\ chain # <<>> /\ io' = NoIo /\ UNCHANGED <<chain, entry, file>>
      /\ call' = [NoCall EXCEPT !.phase = "partial", !.op = "read",
                    !.offset = file.currentPosition, !.len = x, !.remain = x, !.position = file.rwPosition]
  BY DEF Read
<1>2. ~file.append /\ "read" \in PlainCalls /\ file.currentPosition + len <= FILE_MAX_SIZE
  BY <1>1, ReadyFacts DEF Makes, Allowed, ReadSetting, Calls
<1>3. /\ x \in Nat /\ x > 0 /\ file.currentPosition + x <= file.filesize /\ x \in Sizes
  <2>1. len \in Nat /\ file.currentPosition \in Nat /\ file.filesize \in Nat /\ file.filesize <= FILE_MAX_SIZE /\ FILE_MAX_SIZE \in Nat
    BY <1>1, ReadyFacts, FileAssumption DEF Sizes
  <2>2. Sum32(len, file.currentPosition) = len + file.currentPosition
    BY <1>2, <2>1, Sum32Exact
  <2>3. x = IF len + file.currentPosition > file.filesize THEN file.filesize - file.currentPosition ELSE len
    BY <2>2 DEF ReadLength
  <2> HIDE DEF x
  <2>4. QED BY <1>1, <2>1, <2>3 DEF Sizes
<1> HIDE DEF x
<1>4. /\ call' \in Call /\ call'.phase = "partial" /\ call'.op = "read" /\ call'.offset = file.currentPosition
      /\ call'.len = x /\ call'.remain = x /\ call'.position = file.rwPosition /\ call'.appending = FALSE
  <2>1. file.currentPosition \in Sizes /\ file.rwPosition \in Position
    BY <1>1, ReadyFacts
  <2>2. QED BY <1>1, <1>3, <2>1, NoCallType DEF Call, NoCall, Phases
<1>5. FileTyped' /\ TransfersRight'
  BY <1>1, <1>4, ReadyFacts, QuietTypes
<1>6. OpenState' /\ Settled'
  BY <1>1, ReadyFacts DEF Inv, OpenState, Settled, EntrySettled, PlainSettled, AppendSettled, StartCluster
<1>7. /\ Somewhere(chain, file.rwPosition, file.currentPosition) /\ file.rwPosition.sector < SectorsPerCluster
      /\ Filled(Len(chain), file.filesize)
  BY <1>1, <1>2, ReadyFacts DEF PlainSettled
<1>8. file.rwPosition.sector # SectorsPerCluster
  BY <1>7, PositiveSizes
<1>9. Tight(Len(chain), file.filesize, file.currentPosition, x)
  BY <1>7, FilledTight
<1>10. file.currentPosition <= file.filesize /\ file.currentPosition + x <= FILE_MAX_SIZE
  BY <1>1, <1>2, <1>3, ReadyFacts, FileAssumption DEF Sizes
<1>11. file.inUse
  BY <1>1, ReadyFacts
<1>12. QED BY <1>1, <1>2, <1>3, <1>4, <1>5, <1>6, <1>7, <1>8, <1>9, <1>10, <1>11, TransferStarts

(* A call that puts something in a file sees to it that there is a         *)
(* cluster, and that the file's positions, or that of the reads only, are  *)
(* there                                                                   *)
SeesToCluster(both) ==
    \/ chain # <<>> /\ UNCHANGED <<chain, file>>
    \/ \E r \in Clusters :
         /\ chain = <<>> /\ LinkFreeCluster(CLUSTER_FREE, r)
         /\ file' = [file EXCEPT !.appendPosition = IF both THEN PositionAt(r) ELSE file.appendPosition,
                                 !.rwPosition = PositionAt(r)]

(* What is so then *)
LEMMA FirstCluster ==
    ASSUME Inv, Ready, file.append \/ "write" \in PlainCalls, NEW both \in BOOLEAN, SeesToCluster(both)
    PROVE  /\ IsChain(chain') /\ Len(chain') \in Nat /\ Len(chain') >= 1 /\ chain' # <<>> /\ file' \in FileStruct
           /\ file'.inUse /\ file'.append = file.append /\ file'.filesize = file.filesize
           /\ file'.currentPosition = file.currentPosition
           /\ Fits(Len(chain'), file.filesize) \/ (file.filesize = 0 /\ Len(chain') = 1)
           /\ OpenState'
           /\ ~file.append /\ file.currentPosition <= file.filesize => Somewhere(chain', file'.rwPosition, file.currentPosition)
           /\ file.append /\ both => Somewhere(chain', file'.appendPosition, file.filesize)
<1>1. CASE chain # <<>> /\ UNCHANGED <<chain, file>>
  <2>1. Len(chain) \in Nat /\ Len(chain) # 0
    BY <1>1, ReadyFacts
  <2>2. Len(chain) >= 1
    BY <2>1
  <2>3. OpenState'
    BY <1>1 DEF Inv, OpenState
  <2>4. QED BY <1>1, <2>1, <2>2, <2>3, ReadyFacts DEF PlainSettled, AppendSettled
<1>2. CASE ~(chain # <<>> /\ UNCHANGED <<chain, file>>)
  <2>1. PICK r \in Clusters : /\ chain = <<>> /\ LinkFreeCluster(CLUSTER_FREE, r)
                              /\ file' = [file EXCEPT !.appendPosition = IF both THEN PositionAt(r) ELSE file.appendPosition,
                                                      !.rwPosition = PositionAt(r)]
    BY <1>2 DEF SeesToCluster
  <2>2. IsChain(chain') /\ Len(chain') = 1 /\ r = chain'[1]
    BY <2>1, LinkedFirst, ReadyFacts
  <2>a. Len(chain') >= 1 /\ Len(chain') \in Nat /\ chain' # <<>>
    BY <2>2
  <2>3. At(chain', PositionAt(r), 0, 1) /\ PositionAt(r) \in Position
    BY <2>2, <2>a, PositionStart
  <2>4. Somewhere(chain', PositionAt(r), 0)
    BY <2>3 DEF Somewhere, At
  <2>5. /\ file' \in FileStruct /\ file'.inUse = file.inUse /\ file'.append = file.append /\ file'.filesize = file.filesize
        /\ file'.currentPosition = file.currentPosition
        /\ file'.rwPosition = PositionAt(r) /\ (both => file'.appendPosition = PositionAt(r))
    BY <2>1, <2>3, ReadyFacts DEF FileStruct
  <2>6. file.filesize = 0 /\ file.inUse /\ file.currentPosition \in Nat
    BY <2>1, ReadyFacts
  <2>7. OpenState'
    BY <2>3, <2>5 DEF Inv, OpenState
  <2>8. file.currentPosition <= file.filesize => file.currentPosition = 0
    BY <2>6
  <2>9. QED BY <2>2, <2>a, <2>4, <2>5, <2>6, <2>7, <2>8
<1>3. QED BY <1>1, <1>2

(* A write begins at its position, or it extends the file first *)
LEMMA WriteInv ==
    ASSUME Inv, NEW len \in Sizes, Write(len)
    PROVE  Inv'
<1> DEFINE n == Lesser(len, FILE_MAX_SIZE - file.filesize)
           past == ~file.append /\ file.currentPosition > file.filesize
           size == file.filesize
           cp == file.currentPosition
           app == file.append \/ Sum32(n, cp) > IF past THEN cp ELSE size
           o == IF file.append THEN size ELSE cp
           p == IF file.append THEN file'.appendPosition ELSE file'.rwPosition
           z == IF past THEN cp - size ELSE 0
           ph == IF past THEN "extend" ELSE "partial"
<1>1. /\ Ready /\ Makes("write") /\ io' = NoIo /\ entry' = entry /\ n > 0 /\ (file.append \/ Allowed(n))
      /\ call' = [NoCall EXCEPT !.phase = ph, !.op = "write", !.offset = o, !.len = n, !.remain = n, !.position = p,
                                !.appending = app, !.target = cp, !.zeros = z]
  BY DEF Write
<1>2. /\ IsChain(chain') /\ Len(chain') \in Nat /\ Len(chain') >= 1 /\ chain' # <<>> /\ file' \in FileStruct
      /\ file'.inUse /\ file'.append = file.append /\ file'.filesize = file.filesize
      /\ file'.currentPosition = file.currentPosition
      /\ Fits(Len(chain'), file.filesize) \/ (file.filesize = 0 /\ Len(chain') = 1)
      /\ OpenState'
      /\ ~file.append /\ file.currentPosition <= file.filesize => Somewhere(chain', file'.rwPosition, file.currentPosition)
      /\ file.append => Somewhere(chain', file'.appendPosition, file.filesize)
  <2>1. SeesToCluster(TRUE)
    BY DEF Write, SeesToCluster
  <2>2. file.append \/ "write" \in PlainCalls
    BY <1>1 DEF Makes
  <2>3. QED BY <1>1, <2>1, <2>2, FirstCluster
<1>3. /\ size \in Nat /\ cp \in Nat /\ size \in Sizes /\ cp \in Sizes /\ FILE_MAX_SIZE \in Nat
      /\ size <= FILE_MAX_SIZE /\ len \in Nat /\ file.append \in BOOLEAN
      /\ (cp > size => cp <= MaxExtend) /\ MaxExtend \in Nat
  BY <1>1, ReadyFacts, FileAssumption DEF Sizes
<1>4. ~IoErrors /\ (file.append \/ (cp + n <= FILE_MAX_SIZE /\ "write" \in PlainCalls))
  <2>1. /\ "write" \in IF file.append THEN AppendCalls ELSE PlainCalls
        /\ file.append \/ (cp + n <= FILE_MAX_SIZE /\ "write" \in PlainCalls)
    <3> HIDE DEF n, cp
    <3>1. QED BY <1>1, ReadyFacts DEF Makes, Allowed, ReadSetting, Calls, cp
  <2>2. Exact
    BY <1>1, <2>1, ReadyFacts
  <2>3. QED BY <2>1, <2>2 DEF Exact
<1>5. n \in Nat /\ n \in Sizes /\ size + n <= FILE_MAX_SIZE
  <2>1. n = IF len < FILE_MAX_SIZE - size THEN len ELSE FILE_MAX_SIZE - size
    BY DEF Lesser
  <2> HIDE DEF n, size
  <2>2. QED BY <1>3, <2>1 DEF Sizes
<1> HIDE DEF n
<1>6. ~file.append => Sum32(n, cp) = cp + n
  BY <1>3, <1>4, <1>5, Sum32Exact
<1>7. o \in Sizes /\ z \in Sizes /\ o \in Nat /\ p \in Position /\ app \in BOOLEAN /\ ph \in Phases
  <2>1. past => cp - size \in Sizes
    BY <1>3 DEF Sizes
  <2>2. 0 \in Sizes
    BY FileAssumption DEF Sizes
  <2>3. p \in Position
    BY <1>2 DEF FileStruct
  <2>4. QED BY <1>3, <2>1, <2>2, <2>3 DEF Phases
<1>8. app => o + n >= size
  BY <1>3, <1>5, <1>6
<1> HIDE DEF app, z, ph, p, o
<1>9. /\ call' \in Call /\ call'.phase = ph /\ call'.op = "write" /\ call'.offset = o /\ call'.len = n /\ call'.remain = n
      /\ call'.position = p /\ call'.appending = app /\ call'.target = cp /\ call'.zeros = z
  BY <1>1, <1>3, <1>5, <1>7, NoCallType DEF Call, NoCall
<1>10. FileTyped' /\ TransfersRight'
  BY <1>1, <1>2, <1>9, ReadyFacts, QuietTypes
<1>11. CASE past
  <2>1. ph = "extend" /\ z = cp - size /\ o = cp /\ ~file.append
    BY <1>11 DEF ph, z, o
  <2>2. size < cp /\ cp <= MaxExtend
    BY <1>3, <1>11
  <2>3. QED BY <1>1, <1>2, <1>4, <1>5, <1>9, <1>10, <2>1, <2>2, ExtendStarts
<1>12. CASE ~past
  <2>1. ph = "partial" /\ o <= size /\ o + n <= FILE_MAX_SIZE
    BY <1>3, <1>4, <1>5, <1>12 DEF ph, o
  <2>2. Somewhere(chain', p, o)
    BY <1>2, <1>3, <1>12 DEF p, o
  <2>3. Tight(Len(chain'), size, o, n)
    <3>1. CASE Fits(Len(chain'), size)
      BY <3>1, FilledTight DEF Fits, Filled
    <3>2. CASE size = 0 /\ Len(chain') = 1
      <4>1. o = 0
        BY <1>7, <2>1, <3>2
      <4>2. (1 - 1) * BytesPerCluster = 0 /\ 0 <= 1 * BytesPerCluster
        BY PositiveSizes
      <4>3. QED BY <1>1, <3>2, <4>1, <4>2 DEF Tight, n
    <3>3. QED BY <1>2, <3>1, <3>2
  <2>4. o = IF file.append THEN file.filesize ELSE file.currentPosition
    BY DEF o
  <2>5. QED BY <1>1, <1>2, <1>4, <1>5, <1>8, <1>9, <1>10, <2>1, <2>2, <2>3, <2>4, TransferStarts
<1>13. QED BY <1>11, <1>12

(* ftruncate begins to extend the file *)
LEMMA GrowInv ==
    ASSUME Inv, NEW newSize \in Sizes, Grow(newSize)
    PROVE  Inv'
<1>1. /\ Ready /\ Makes("grow") /\ newSize \in file.filesize + 1 .. MaxExtend /\ io' = NoIo /\ entry' = entry
      /\ call' = [NoCall EXCEPT !.phase = "extend", !.op = "grow", !.target = newSize, !.zeros = newSize - file.filesize]
  BY DEF Grow
<1>3. file.append /\ ~IoErrors
  <2>1. file.append /\ "grow" \in AppendCalls
    BY <1>1, ReadyFacts DEF Makes, ReadSetting, Calls
  <2>2. Exact
    BY <2>1 DEF Inv, OpenState
  <2>3. QED BY <2>1, <2>2 DEF Exact
<1>2. /\ IsChain(chain') /\ Len(chain') \in Nat /\ Len(chain') >= 1 /\ chain' # <<>> /\ file' \in FileStruct
      /\ file'.inUse /\ file'.append = file.append /\ file'.filesize = file.filesize
      /\ file'.currentPosition = file.currentPosition
      /\ Fits(Len(chain'), file.filesize) \/ (file.filesize = 0 /\ Len(chain') = 1)
      /\ OpenState'
  <2>1. file \in FileStruct
    BY <1>1, ReadyFacts
  <2>2. \A q : [file EXCEPT !.rwPosition = q] = [file EXCEPT !.appendPosition = file.appendPosition, !.rwPosition = q]
    BY <2>1 DEF FileStruct
  <2>3. SeesToCluster(FALSE)
    BY <2>2 DEF Grow, SeesToCluster
  <2>4. QED BY <1>1, <1>3, <2>3, FirstCluster
<1>4. newSize - file.filesize \in Sizes /\ file.filesize < newSize /\ newSize <= MaxExtend
  BY <1>1, ReadyFacts, FileAssumption DEF Sizes
<1>5. /\ call' \in Call /\ call'.phase = "extend" /\ call'.op = "grow" /\ call'.target = newSize
      /\ call'.zeros = newSize - file.filesize
  <2> DEFINE z == newSize - file.filesize
  <2>1. z \in Sizes /\ call' = [NoCall EXCEPT !.phase = "extend", !.op = "grow", !.target = newSize, !.zeros = z]
    BY <1>1, <1>4
  <2> HIDE DEF z
  <2>2. /\ call' \in Call /\ call'.phase = "extend" /\ call'.op = "grow" /\ call'.target = newSize /\ call'.zeros = z
    BY <2>1, NoCallType DEF Call, NoCall, Phases
  <2>3. QED BY <2>2 DEF z
<1>6. FileTyped' /\ TransfersRight'
  BY <1>1, <1>2, <1>5, ReadyFacts, QuietTypes
<1>7. QED BY <1>1, <1>2, <1>3, <1>4, <1>5, <1>6, ExtendStarts

(* What a sync leaves in the entry *)
LEMMA SyncedEntry ==
    ASSUME Inv, Ready, SyncToDisc
    PROVE  /\ Exact => entry' = [filesize |-> file.filesize, startCluster |-> StartCluster]
           /\ entry' \in [filesize : Sizes, startCluster : Clusters \cup {CLUSTER_FREE}]
<1>1. /\ entry \in [filesize : Sizes, startCluster : Clusters \cup {CLUSTER_FREE}] /\ file.filesize \in Sizes
      /\ Exact /\ (IoErrors \/ ~file.modified) => entry = [filesize |-> file.filesize, startCluster |-> StartCluster]
  BY ReadyFacts DEF EntrySettled
<1>2. StartCluster \in Clusters \cup {CLUSTER_FREE}
  <2>1. CASE chain = <<>>
    BY <2>1 DEF StartCluster
  <2>2. CASE chain # <<>>
    <3>1. IsChain(chain) /\ Len(chain) \in Nat /\ Len(chain) # 0
      BY <2>2, ReadyFacts
    <3>2. 1 \in 1 .. Len(chain)
      BY <3>1
    <3>3. QED BY <2>2, <3>1, <3>2, ChainType DEF StartCluster
  <2>3. QED BY <2>1, <2>2
<1>3. CASE entry' = Synced
  <2>1. CASE file.modified
    BY <1>1, <1>2, <1>3, <2>1 DEF Synced
  <2>2. CASE ~file.modified
    BY <1>1, <1>3, <2>2 DEF Synced
  <2>3. QED BY <2>1, <2>2
<1>4. CASE IoErrors /\ entry' = entry
  BY <1>1, <1>4
<1>5. QED BY <1>3, <1>4 DEF SyncToDisc

(* close leaves the entry as the file is *)
LEMMA CloseInv ==
    ASSUME Inv, Close
    PROVE  Inv'
<1>1. /\ Ready /\ SyncToDisc /\ file' = [file EXCEPT !.inUse = FALSE, !.modified = FALSE] /\ io' = NoIo
      /\ UNCHANGED <<chain, call>>
  BY DEF Close
<1>2. /\ file' \in FileStruct /\ file'.inUse = FALSE /\ file'.append = file.append /\ file'.filesize = file.filesize
      /\ file'.currentPosition = file.currentPosition /\ file'.rwPosition = file.rwPosition
  BY <1>1, ReadyFacts DEF FileStruct
<1>3. /\ Exact => entry' = [filesize |-> file.filesize, startCluster |-> StartCluster]
      /\ entry' \in [filesize : Sizes, startCluster : Clusters \cup {CLUSTER_FREE}]
  BY <1>1, SyncedEntry
<1>4. FileTyped' /\ TransfersRight'
  BY <1>1, <1>2, <1>3, ReadyFacts, QuietTypes
<1>5. /\ call'.phase = "none" /\ call'.op = "none"
      /\ Exact => Filled(Len(chain'), entry'.filesize) /\ entry'.startCluster = StartCluster'
  BY <1>1, <1>3, ReadyFacts DEF StartCluster
<1>6. ClosedState'
  BY <1>5 DEF ClosedState
<1>7. OpenState'
  BY <1>1, <1>2 DEF Inv, OpenState
<1>8. QED BY <1>2, <1>4, <1>5, <1>6, <1>7, ReadyStep

(* fsync does, and the file stays open *)
LEMMA FsyncInv ==
    ASSUME Inv, Fsync
    PROVE  Inv'
<1>1. /\ Ready /\ SyncToDisc /\ file' \in {file, [file EXCEPT !.modified = FALSE]} /\ io' = NoIo
      /\ UNCHANGED <<chain, call>>
  BY DEF Fsync
<1>2. /\ file' \in FileStruct /\ file'.inUse = file.inUse /\ file'.append = file.append /\ file'.filesize = file.filesize
      /\ file'.currentPosition = file.currentPosition /\ file'.rwPosition = file.rwPosition
      /\ file'.appendPosition = file.appendPosition
  BY <1>1, ReadyFacts DEF FileStruct
<1>3. /\ Exact => entry' = [filesize |-> file.filesize, startCluster |-> StartCluster]
      /\ entry' \in [filesize : Sizes, startCluster : Clusters \cup {CLUSTER_FREE}]
  BY <1>1, SyncedEntry
<1>4. FileTyped' /\ TransfersRight'
  BY <1>1, <1>2, <1>3, ReadyFacts, QuietTypes
<1>5. call'.phase = "none" /\ call'.op = "none"
  BY <1>1, ReadyFacts
<1>6. ClosedState' /\ OpenState'
  BY <1>1, <1>2, ReadyFacts DEF Inv, OpenState, ClosedState
<1>7. EntrySettled'
  BY <1>1, <1>2, <1>3 DEF EntrySettled, StartCluster
<1>8. (file.append => AppendSettled') /\ (~file.append => PlainSettled')
  BY <1>1, <1>2, ReadyFacts DEF AppendSettled, PlainSettled
<1>9. Settled'
  BY <1>1, <1>2, <1>7, <1>8, ReadyFacts DEF Settled
<1>10. QED BY <1>4, <1>5, <1>6, <1>9, ReadyStep

(* The clusters that the entry leads to are a chain *)
LEMMA FoundChain ==
    ASSUME IsChain(chain), entry.startCluster \in {CLUSTER_FREE, StartCluster}
    PROVE  /\ IsChain(Found) /\ Len(Found) \in Nat
           /\ entry.startCluster = IF Found = <<>> THEN CLUSTER_FREE ELSE Found[1]
           /\ entry.startCluster = StartCluster => Found = chain
<1>1. IsChain(<<>>) /\ Len(<<>>) = 0
  BY DEF IsChain
<1>2. chain # <<>> => chain[1] \in Clusters
  <2>1. SUFFICES ASSUME chain # <<>> PROVE chain[1] \in Clusters
    OBVIOUS
  <2>2. Len(chain) \in Nat /\ Len(chain) # 0
    BY <2>1 DEF IsChain
  <2>3. 1 \in 1 .. Len(chain)
    BY <2>2
  <2>4. QED BY <2>3, ChainType
<1>3. CLUSTER_FREE \notin Clusters
  BY FileAssumption DEF CLUSTER_FREE, Clusters, CLUSTER_FIRST
<1>4. CASE entry.startCluster = CLUSTER_FREE
  <2>1. Found = <<>>
    BY <1>4 DEF Found
  <2>2. entry.startCluster = StartCluster => chain = <<>>
    BY <1>2, <1>3, <1>4 DEF StartCluster
  <2>3. QED BY <1>1, <1>4, <2>1, <2>2
<1>5. CASE entry.startCluster # CLUSTER_FREE
  <2>1. Found = chain /\ entry.startCluster = StartCluster
    BY <1>5 DEF Found
  <2>2. QED BY <2>1, ChainType DEF StartCluster
<1>6. QED BY <1>4, <1>5

(* open finds the file as its entry describes it, or empties it *)
LEMMA OpenFinds ==
    ASSUME ReadSetting, IsChain(chain), call \in Call, call.phase = "none", call.op = "none",
           entry \in [filesize : Sizes, startCluster : Clusters \cup {CLUSTER_FREE}],
           NEW mode \in OpenModes, Open(mode), mode = "O_APPEND" => Exact,
           (mode = "O_TRUNC" /\ entry.startCluster # CLUSTER_FREE) \/ Filled(Len(Found), entry.filesize)
    PROVE  Inv'
<1> DEFINE cut == mode = "O_TRUNC" /\ entry.startCluster # CLUSTER_FREE
           size == IF cut THEN 0 ELSE entry.filesize
           app == mode = "O_APPEND"
           rw == PositionAt(StartCluster')
           ap == IF app THEN EndPosition(LastOfChain', size) ELSE rw
<1>1. /\ ~file.inUse /\ io' = NoIo /\ UNCHANGED <<entry, call>> /\ chain' = (IF cut THEN <<>> ELSE Found)
      /\ file' = [inUse |-> TRUE, append |-> app, modified |-> cut, filesize |-> size, currentPosition |-> 0,
                  rwPosition |-> rw, appendPosition |-> ap]
  BY DEF Open
<1>2. /\ IsChain(Found) /\ Len(Found) \in Nat /\ call \in Call /\ call.phase = "none" /\ call.op = "none"
      /\ entry.startCluster = (IF Found = <<>> THEN CLUSTER_FREE ELSE Found[1])
      /\ ~cut => Filled(Len(Found), entry.filesize)
      /\ entry \in [filesize : Sizes, startCluster : Clusters \cup {CLUSTER_FREE}]
      /\ app => Exact
      /\ Exact /\ IoErrors => ~cut
  BY FoundChain DEF Open, Exact
<1>3. IsChain(chain') /\ Len(chain') \in Nat /\ Filled(Len(chain'), size) /\ size \in Sizes /\ size \in Nat
  <2>1. CASE cut
    <3>1. chain' = <<>> /\ size = 0 /\ Len(chain') = 0
      BY <1>1, <2>1
    <3>2. (0 - 1) * BytesPerCluster < 0 /\ 0 <= 0 * BytesPerCluster /\ 0 \in Sizes
      BY PositiveSizes, FileAssumption DEF Sizes
    <3>3. IsChain(chain')
      BY <3>1 DEF IsChain
    <3>4. QED BY <3>1, <3>2, <3>3 DEF Filled
  <2>2. CASE ~cut
    <3>1. chain' = Found /\ size = entry.filesize
      BY <1>1, <2>2
    <3>2. size \in Sizes
      BY <1>2, <3>1
    <3>3. QED BY <1>2, <2>2, <3>1, <3>2, FileAssumption DEF Sizes
  <2>3. QED BY <2>1, <2>2
<1>4. rw \in Position /\ (chain' # <<>> => At(chain', rw, 0, 1))
  <2>1. CASE chain' = <<>>
    BY <2>1, NoCallType DEF StartCluster
  <2>2. CASE chain' # <<>>
    <3>1. Len(chain') >= 1
      BY <1>3, <2>2 DEF IsChain
    <3>2. rw = PositionAt(chain'[1])
      BY <2>2 DEF StartCluster
    <3>3. QED BY <1>3, <3>1, <3>2, PositionStart
  <2>3. QED BY <2>1, <2>2
<1>5. ap \in Position /\ (app /\ chain' # <<>> => At(chain', ap, size, Len(chain')))
  <2>1. CASE app
    <3>1. ap = EndPosition(LastOfChain', size)
      BY <2>1
    <3>2. CASE chain' = <<>>
      BY <1>3, <3>1, <3>2, EndPositionType DEF LastOfChain
    <3>3. CASE chain' # <<>>
      <4>1. Len(chain') > 0 /\ Len(chain') \in 1 .. Len(chain')
        BY <1>3, <3>3 DEF IsChain
      <4>2. LastOfChain' = chain'[Len(chain')] /\ LastOfChain' \in Clusters
        BY <1>3, <3>3, <4>1, ChainType DEF LastOfChain
      <4>3. Fits(Len(chain'), size)
        BY <1>2, <1>3, <2>1 DEF Filled, Fits
      <4>4. QED BY <1>3, <3>1, <4>1, <4>2, <4>3, EndPositionAt, EndPositionType
    <3>4. QED BY <3>2, <3>3
  <2>2. CASE ~app
    BY <1>4, <2>2
  <2>3. QED BY <2>1, <2>2
<1>6. chain' # <<>> => Len(chain') \in 1 .. Len(chain') /\ 1 \in 1 .. Len(chain')
  BY <1>3 DEF IsChain
<1>7. cut \in BOOLEAN /\ app \in BOOLEAN /\ (~cut => size = entry.filesize /\ chain' = Found)
  BY <1>1
<1> HIDE DEF cut, size, app, rw, ap
<1>8. /\ file' \in FileStruct /\ file'.inUse = TRUE /\ file'.append = app /\ file'.modified = cut /\ file'.filesize = size
      /\ file'.currentPosition = 0 /\ file'.rwPosition = rw /\ file'.appendPosition = ap
  <2>1. 0 \in Sizes
    BY FileAssumption DEF Sizes
  <2>2. QED BY <1>1, <1>3, <1>4, <1>5, <1>7, <2>1 DEF FileStruct
<1>9. FileTyped' /\ TransfersRight'
  BY <1>1, <1>2, <1>3, <1>8, QuietTypes
<1>10. EntrySettled'
  <2>1. ~cut => entry = [filesize |-> size, startCluster |-> StartCluster']
    BY <1>2, <1>7 DEF StartCluster
  <2>2. QED BY <1>1, <1>2, <1>8, <2>1 DEF EntrySettled
<1>11. app => AppendSettled'
  BY <1>5, <1>6, <1>8 DEF AppendSettled, Somewhere
<1>12. PlainSettled'
  <2>1. chain' # <<>> => Somewhere(chain', rw, 0)
    BY <1>4, <1>6 DEF Somewhere
  <2>2. rw.sector < SectorsPerCluster
    BY PositiveSizes DEF rw, PositionAt
  <2>3. QED BY <1>8, <2>1, <2>2 DEF PlainSettled
<1>13. Settled'
  BY <1>3, <1>8, <1>10, <1>11, <1>12 DEF Settled
<1>14. ClosedState' /\ OpenState'
  <2>1. ~(0 > size)
    BY <1>3
  <2>2. QED BY <1>2, <1>4, <1>8, <2>1 DEF ClosedState, OpenState
<1>15. call'.phase = "none" /\ call'.op = "none"
  BY <1>1, <1>2
<1>16. QED BY <1>9, <1>13, <1>14, <1>15, ReadyState

(* Opening keeps the invariant: the pointers start where they should *)
LEMMA OpenInv ==
    ASSUME Inv, LostState, Exact, NEW mode \in OpenModes, Open(mode)
    PROVE  Inv' /\ LostState'
<1>1. ReadSetting /\ FileTyped /\ ClosedState /\ CallState
  BY DEF Inv
<1>2. /\ IsChain(chain) /\ call \in Call /\ call.phase = "none" /\ call.op = "none"
      /\ entry.startCluster = StartCluster /\ Filled(Len(chain), entry.filesize)
      /\ entry \in [filesize : Sizes, startCluster : Clusters \cup {CLUSTER_FREE}]
  BY <1>1, Types DEF Open, FileTyped, ClosedState, CallState
<1>3. Found = chain
  BY <1>2, FoundChain
<1>4. Inv'
  BY <1>1, <1>2, <1>3, OpenFinds
<1>5. entry.startCluster = CLUSTER_FREE => Taken = {}
  BY <1>3 DEF Found, Taken, Chained, LostState
<1>6. lost' = {}
  BY <1>5 DEF Open, LostState
<1>7. QED BY <1>4, <1>6 DEF LostState

(* A file that is closed and never was open *)
LEMMA InitInv ==
    ASSUME ReadSetting, Init
    PROVE  Inv /\ LostState
<1>1. PICK size \in Sizes : /\ chain \in [1 .. ClustersFor(size) -> Clusters]
                            /\ \A i, j \in DOMAIN chain : chain[i] = chain[j] => i = j
                            /\ entry = [filesize |-> size, startCluster |-> StartCluster]
  BY DEF Init
<1>2. size \in Nat
  BY FileAssumption DEF Sizes
<1> DEFINE m == ClustersFor(size)
<1>3. m \in Nat /\ Filled(m, size)
  BY <1>2, ClustersForFits DEF Fits, Filled
<1> HIDE DEF m
<1>4. chain \in Seq(Clusters) /\ Len(chain) = m /\ DOMAIN chain = 1 .. m
  BY <1>1, <1>3 DEF m
<1>5. StartCluster \in Clusters \cup {CLUSTER_FREE}
  <2>1. CASE chain = <<>>
    BY <2>1 DEF StartCluster
  <2>2. CASE chain # <<>>
    <3>1. 1 \in 1 .. m
      BY <1>3, <1>4, <2>2
    <3>2. QED BY <1>1, <2>2, <3>1 DEF StartCluster, m
  <2>3. QED BY <2>1, <2>2
<1>6. entry \in [filesize : Sizes, startCluster : Clusters \cup {CLUSTER_FREE}]
  BY <1>1, <1>5
<1>7. /\ file.inUse = FALSE /\ file.append = FALSE /\ file.filesize = 0 /\ file.currentPosition = 0
      /\ call = NoCall /\ io = NoIo
  BY DEF Init
<1>8. file \in FileStruct
  <2>1. 0 \in Sizes
    BY FileAssumption DEF Sizes
  <2>2. QED BY <2>1, NoCallType DEF Init, FileStruct
<1>9. io.offset = 0 /\ io.address = 0 /\ io.size = 0 /\ io.write = FALSE /\ io.erase = FALSE
  BY <1>7 DEF NoIo
<1>10. FileTyped
  <2>1. io.offset \in Nat /\ io.address \in Int /\ io.size \in Nat
    BY <1>9
  <2>2. io.write \in BOOLEAN /\ io.erase \in BOOLEAN
    BY <1>9
  <2>3. QED BY <1>1, <1>4, <1>6, <1>7, <1>8, <2>1, <2>2, NoCallType DEF FileTyped
<1>11. TransfersRight
  <2>1. 0 .. io.size - 1 = {} /\ io.offset + io.size <= file.filesize
    BY <1>7, <1>9
  <2>2. QED BY <1>9, <2>1 DEF TransfersRight, WritesHitFile, ReadsHitFile, EraseSpares, HitsFile
<1>12. call.phase = "none" /\ call.op = "none"
  BY <1>7, NoCallType
<1>13. ClosedState /\ OpenState
  <2>1. entry.startCluster = StartCluster /\ entry.filesize = size
    BY <1>1
  <2>2. ~(file.currentPosition > file.filesize)
    BY <1>7
  <2>3. QED BY <1>3, <1>4, <1>7, <1>12, <2>1, <2>2 DEF ClosedState, OpenState
<1>14. SettledState
  BY <1>7 DEF SettledState
<1>15. CallState /\ TransferState /\ ExtendState /\ PhaseState /\ GroupState
  BY <1>12 DEF CallState, TransferState, ExtendState, PhaseState, GroupState, Extending, Moving
<1>16. LostState
  BY DEF Init, LostState
<1>17. QED BY <1>10, <1>11, <1>13, <1>14, <1>15, <1>16 DEF Inv

-----------------------------------------------------------------------------
(* Extending the file *)

(* What is known while a file is extended *)
LEMMA ExtendFacts ==
    ASSUME Inv, Extending
    PROVE  /\ IsChain(chain) /\ Len(chain) \in Nat /\ Len(chain) >= 1 /\ chain # <<>> /\ ReadSetting /\ Exact
           /\ file \in FileStruct /\ call \in Call /\ file.inUse /\ file.append \in BOOLEAN
           /\ entry \in [filesize : Sizes, startCluster : Clusters \cup {CLUSTER_FREE}]
           /\ file.filesize \in Nat /\ call.target \in Nat /\ call.target \in Sizes /\ call.zeros \in Nat /\ call.zeros \in Sizes
           /\ call.position \in Position
           /\ call.op \in {"write", "grow"} /\ (call.op = "write" => ~file.append) /\ (call.op = "grow" => file.append)
           /\ ~IoErrors
           /\ file.filesize < call.target /\ call.target <= MaxExtend /\ call.zeros <= call.target - file.filesize
<1>1. FileTyped /\ CallState /\ ExtendState /\ ReadSetting
  BY DEF Inv
<1>2. chain # <<>> /\ file.inUse /\ call.op # "none" /\ call.op # "read" /\ (call.op = "grow" => file.append)
  BY <1>1 DEF CallState, Extending
<1>3. IsChain(chain) /\ Len(chain) \in Nat /\ Len(chain) >= 1
  BY <1>1, <1>2, Types DEF IsChain
<1>4. call.op \in {"write", "grow"} /\ call.target \in Sizes /\ call.zeros \in Sizes
  BY <1>1, <1>2, Types DEF Call
<1>5. /\ file.filesize < call.target /\ call.target <= MaxExtend /\ call.zeros <= call.target - file.filesize
      /\ call.op = "write" => ~file.append
  BY <1>1 DEF ExtendState
<1>6. Exact /\ ~IoErrors
  BY <1>1, <1>2, <1>4 DEF Inv, CallState, OpenState
<1>7. QED BY <1>1, <1>2, <1>3, <1>4, <1>5, <1>6, Types DEF FileTyped

(* The bytes cleared are those of the file's chain *)
LEMMA Cleared ==
    ASSUME Inv, Extending, IsChain(chain'), NEW p, NEW k, NEW n \in Nat, At(chain', p, call.target - call.zeros, k),
           p.sector < SectorsPerCluster, p.byte + n <= BytesPerSector,
           io' = [write |-> TRUE, offset |-> call.target - call.zeros,
                  address |-> Address(p.cluster, p.sector, p.byte), size |-> n, erase |-> FALSE]
    PROVE  IoType' /\ TransfersRight'
<1> DEFINE o == call.target - call.zeros
           a == Address(p.cluster, p.sector, p.byte)
<1>1. o \in Nat /\ a \in Int
  BY AtType, AddressType
<1>2. p.sector * BytesPerSector + p.byte + n <= BytesPerCluster
  <2>1. /\ p.sector * BytesPerSector \in Nat /\ p.sector * BytesPerSector + BytesPerSector <= BytesPerCluster
    BY AtSector
  <2>2. PICK x \in Nat : x = p.sector * BytesPerSector
    BY <2>1
  <2>3. PICK b \in Nat : b = p.byte
    BY AtType
  <2>4. x + BytesPerSector <= BytesPerCluster /\ b + n <= BytesPerSector
    BY <2>1, <2>2, <2>3
  <2>5. x + b + n <= BytesPerCluster
    BY <2>4, PositiveSizes
  <2>6. QED BY <2>2, <2>3, <2>5
<1>3. Hits(chain', o, a, n)
  BY <1>2, HitInCluster
<1>4. io' = [write |-> TRUE, offset |-> o, address |-> a, size |-> n, erase |-> FALSE]
  OBVIOUS
<1> HIDE DEF o, a
<1>5. QED BY <1>1, <1>3, <1>4, Transferred DEF IoType

(* The loop over the sectors goes on with z bytes to clear *)
LEMMA ZeroStep ==
    ASSUME Inv, Extending, Grows(chain'), UNCHANGED <<entry, file>>, IoType', TransfersRight',
           NEW z \in Sizes, z <= call.zeros, NEW q \in Position,
           call' = [call EXCEPT !.phase = "zero", !.zeros = z, !.position = q],
           At(chain', q, call.target - z, Len(chain')), q.byte = 0,
           Tight(Len(chain'), file.filesize, call.target - z, z)
    PROVE  Inv'
<1>1. /\ call' \in Call /\ call'.phase = "zero" /\ call'.op = call.op /\ call'.zeros = z /\ call'.position = q
      /\ call'.target = call.target /\ call'.offset = call.offset /\ call'.len = call.len /\ call'.remain = call.remain
      /\ call'.appending = call.appending
  BY ExtendFacts DEF Call, Phases
<1>2. FileTyped'
  <2>1. chain' \in Seq(Clusters) /\ \A i, j \in DOMAIN chain' : chain'[i] = chain'[j] => i = j
    BY DEF Grows, IsChain
  <2>2. QED BY <1>1, <2>1, ExtendFacts DEF FileTyped, IoType
<1>3. chain' # <<>>
  <2>1. Len(chain') \in Nat /\ Len(chain') # 0
    BY ExtendFacts, ChainType DEF Grows
  <2>2. QED BY <2>1
<1>4. SettledState' /\ ClosedState' /\ ReadSetting'
  BY <1>1, ExtendFacts DEF SettledState, ClosedState, ReadSetting, Calls
<1>5. OpenState'
  <2>1. ASSUME file.append PROVE At(chain', file.rwPosition, 0, 1)
    <3>1. At(chain, file.rwPosition, 0, 1)
      BY <2>1, ExtendFacts DEF Inv, OpenState
    <3>2. QED BY <3>1, AtGrown, ExtendFacts
  <2>2. QED BY <2>1 DEF Inv, OpenState
<1>6. CallState'
  BY <1>1, <1>3 DEF Inv, CallState, Extending, Moving
<1>7. TransferState'
  BY <1>1, ExtendFacts DEF Inv, TransferState, Moving
<1>8. ExtendState'
  <2>1. z \in Nat /\ call.zeros \in Nat /\ file.filesize \in Nat /\ call.target \in Nat
    BY ExtendFacts, FileAssumption DEF Sizes
  <2>2. z <= call.target - file.filesize
    BY <2>1, ExtendFacts
  <2>3. QED BY <1>1, <2>2 DEF Inv, ExtendState, Extending
<1>9. PhaseState' /\ GroupState'
  BY <1>1 DEF PhaseState, GroupState, Moving
<1>10. QED BY <1>2, <1>4, <1>5, <1>6, <1>7, <1>8, <1>9 DEF Inv

(* The size of a file that has been extended *)
LEMMA ExtendedFile ==
    ASSUME Inv, Extending, NEW p \in Position, Extended(p)
    PROVE  /\ file' \in FileStruct /\ call' \in Call /\ file'.filesize = call.target /\ file'.inUse /\ file'.append = file.append
           /\ file'.currentPosition = file.currentPosition
           /\ call.op = "write" => /\ file'.rwPosition = p /\ call'.phase = "partial" /\ call'.position = p /\ call'.op = "write"
                                   /\ call'.offset = call.offset /\ call'.len = call.len /\ call'.remain = call.remain
                                   /\ call'.appending = call.appending
           /\ call.op = "grow" => /\ file'.rwPosition = file.rwPosition /\ file'.appendPosition = p /\ file'.modified = TRUE
                                  /\ call' = NoCall
<1>1. CASE call.op = "write"
  <2>1. 0 \in Sizes
    BY FileAssumption DEF Sizes
  <2>2. /\ call' = [call EXCEPT !.phase = "partial", !.position = p, !.zeros = 0]
        /\ file' = [file EXCEPT !.rwPosition = p, !.filesize = call.target]
    BY <1>1 DEF Extended
  <2>3. /\ call' \in Call /\ call'.phase = "partial" /\ call'.position = p /\ call'.op = "write"
        /\ call'.offset = call.offset /\ call'.len = call.len /\ call'.remain = call.remain
        /\ call'.appending = call.appending
    BY <1>1, <2>1, <2>2, ExtendFacts DEF Call, Phases
  <2>4. /\ file' \in FileStruct /\ file'.filesize = call.target /\ file'.inUse = file.inUse /\ file'.append = file.append
        /\ file'.currentPosition = file.currentPosition /\ file'.rwPosition = p
    BY <2>2, ExtendFacts DEF FileStruct
  <2>5. QED BY <1>1, <2>3, <2>4, ExtendFacts
<1>2. CASE call.op = "grow"
  <2>1. call' = NoCall /\ file' = [file EXCEPT !.appendPosition = p, !.filesize = call.target, !.modified = TRUE]
    BY <1>2, ExtendFacts DEF Extended
  <2>2. /\ file' \in FileStruct /\ file'.filesize = call.target /\ file'.inUse = file.inUse /\ file'.append = file.append
        /\ file'.currentPosition = file.currentPosition /\ file'.rwPosition = file.rwPosition /\ file'.appendPosition = p
        /\ file'.modified = TRUE
    BY <2>1, ExtendFacts DEF FileStruct
  <2>3. QED BY <1>2, <2>1, <2>2, NoCallType, ExtendFacts
<1>3. QED BY <1>1, <1>2, ExtendFacts

(* Once the file is extended, its clusters are as many as it needs, and    *)
(* the position the extension has come to stands for its end               *)
LEMMA ExtendedInv ==
    ASSUME Inv, Extending, Grows(chain'), UNCHANGED entry, IoType', TransfersRight',
           NEW p \in Position, Extended(p), At(chain', p, call.target, Len(chain')),
           Tight(Len(chain'), file.filesize, call.target, 0)
    PROVE  Inv'
<1>1. FileTyped'
  <2>1. chain' \in Seq(Clusters) /\ \A i, j \in DOMAIN chain' : chain'[i] = chain'[j] => i = j
    BY DEF Grows, IsChain
  <2>2. QED BY <2>1, ExtendFacts, ExtendedFile DEF FileTyped, IoType
<1>2. Len(chain') \in Nat /\ Len(chain') \in 1 .. Len(chain') /\ chain' # <<>> /\ call.target <= Len(chain') * BytesPerCluster
  <2>1. Len(chain') \in Nat /\ Len(chain') >= 1 /\ call.target <= Len(chain') * BytesPerCluster
    BY AtType DEF Grows
  <2>2. QED BY <2>1
<1>3. Filled(Len(chain'), call.target)
  <2>1. call.target >= file.filesize /\ call.target >= call.target
    BY ExtendFacts
  <2>2. QED BY <1>2, <2>1, ExtendFacts, TightFilled
<1>4. Somewhere(chain', p, call.target)
  BY <1>2 DEF Somewhere
<1>5. CASE call.op = "write"
  <2>1. /\ ~file.append /\ call.target = call.offset /\ call.remain = call.len /\ call.len > 0
        /\ call.offset = file.currentPosition /\ call.offset + call.len <= FILE_MAX_SIZE /\ "write" \in PlainCalls /\ ~IoErrors
    BY <1>5 DEF Inv, ExtendState, TransferState, CallState
  <2>2. call.offset \in Nat /\ call.len \in Nat
    BY Types DEF Inv
  <2>3. ReadSetting' /\ SettledState' /\ ClosedState'
    BY <1>5, ExtendFacts, ExtendedFile DEF ReadSetting, Calls, SettledState, ClosedState
  <2>4. OpenState'
    <3>1. ~(call.target > call.target)
      BY <2>1, <2>2
    <3>2. QED BY <1>5, <2>1, <3>1, ExtendedFile DEF OpenState
  <2>5. CallState'
    BY <1>2, <1>5, <2>1, ExtendFacts, ExtendedFile DEF CallState, Moving
  <2>6. TransferState'
    <3>1. call.remain <= call.len /\ call.offset <= call.target /\ call.offset + call.len >= call.target
      BY <2>1, <2>2
    <3>2. QED BY <1>5, <2>1, <3>1, ExtendedFile DEF TransferState
  <2>7. Offset' = call.target
    BY <1>5, <2>1, <2>2, ExtendedFile DEF Offset
  <2>8. PhaseState'
    <3>1. Tight(Len(chain'), call.target, call.target, call.remain)
      BY <1>3, FilledTight
    <3>2. QED BY <1>4, <1>5, <2>1, <2>7, <3>1, ExtendedFile DEF PhaseState
  <2>9. ExtendState' /\ GroupState'
    BY <1>5, ExtendedFile DEF ExtendState, GroupState, Extending
  <2>10. QED BY <1>1, <2>3, <2>4, <2>5, <2>6, <2>8, <2>9 DEF Inv
<1>6. CASE call.op = "grow"
  <2>1. file.append /\ call'.phase = "none" /\ call'.op = "none"
    BY <1>6, ExtendFacts, ExtendedFile, NoCallType
  <2>2. Settled'
    <3>1. EntrySettled'
      BY <1>6, ExtendFacts, ExtendedFile DEF EntrySettled
    <3>2. QED BY <1>3, <1>4, <1>6, <2>1, <3>1, ExtendedFile DEF Settled, AppendSettled
  <2>3. ClosedState'
    BY ExtendedFile DEF ClosedState
  <2>4. OpenState'
    <3>1. file.currentPosition = 0 /\ At(chain, file.rwPosition, 0, 1)
      BY <2>1, ExtendFacts DEF Inv, OpenState
    <3>2. At(chain', file.rwPosition, 0, 1)
      BY <3>1, AtGrown, ExtendFacts
    <3>3. ~(0 > call.target)
      BY ExtendFacts
    <3>4. QED BY <1>6, <3>1, <3>2, <3>3, ExtendFacts, ExtendedFile DEF OpenState
  <2>5. QED BY <1>1, <2>1, <2>2, <2>3, <2>4, ReadyStep
<1>7. QED BY <1>5, <1>6, ExtendFacts

(* The volume has room for what is to be extended *)
LEMMA ExtendFailsInv ==
    ASSUME Inv, LostState, ExtendFails
    PROVE  Inv'
<1> DEFINE n == Len(chain)
           C == BytesPerCluster
<1>1. Extending /\ Clusters \subseteq Chained
  <2>1. Extending /\ Clusters \subseteq Taken
    BY DEF ExtendFails, Extending, NoNextCluster, NoFreeCluster
  <2>2. QED BY <2>1, ExtendFacts, NothingLost
<1>2. n \in Nat /\ n >= LastCluster - 1 /\ n >= 1
  BY <1>1, ExtendFacts, FullChain
<1>3. call.target <= n * C
  <2>1. call.target <= MaxExtend /\ MaxExtend <= (LastCluster - 1) * C /\ call.target \in Nat /\ MaxExtend \in Nat
    BY <1>1, ExtendFacts, FileAssumption DEF Exact
  <2>2. (LastCluster - 1) * C <= n * C /\ (LastCluster - 1) * C \in Int /\ n * C \in Int
    <3>1. LastCluster - 1 \in Int
      BY FileAssumption
    <3>2. QED BY <1>2, <3>1, PositiveSizes, ProductGrows
  <2>3. QED BY <2>1, <2>2
<1>4. file.filesize < n * C /\ n * C \in Int
  <2>1. n * C \in Int
    BY <1>2, PositiveSizes, ProductGrows
  <2>2. QED BY <1>1, <1>3, <2>1, ExtendFacts
<1>5. CASE call.phase = "extend"
  <2>1. file.filesize > 0 /\ file.filesize % C = 0
    BY <1>5 DEF ExtendFails
  <2>2. Fits(n, file.filesize)
    BY <1>1, <1>5, <2>1 DEF Inv, ExtendState
  <2>3. PICK size \in Nat : size = file.filesize
    BY <1>1, ExtendFacts
  <2>4. size \div C \in Nat /\ size = (size \div C) * C + 0
    <3>1. size % C = 0
      BY <2>1, <2>3
    <3>2. size \in Int /\ 0 <= size /\ C \in Nat \ {0}
      BY PositiveSizes
    <3> HIDE DEF C
    <3>3. size \div C \in Int /\ 0 <= size \div C /\ size = (size \div C) * C + (size % C)
      BY <3>2, Division
    <3>4. QED BY <3>1, <3>3
  <2>5. 0 \in 0 .. C - 1
    BY PositiveSizes
  <2>6. size \div C = n
    BY <1>2, <2>2, <2>3, <2>4, <2>5, FitsExactly
  <2>7. size = n * C
    BY <1>4, <2>4, <2>6
  <2>8. QED BY <1>4, <2>3, <2>7
<1>6. CASE call.phase = "zero"
  <2>1. call.zeros > 0 /\ call.position.sector = SectorsPerCluster
    BY <1>6 DEF ExtendFails, NoNextCluster
  <2>2. At(chain, call.position, call.target - call.zeros, n)
    BY <1>1, <1>6 DEF Inv, ExtendState
  <2>3. call.target - call.zeros = n * C
    BY <1>1, <2>1, <2>2, AtType, ExtendFacts
  <2>4. call.target \in Nat /\ call.zeros \in Nat
    BY <1>1, ExtendFacts
  <2>5. QED BY <1>3, <1>4, <2>1, <2>3, <2>4
<1>7. QED BY <1>1, <1>5, <1>6 DEF Extending

(* A sector is cleared, or the rest *)
LEMMA ClearSectorsInv ==
    ASSUME Inv, ClearSectors
    PROVE  Inv'
<1> DEFINE z == call.zeros
           o == call.target - z
           n == Len(chain)
           B == BytesPerSector
<1>1. call.phase = "zero" /\ entry' = entry /\ Extending
  BY DEF ClearSectors, Extending
<1>2. PICK p \in Position :
         /\ CheckPosition(call.position, z, p)
         /\ IF z >= B
            THEN /\ Clear(p, B)
                 /\ call' = [call EXCEPT !.zeros = z - B, !.position = [p EXCEPT !.sector = p.sector + 1]]
                 /\ UNCHANGED file
            ELSE /\ IF z > 0 THEN Clear([p EXCEPT !.byte = 0], z) ELSE io' = NoIo
                 /\ Extended(IF z > 0 THEN [p EXCEPT !.byte = z] ELSE p)
  BY DEF ClearSectors
<1>3. /\ IsChain(chain) /\ n \in Nat /\ call.position \in Position /\ z \in Nat /\ z \in Sizes /\ call.target \in Nat
      /\ file.filesize \in Nat /\ call \in Call
  BY <1>1, ExtendFacts
<1>4. At(chain, call.position, o, n) /\ call.position.byte = 0 /\ Tight(n, file.filesize, o, z)
  BY <1>1 DEF Inv, ExtendState
<1>5. o \in Nat
  BY <1>3, <1>4, AtType
<1>6. /\ Grows(chain') /\ (z > 0 => p.sector < SectorsPerCluster)
      /\ \/ p = call.position /\ chain' = chain /\ At(chain', p, o, n)
         \/ p.byte = 0 /\ At(chain', p, o, n + 1) /\ (chain' = chain \/ Len(chain') = n + 1)
  BY <1>2, <1>3, <1>4, Checked
<1>7. At(chain', p, o, Len(chain')) /\ p.byte = 0
  <2>1. ASSUME At(chain', p, o, n + 1), chain' = chain PROVE FALSE
    BY <1>3, <2>1, AtType
  <2>2. QED BY <1>4, <1>6, <2>1
<1>8. Tight(Len(chain'), file.filesize, o, z) /\ Len(chain') \in Nat /\ IsChain(chain')
  BY <1>2, <1>3, <1>4, <1>6, CheckedTight, ChainType DEF Grows
<1>9. p.sector \in 0 .. SectorsPerCluster /\ B \in Nat \ {0}
  BY <1>2, PositionFields, PositiveSizes
<1>10. CASE z >= B
  <2> DEFINE t == p.sector + 1
             q == [p EXCEPT !.sector = t]
  <2>1. p.sector < SectorsPerCluster /\ t \in 0 .. SectorsPerCluster /\ z - B \in Sizes /\ z - B <= z /\ z - B \in Nat
    <3>1. z > 0
      BY <1>3, <1>9, <1>10
    <3>2. PICK y \in Nat : y = p.sector
      BY <1>9
    <3>3. y < SectorsPerCluster
      BY <1>6, <3>1, <3>2
    <3>4. y + 1 \in 0 .. SectorsPerCluster
      BY <3>3, PositiveSizes
    <3>5. z - B \in Sizes /\ z - B <= z /\ z - B \in Nat
      <4> HIDE DEF z, B
      <4>1. QED BY <1>3, <1>9, <1>10, FileAssumption DEF Sizes
    <3>6. QED BY <3>2, <3>3, <3>4, <3>5
  <2>2. io' = [write |-> TRUE, offset |-> o, address |-> Address(p.cluster, p.sector, p.byte), size |-> B, erase |-> FALSE]
    BY <1>2, <1>10 DEF Clear
  <2>3. IoType' /\ TransfersRight'
    <3>1. p.byte + B <= B
      BY <1>7, <1>9
    <3>2. QED BY <1>1, <1>7, <1>8, <1>9, <2>1, <2>2, <3>1, Cleared
  <2>4. call' = [call EXCEPT !.zeros = z - B, !.position = q] /\ UNCHANGED <<entry, file>>
    BY <1>1, <1>2, <1>10
  <2> HIDE DEF t
  <2>5. q \in Position /\ q.sector = t /\ q.byte = p.byte /\ q.cluster = p.cluster
    BY <1>2, <2>1 DEF Position
  <2> HIDE DEF q
  <2>6. call' = [call EXCEPT !.phase = "zero", !.zeros = z - B, !.position = q]
    BY <1>1, <1>3, <2>4 DEF Call
  <2>7. At(chain', q, o + B, Len(chain'))
    <3>1. p.sector + 1 <= SectorsPerCluster /\ 1 * B = B /\ 1 \in Nat
      BY <1>9, <2>1 DEF t
    <3>2. q.sector = p.sector + 1
      BY <2>5 DEF t
    <3>3. At(chain', q, o + 1 * B, Len(chain'))
      BY <1>7, <1>8, <2>5, <3>1, <3>2, AtSectors
    <3>4. QED BY <3>1, <3>3
  <2>8. o + B = call.target - (z - B)
    BY <1>3, <1>9
  <2>9. Tight(Len(chain'), file.filesize, o + B, z - B)
    <3> DEFINE o2 == o + B
               z2 == z - B
    <3>1. o2 \in Nat /\ z2 \in Nat /\ o <= o2 /\ o2 # o
      BY <1>5, <1>9, <2>1
    <3> HIDE DEF o2, z2, o
    <3>2. Tight(Len(chain'), file.filesize, o2, z2)
      BY <1>3, <1>5, <1>8, <3>1, TightOn
    <3>3. QED BY <3>2 DEF o2, z2, o
  <2>10. QED BY <1>1, <1>6, <1>7, <2>1, <2>3, <2>4, <2>5, <2>6, <2>7, <2>8, <2>9, ZeroStep
<1>11. CASE z < B /\ z > 0
  <2> DEFINE q == [p EXCEPT !.byte = z]
  <2>1. [p EXCEPT !.byte = 0] = p
    BY <1>2, <1>7 DEF Position
  <2>2. Clear(p, z) /\ Extended(q)
    BY <1>2, <1>3, <1>9, <1>11, <2>1
  <2>3. io' = [write |-> TRUE, offset |-> o, address |-> Address(p.cluster, p.sector, p.byte), size |-> z, erase |-> FALSE]
    BY <2>2 DEF Clear
  <2>4. IoType' /\ TransfersRight'
    <3>1. p.byte + z <= B
      BY <1>3, <1>7, <1>9, <1>11
    <3>2. QED BY <1>1, <1>3, <1>6, <1>7, <1>8, <1>11, <2>3, <3>1, Cleared
  <2>5. z \in 0 .. B
    BY <1>3, <1>9, <1>11
  <2>6. q \in Position /\ q.sector = p.sector /\ q.byte = z /\ q.cluster = p.cluster
    BY <1>2, <2>5 DEF Position
  <2> HIDE DEF q
  <2>7. At(chain', q, o + z, Len(chain'))
    <3>1. p.byte + z = z /\ p.byte + z < B /\ p.byte + z <= B /\ ~(p.byte + z >= B)
      BY <1>3, <1>7, <1>9, <1>11
    <3>2. QED BY <1>3, <1>6, <1>7, <1>8, <1>11, <2>6, <3>1, AtBytes
  <2>8. o + z = call.target
    BY <1>3
  <2>9. Tight(Len(chain'), file.filesize, call.target, 0)
    <3>1. o <= call.target /\ o # call.target /\ 0 \in Nat
      BY <1>3, <1>11
    <3> HIDE DEF o
    <3>2. QED BY <1>3, <1>5, <1>8, <3>1, TightOn
  <2>10. QED BY <1>1, <1>6, <2>2, <2>4, <2>6, <2>7, <2>8, <2>9, ExtendedInv
<1>12. CASE z = 0
  <2>1. io' = NoIo /\ Extended(p)
    BY <1>2, <1>9, <1>12
  <2>2. file'.filesize \in Nat
    BY <1>1, <1>2, <1>3, <2>1, ExtendedFile
  <2>3. IoType' /\ TransfersRight'
    BY <2>1, <2>2, NoTransfer DEF IoType
  <2>4. o = call.target
    BY <1>3, <1>12
  <2>5. QED BY <1>1, <1>2, <1>6, <1>7, <1>8, <1>12, <2>1, <2>3, <2>4, ExtendedInv
<1>13. QED BY <1>3, <1>9, <1>10, <1>11, <1>12

(* Where the file is extended from: the end of it, in a cluster that is    *)
(* linked if the last one is full                                          *)
ExtendFrom == [EndPosition(LastOfChain, file.filesize) EXCEPT !.sector = @ % SectorsPerCluster]

(* r is the cluster of that end: a new one if the last is full *)
LinkedFrom(e, r) ==
    IF file.filesize > 0 /\ e.sector = 0 /\ e.byte = 0
    THEN LinkFreeCluster(e.cluster, r) ELSE r = e.cluster /\ UNCHANGED chain

(* It stands for the end of the file *)
LEMMA ExtendPosition ==
    ASSUME Inv, call.phase = "extend", NEW e, NEW r \in Clusters, e = ExtendFrom, LinkedFrom(e, r)
    PROVE  /\ [e EXCEPT !.cluster = r] \in Position /\ [e EXCEPT !.cluster = r].sector < SectorsPerCluster
           /\ Grows(chain') /\ At(chain', [e EXCEPT !.cluster = r], file.filesize, Len(chain'))
           /\ Tight(Len(chain'), file.filesize, file.filesize, call.zeros)
<1> DEFINE C == BytesPerCluster
           B == BytesPerSector
           S == SectorsPerCluster
           n == Len(chain)
           last == chain[n]
           d == file.filesize % C
           t == d \div B
           b == file.filesize % B
           q == file.filesize \div C
           p == [cluster |-> r, sector |-> t, byte |-> b]
<1>1. Extending /\ call.zeros = call.target - file.filesize
  BY DEF Inv, ExtendState, Extending
<1>2. /\ IsChain(chain) /\ n \in Nat /\ n >= 1 /\ chain # <<>> /\ file.filesize \in Nat /\ call.zeros > 0 /\ call.zeros \in Nat
      /\ Fits(n, file.filesize) \/ (file.filesize = 0 /\ n = 1)
  <2>1. Fits(n, file.filesize) \/ (file.filesize = 0 /\ n = 1)
    BY <1>1 DEF Inv, ExtendState
  <2>2. file.filesize < call.target /\ file.filesize \in Nat /\ call.target \in Nat
    BY <1>1, ExtendFacts
  <2>3. call.zeros > 0
    BY <1>1, <2>2
  <2>4. QED BY <1>1, <2>1, <2>3, ExtendFacts
<1>3. LastOfChain = last /\ n \in 1 .. n
  BY <1>2 DEF LastOfChain
<1>4. q \in Nat /\ t \in 0 .. S - 1 /\ b \in 0 .. B - 1 /\ d = t * B + b /\ file.filesize = q * C + t * B + b
  BY <1>2, SplitOffset
<1>5. C \in Nat \ {0} /\ B \in Nat \ {0} /\ S \in Nat \ {0}
  BY PositiveSizes
<1>6. d \in 0 .. C - 1 /\ file.filesize = q * C + d
  <2>1. file.filesize \in Int
    BY <1>2
  <2> HIDE DEF C
  <2>2. QED BY <1>5, <2>1, Division
<1>7. d = 0 => t = 0 /\ b = 0
  <2> HIDE DEF d, t, b, B
  <2>1. t \in Int /\ 0 <= t
    BY <1>4, <1>5
  <2>2. t * B \in Int /\ 0 <= t * B
    BY <1>5, <2>1, ProductGrows
  <2>3. 0 < t => 0 * B + B <= t * B
    BY <1>5, <2>1, ProductGrows
  <2>4. QED BY <1>4, <1>5, <2>1, <2>2, <2>3
<1>a. t = 0 /\ b = 0 => d = 0
  <2> HIDE DEF d, t, b, B
  <2>1. QED BY <1>4, <1>5
<1>8. e = [cluster |-> last, sector |-> t, byte |-> b]
  <2>1. S % S = 0
    <3> HIDE DEF S
    <3>1. S = 1 * S + 0 /\ 0 \in 0 .. S - 1 /\ 1 \in Int /\ S \in Int
      BY <1>5
    <3>2. QED BY <1>5, <3>1, DivisionUnique
  <2>2. t % S = t
    <3> HIDE DEF S, t
    <3>1. t = 0 * S + t /\ t \in 0 .. S - 1 /\ 0 \in Int /\ t \in Int
      BY <1>4, <1>5
    <3>2. QED BY <1>5, <3>1, DivisionUnique
  <2>3. EndPosition(LastOfChain, file.filesize) =
            [cluster |-> last, sector |-> IF file.filesize > 0 /\ d = 0 THEN S ELSE t, byte |-> b]
    BY <1>3 DEF EndPosition
  <2> DEFINE s == IF file.filesize > 0 /\ d = 0 THEN S ELSE t
  <2>4. s % S = t
    BY <1>7, <2>1, <2>2
  <2> HIDE DEF s, t, b, d
  <2>5. e = [cluster |-> last, sector |-> s % S, byte |-> b]
    BY <2>3 DEF s, ExtendFrom
  <2>6. QED BY <2>4, <2>5
<1>9. [e EXCEPT !.cluster = r] = p
  <2> HIDE DEF t, b, last
  <2>1. QED BY <1>8
<1>10. e.sector = t /\ e.byte = b /\ e.cluster = last
  BY <1>8
<1>11. p.cluster = r /\ p.sector = t /\ p.byte = b
  OBVIOUS
<1> HIDE DEF q, d, t, b
<1>12. p \in Position /\ p.sector < S
  <2>1. t \in 0 .. S /\ b \in 0 .. B /\ t < S
    BY <1>4, <1>5
  <2>2. QED BY <2>1 DEF Position
<1> HIDE DEF p
<1>13. CASE file.filesize > 0 /\ d = 0
  <2>1. LinkFreeCluster(last, r)
    BY <1>7, <1>10, <1>13 DEF LinkedFrom
  <2>2. Grows(chain') /\ r = chain'[n + 1] /\ Len(chain') = n + 1 /\ IsChain(chain')
    BY <1>2, <1>3, <2>1, Linked DEF Grows
  <2>3. Fits(n, file.filesize)
    BY <1>2, <1>13
  <2>4. q = n
    BY <1>2, <1>4, <1>6, <1>13, <2>3, FitsExactly
  <2>5. n * C \in Int /\ (n + 1) * C = n * C + C /\ (n + 1) - 1 = n /\ n + 1 \in 1 .. n + 1
    BY <1>2, <1>5, ProductGrows
  <2>6. file.filesize = n * C
    BY <1>6, <1>13, <2>4, <2>5
  <2>7. file.filesize = n * C + p.sector * B + p.byte
    BY <1>5, <1>7, <1>11, <1>13, <2>5, <2>6
  <2>8. p.sector \in 0 .. S /\ p.byte \in 0 .. B - 1 /\ p.sector # S
    BY <1>5, <1>7, <1>11, <1>13
  <2>9. At(chain', p, file.filesize, n + 1)
    BY <1>11, <2>2, <2>5, <2>7, <2>8 DEF At
  <2>10. Tight(n + 1, file.filesize, file.filesize, call.zeros)
    BY <1>2, <1>5, <2>5, <2>6 DEF Tight
  <2>11. QED BY <1>9, <1>12, <2>2, <2>9, <2>10
<1>14. CASE ~(file.filesize > 0 /\ d = 0)
  <2>1. r = last /\ chain' = chain
    BY <1>10, <1>14, <1>a DEF LinkedFrom
  <2>2. Grows(chain')
    BY <1>2, <2>1 DEF Grows
  <2>3. CASE file.filesize = 0
    <3>1. n = 1
      <4>1. ASSUME Fits(n, 0) PROVE FALSE
        <5>1. (n - 1) * C < 0 /\ n - 1 \in Int /\ 0 <= n - 1
          BY <1>2, <4>1 DEF Fits
        <5>2. 0 <= (n - 1) * C /\ (n - 1) * C \in Int
          BY <1>5, <5>1, ProductGrows
        <5>3. QED BY <5>1, <5>2
      <4>2. QED BY <1>2, <2>3, <4>1
    <3>2. t = 0 /\ b = 0
      <4>1. q * C \in Int /\ 0 <= q * C
        BY <1>4, <1>5, ProductGrows
      <4>2. d = 0
        BY <1>6, <2>3, <4>1
      <4>3. QED BY <1>7, <4>2
    <3>3. p.cluster = chain[1] /\ p.sector = 0 /\ p.byte = 0 /\ 1 \in 1 .. 1
      BY <1>11, <2>1, <3>1, <3>2
    <3>4. 0 = (1 - 1) * C + 0 * B + 0 /\ 0 \in 0 .. S /\ 0 \in 0 .. B - 1 /\ 0 # S
      BY <1>5
    <3>5. At(chain', p, file.filesize, n)
      BY <2>1, <2>3, <3>1, <3>3, <3>4 DEF At
    <3>6. (1 - 1) * C = 0 /\ 0 <= 1 * C
      BY <1>5
    <3>7. Tight(n, file.filesize, file.filesize, call.zeros)
      BY <1>2, <2>3, <3>1, <3>6 DEF Tight
    <3>8. QED BY <1>9, <1>12, <2>1, <2>2, <3>5, <3>7
  <2>4. CASE file.filesize > 0
    <3>1. Fits(n, file.filesize)
      BY <1>2, <2>4
    <3>2. d # 0 /\ n > 0
      BY <1>2, <1>14, <2>4
    <3>3. At(chain, EndPosition(last, file.filesize), file.filesize, n)
      BY <1>2, <3>1, <3>2, EndPositionAt
    <3>4. EndPosition(last, file.filesize) = p
      BY <2>1, <3>2 DEF EndPosition, p, t, d, b
    <3>5. Tight(n, file.filesize, file.filesize, call.zeros)
      BY <3>1, FilledTight DEF Fits, Filled
    <3>6. QED BY <1>9, <1>12, <2>1, <2>2, <3>3, <3>4, <3>5
  <2>5. QED BY <1>2, <2>3, <2>4
<1>15. QED BY <1>13, <1>14

(* The extension begins: up to the end of a sector *)
LEMMA StartExtendInv ==
    ASSUME Inv, StartExtend
    PROVE  Inv'
<1> DEFINE z == call.zeros
           o == call.target - z
           size == file.filesize
           B == BytesPerSector
           e == ExtendFrom
<1>1. call.phase = "extend" /\ entry' = entry /\ Extending
  BY DEF StartExtend, Extending
<1>2. PICK r \in Clusters :
         /\ LinkedFrom(e, r)
         /\ LET p == [e EXCEPT !.cluster = r]
                n == Lesser(z, B - p.byte)
            IN  IF z + p.byte < B
                THEN Clear(p, n) /\ Extended([p EXCEPT !.byte = p.byte + n])
                ELSE /\ UNCHANGED file
                     /\ IF p.byte > 0
                        THEN /\ Clear(p, n)
                             /\ call' = [call EXCEPT !.phase = "zero", !.zeros = z - n,
                                            !.position = [p EXCEPT !.byte = 0, !.sector = p.sector + 1]]
                        ELSE /\ io' = NoIo
                             /\ call' = [call EXCEPT !.phase = "zero", !.position = p]
  BY DEF StartExtend, ExtendFrom, LinkedFrom
<1> DEFINE p == [e EXCEPT !.cluster = r]
           n == Lesser(z, B - p.byte)
<1>3. /\ p \in Position /\ p.sector < SectorsPerCluster /\ Grows(chain') /\ At(chain', p, size, Len(chain'))
      /\ Tight(Len(chain'), size, size, z)
  BY <1>1, <1>2, ExtendPosition
<1>4. /\ z + p.byte < B => Clear(p, n) /\ Extended([p EXCEPT !.byte = p.byte + n])
      /\ ~(z + p.byte < B) =>
           /\ UNCHANGED file
           /\ p.byte > 0 => /\ Clear(p, n)
                            /\ call' = [call EXCEPT !.phase = "zero", !.zeros = z - n,
                                            !.position = [p EXCEPT !.byte = 0, !.sector = p.sector + 1]]
           /\ ~(p.byte > 0) => io' = NoIo /\ call' = [call EXCEPT !.phase = "zero", !.position = p]
  BY <1>2
<1> HIDE DEF p
<1>5. /\ z \in Nat /\ z \in Sizes /\ call.target \in Nat /\ size \in Nat /\ call \in Call /\ o = size /\ z > 0
      /\ IsChain(chain') /\ Len(chain') \in Nat
  <2>1. z = call.target - size /\ size < call.target
    BY <1>1 DEF Inv, ExtendState
  <2>2. z \in Nat /\ z \in Sizes /\ call.target \in Nat /\ size \in Nat /\ call \in Call
    BY <1>1, ExtendFacts
  <2>3. QED BY <1>3, <2>1, <2>2, ChainType DEF Grows
<1>6. B \in Nat \ {0} /\ SectorsPerCluster \in Nat \ {0}
  BY PositiveSizes
<1>7. PICK b \in Nat : b = p.byte /\ b < B
  BY <1>3, <1>5, AtType
<1>8. PICK t \in Nat : t = p.sector /\ t < SectorsPerCluster
  BY <1>3, <1>5, AtType
<1>9. PICK m \in Nat : m = n /\ b + m <= B /\ m <= z /\ (z + b < B => m = z) /\ (~(z + b < B) => b + m = B)
  <2>1. n = IF z < B - b THEN z ELSE B - b
    BY <1>7 DEF Lesser
  <2> HIDE DEF n, z, B
  <2>2. n \in Nat /\ b + n <= B /\ n <= z /\ (z + b < B => n = z) /\ (~(z + b < B) => b + n = B)
    BY <1>5, <1>6, <1>7, <2>1
  <2>3. QED BY <2>2
<1>10. ASSUME Clear(p, n) PROVE IoType' /\ TransfersRight'
  <2>1. io' = [write |-> TRUE, offset |-> o, address |-> Address(p.cluster, p.sector, p.byte), size |-> m, erase |-> FALSE]
    BY <1>9, <1>10 DEF Clear
  <2>2. p.byte + m <= B
    BY <1>7, <1>9
  <2>3. QED BY <1>1, <1>3, <1>5, <1>9, <2>1, <2>2, Cleared
<1> HIDE DEF n
<1>11. CASE z + p.byte < B
  <2> DEFINE x == b + m
             q == [p EXCEPT !.byte = x]
  <2>1. Clear(p, n) /\ Extended(q)
    BY <1>4, <1>7, <1>9, <1>11
  <2>2. m = z /\ x < B /\ x \in 0 .. B
    BY <1>5, <1>6, <1>7, <1>9, <1>11
  <2> HIDE DEF x
  <2>3. q \in Position /\ q.sector = p.sector /\ q.byte = x /\ q.cluster = p.cluster
    BY <1>3, <2>2 DEF Position
  <2> HIDE DEF q
  <2>4. At(chain', q, size + m, Len(chain'))
    <3>1. p.byte + m = x /\ x <= B /\ ~(x >= B)
      BY <1>6, <1>7, <1>9, <2>2 DEF x
    <3>2. QED BY <1>3, <1>5, <1>9, <2>2, <2>3, <3>1, AtBytes
  <2>5. size + m = call.target
    BY <1>5, <2>2
  <2>6. Tight(Len(chain'), size, call.target, 0)
    <3>1. size <= call.target /\ size # call.target /\ 0 \in Nat
      BY <1>5
    <3>2. QED BY <1>3, <1>5, <3>1, TightOn
  <2>7. QED BY <1>1, <1>3, <1>10, <2>1, <2>3, <2>4, <2>5, <2>6, ExtendedInv
<1>12. CASE ~(z + p.byte < B) /\ p.byte > 0
  <2> DEFINE y == t + 1
             q == [p EXCEPT !.byte = 0, !.sector = y]
             z2 == z - m
  <2>1. Clear(p, n) /\ call' = [call EXCEPT !.phase = "zero", !.zeros = z2, !.position = q] /\ UNCHANGED file
    BY <1>4, <1>8, <1>9, <1>12
  <2>2. b + m = B /\ z2 \in Nat /\ z2 \in Sizes /\ z2 <= z /\ y \in 0 .. SectorsPerCluster /\ 0 \in 0 .. B
    <3>1. b + m = B
      BY <1>7, <1>9, <1>12
    <3>2. z2 \in Nat /\ z2 <= z
      BY <1>5, <1>9
    <3>3. z2 \in Sizes
      <4> HIDE DEF z2, z
      <4>1. QED BY <1>5, <3>2, FileAssumption DEF Sizes
    <3>4. y \in 0 .. SectorsPerCluster /\ 0 \in 0 .. B
      BY <1>6, <1>8
    <3>5. QED BY <3>1, <3>2, <3>3, <3>4
  <2>3. size + m = call.target - z2 /\ m > 0
    BY <1>5, <1>6, <1>7, <1>9, <2>2, SMTT(40)
  <2> HIDE DEF y, z2
  <2>4. q \in Position /\ q.sector = y /\ q.byte = 0 /\ q.cluster = p.cluster
    BY <1>3, <2>2 DEF Position
  <2> HIDE DEF q
  <2>5. At(chain', q, size + m, Len(chain'))
    <3>1. p.byte + m = B /\ p.byte + m <= B /\ ~(p.byte + m < B) /\ q.sector = p.sector + 1
      BY <1>6, <1>7, <1>8, <2>2, <2>4 DEF y
    <3>2. QED BY <1>3, <1>5, <1>9, <2>4, <3>1, AtBytes
  <2>6. Tight(Len(chain'), size, size + m, z2)
    <3> DEFINE o2 == size + m
    <3>1. o2 \in Nat /\ size <= o2 /\ o2 # size
      BY <1>5, <1>9, <2>3, SMTT(40)
    <3> HIDE DEF o2
    <3>2. Tight(Len(chain'), size, o2, z2)
      BY <1>3, <1>5, <2>2, <3>1, TightOn
    <3>3. QED BY <3>2 DEF o2
  <2>7. QED BY <1>1, <1>3, <1>10, <2>1, <2>2, <2>3, <2>4, <2>5, <2>6, ZeroStep
<1>13. CASE ~(z + p.byte < B) /\ ~(p.byte > 0)
  <2>1. io' = NoIo /\ call' = [call EXCEPT !.phase = "zero", !.position = p] /\ UNCHANGED file
    BY <1>4, <1>13
  <2>2. call' = [call EXCEPT !.phase = "zero", !.zeros = z, !.position = p]
    BY <1>5, <2>1 DEF Call
  <2>3. IoType' /\ TransfersRight'
    BY <1>5, <2>1, NoTransfer DEF IoType
  <2>4. p.byte = 0 /\ z <= z
    BY <1>5, <1>7, <1>13
  <2>5. QED BY <1>1, <1>3, <1>5, <2>1, <2>2, <2>3, <2>4, ZeroStep
<1>14. QED BY <1>11, <1>12, <1>13

-----------------------------------------------------------------------------
(* ftruncate to a smaller size, and seek *)

(* The first clusters of a chain *)
LEMMA ShortChain ==
    ASSUME NEW ch, IsChain(ch), NEW m \in 0 .. Len(ch)
    PROVE  /\ IsChain(SubSeq(ch, 1, m)) /\ Len(SubSeq(ch, 1, m)) = m
           /\ \A i \in 1 .. m : SubSeq(ch, 1, m)[i] = ch[i]
<1>1. ch \in Seq(Clusters) /\ Len(ch) \in Nat
  BY DEF IsChain
<1>2. SubSeq(ch, 1, m) \in Seq(Clusters) /\ Len(SubSeq(ch, 1, m)) = m /\ \A i \in 1 .. m : SubSeq(ch, 1, m)[i] = ch[i]
  BY <1>1
<1>3. \A i \in 1 .. m : i \in 1 .. Len(ch)
  BY <1>1
<1>4. \A i, j \in 1 .. m : SubSeq(ch, 1, m)[i] = SubSeq(ch, 1, m)[j] => i = j
  BY <1>2, <1>3 DEF IsChain
<1>5. QED BY <1>2, <1>4 DEF IsChain

(* ftruncate leaves the clusters for the new size *)
LEMMA ChainLengthFits ==
    ASSUME NEW size \in Nat
    PROVE  ChainLength(size) \in Nat /\ Fits(ChainLength(size), size)
<1> DEFINE C == BytesPerCluster
<1>0. C \in Nat \ {0}
  BY PositiveSizes
<1>1. CASE size = 0
  <2>1. (0 - 1) * C < 0 /\ 0 <= 0 * C /\ 0 \in Nat
    BY <1>0
  <2>2. QED BY <1>1, <2>1 DEF ChainLength, Fits
<1>2. CASE size # 0
  <2> DEFINE x == size - 1
             q == x \div C
  <2>1. ChainLength(size) = q + 1
    BY <1>2 DEF ChainLength
  <2> HIDE DEF C
  <2>2. x \in Int /\ 0 <= x
    BY <1>2
  <2> HIDE DEF x
  <2>3. q \in Int /\ 0 <= q /\ x % C \in 0 .. C - 1 /\ x = q * C + (x % C)
    BY <1>0, <2>2, Division
  <2> HIDE DEF q
  <2>4. q * C \in Int /\ (q + 1) * C = q * C + C /\ (q + 1) - 1 = q
    BY <1>0, <2>3, ProductGrows
  <2>5. size = x + 1
    BY DEF x
  <2>6. q * C < size /\ size <= (q + 1) * C
    BY <1>0, <2>3, <2>4, <2>5
  <2>7. q + 1 \in Nat
    BY <2>3
  <2>8. QED BY <2>1, <2>4, <2>6, <2>7 DEF Fits, C
<1>3. QED BY <1>1, <1>2

(* A smaller size does not need more clusters *)
LEMMA FitsMonotonic ==
    ASSUME NEW m \in Nat, NEW n \in Nat, NEW a \in Nat, NEW b \in Nat, Fits(m, a), Fits(n, b), a <= b
    PROVE  m <= n
<1> DEFINE C == BytesPerCluster
<1>1. C \in Nat \ {0} /\ (m - 1) * C < a /\ b <= n * C
  BY PositiveSizes DEF Fits
<1> HIDE DEF C
<1>2. m - 1 \in Int /\ (m - 1) * C \in Int /\ n * C \in Int
  BY <1>1, ProductGrows
<1>3. n <= m - 1 => n * C <= (m - 1) * C
  BY <1>1, <1>2, ProductGrows
<1>4. QED BY <1>1, <1>2, <1>3

(* The file and its chain are cut together *)
LEMMA ShrinkInv ==
    ASSUME Inv, NEW newSize \in Sizes, Shrink(newSize)
    PROVE  Inv'
<1> DEFINE size == file.filesize
           n == Len(chain)
           m == ChainLength(newSize)
           ap == IF newSize = size THEN file.appendPosition
                 ELSE IF newSize = 0 THEN PositionAt(CLUSTER_FREE)
                 ELSE EndPosition(LastOfChain', newSize)
<1>1. /\ Ready /\ Makes("shrink") /\ newSize <= size /\ io' = NoIo /\ UNCHANGED <<entry, call>>
      /\ chain' = IF newSize < size THEN SubSeq(chain, 1, Lesser(n, m)) ELSE chain
  BY DEF Shrink
<1>2. file.append /\ ~IoErrors
  <2>1. file.append /\ "shrink" \in AppendCalls
    BY <1>1, ReadyFacts DEF Makes, ReadSetting, Calls
  <2>2. Exact
    BY <2>1 DEF Inv, OpenState
  <2>3. QED BY <2>1, <2>2 DEF Exact
<1>3. file' = [file EXCEPT !.filesize = newSize, !.modified = TRUE, !.appendPosition = ap]
  BY <1>2 DEF Shrink
<1>4. /\ IsChain(chain) /\ n \in Nat /\ size \in Nat /\ newSize \in Nat /\ Fits(n, size) /\ file \in FileStruct
      /\ file.appendPosition \in Position /\ AppendSettled /\ file.currentPosition = 0
      /\ chain # <<>> => At(chain, file.rwPosition, 0, 1)
  BY <1>1, <1>2, ReadyFacts, FileAssumption DEF Sizes
<1>5. /\ IsChain(chain') /\ Len(chain') \in Nat /\ Fits(Len(chain'), newSize) /\ Len(chain') <= n
      /\ \A i \in 1 .. Len(chain') : chain'[i] = chain[i]
      /\ newSize = size => chain' = chain
  <2>1. CASE newSize < size
    <3>1. m \in Nat /\ Fits(m, newSize)
      BY <1>4, ChainLengthFits
    <3> HIDE DEF m, n, size
    <3>2. newSize <= size
      BY <1>4, <2>1
    <3>3. m <= n
      BY <1>4, <3>1, <3>2, FitsMonotonic DEF n, size
    <3>4. Lesser(n, m) = m /\ m \in 0 .. n
      BY <1>4, <3>1, <3>3 DEF Lesser
    <3>5. chain' = SubSeq(chain, 1, m)
      BY <1>1, <2>1, <3>4
    <3>6. IsChain(chain') /\ Len(chain') = m /\ \A i \in 1 .. m : chain'[i] = chain[i]
      BY <1>4, <3>4, <3>5, ShortChain DEF n
    <3>7. newSize # size
      BY <1>4, <2>1
    <3>8. QED BY <3>1, <3>3, <3>6, <3>7
  <2>2. CASE newSize = size
    <3>1. chain' = chain
      BY <1>1, <1>4, <2>2
    <3>2. QED BY <1>4, <2>2, <3>1
  <2>3. newSize < size \/ newSize = size
    <3>1. newSize <= size
      BY <1>1
    <3> HIDE DEF size
    <3>2. QED BY <1>4, <3>1
  <2>4. QED BY <2>1, <2>2, <2>3
<1>6. chain' # <<>> => Len(chain') >= 1 /\ Len(chain') > 0 /\ Len(chain') \in 1 .. Len(chain') /\ chain # <<>>
  <2>1. chain' # <<>> => Len(chain') # 0
    BY <1>5 DEF IsChain
  <2>2. chain = <<>> => n = 0
    OBVIOUS
  <2>3. QED BY <1>4, <1>5, <2>1, <2>2
<1>7. newSize = 0 => chain' = <<>>
  <2>1. ASSUME newSize = 0, chain' # <<>> PROVE FALSE
    <3>1. (Len(chain') - 1) * BytesPerCluster < 0 /\ Len(chain') - 1 \in Int /\ 0 <= Len(chain') - 1
      BY <1>5, <1>6, <2>1 DEF Fits
    <3>2. 0 <= (Len(chain') - 1) * BytesPerCluster /\ (Len(chain') - 1) * BytesPerCluster \in Int
      BY <3>1, PositiveSizes, ProductGrows
    <3>3. QED BY <3>1, <3>2
  <2>2. QED BY <2>1
<1>8. ap \in Position /\ (chain' # <<>> => Somewhere(chain', ap, newSize))
  <2>1. CASE newSize = size
    BY <1>4, <1>5, <2>1 DEF AppendSettled
  <2>2. CASE newSize # size /\ newSize = 0
    BY <1>7, <2>2, NoCallType
  <2>3. CASE newSize # size /\ newSize # 0
    <3>1. ap = EndPosition(LastOfChain', newSize)
      BY <2>3
    <3>2. CASE chain' = <<>>
      <4>1. LastOfChain' = CLUSTER_FREE
        BY <3>2 DEF LastOfChain
      <4>2. QED BY <1>4, <3>1, <3>2, <4>1, EndPositionType
    <3>3. CASE chain' # <<>>
      <4>1. LastOfChain' = chain'[Len(chain')] /\ chain'[Len(chain')] \in Clusters
        BY <1>5, <1>6, <3>3, ChainType DEF LastOfChain
      <4>2. At(chain', ap, newSize, Len(chain')) /\ ap \in Position
        BY <1>4, <1>5, <1>6, <3>1, <3>3, <4>1, EndPositionAt, EndPositionType
      <4>3. QED BY <1>6, <3>3, <4>2 DEF Somewhere
    <3>4. QED BY <3>2, <3>3
  <2>4. QED BY <2>1, <2>2, <2>3
<1> HIDE DEF ap
<1>9. /\ file' \in FileStruct /\ file'.filesize = newSize /\ file'.modified = TRUE /\ file'.appendPosition = ap
      /\ file'.append = file.append /\ file'.inUse = file.inUse /\ file'.currentPosition = file.currentPosition
      /\ file'.rwPosition = file.rwPosition
  BY <1>3, <1>4, <1>8 DEF FileStruct
<1>10. FileTyped' /\ TransfersRight'
  BY <1>1, <1>5, <1>9, ReadyFacts, QuietTypes
<1>11. Settled'
  BY <1>2, <1>5, <1>8, <1>9 DEF Settled, Filled, Fits, EntrySettled, AppendSettled
<1>12. ClosedState'
  BY <1>1, <1>9, ReadyFacts DEF ClosedState
<1>13. OpenState'
  <2>1. ASSUME chain' # <<>> PROVE At(chain', file.rwPosition, 0, 1)
    <3>1. At(chain, file.rwPosition, 0, 1) /\ 1 \in 1 .. Len(chain')
      BY <1>4, <1>5, <1>6, <2>1
    <3>2. chain'[1] = chain[1]
      BY <1>5, <3>1
    <3>3. QED BY <3>1, <3>2 DEF At
  <2>2. ~(0 > newSize)
    BY <1>4
  <2>3. QED BY <1>1, <1>2, <1>4, <1>9, <2>1, <2>2, ReadyFacts DEF OpenState
<1>14. QED BY <1>1, <1>10, <1>11, <1>12, <1>13, ReadyFacts, ReadyStep

(* The chain is followed from its k-th cluster *)
LEMMA FollowFound ==
    ASSUME IsChain(chain), NEW k \in 1 .. Len(chain), NEW n \in Nat
    PROVE  /\ k + n <= Len(chain) => Follow(chain[k], n).cluster = chain[k + n] /\ Follow(chain[k], n).left = 0
           /\ k + n > Len(chain) => /\ Follow(chain[k], n).cluster = chain[Len(chain)]
                                    /\ Follow(chain[k], n).left = n - (Len(chain) - k)
<1> DEFINE len == Len(chain)
           ahead == len - k
           m == IF n > 0 THEN Lesser(n, ahead) ELSE 0
<1>1. chain[k] \in Chained /\ IndexOf(chain[k]) = k /\ len \in Nat
  BY IndexFound, ChainType
<1>2. Follow(chain[k], n) = [cluster |-> IF m > 0 THEN chain[k + m] ELSE chain[k], left |-> n - m]
  BY <1>1 DEF Follow
<1>3. (k + n <= len => m = n) /\ (k + n > len => m = len - k)
  BY <1>1 DEF Lesser
<1>a. m \in Int /\ 0 <= m
  BY <1>1 DEF Lesser
<1> HIDE DEF m, len
<1>4. (IF m > 0 THEN chain[k + m] ELSE chain[k]) = chain[k + m]
  <2>1. ~(m > 0) => k + m = k
    BY <1>a
  <2>2. QED BY <2>1
<1>5. Follow(chain[k], n).cluster = chain[k + m] /\ Follow(chain[k], n).left = n - m
  BY <1>2, <1>4
<1>6. (k + n <= len => k + m = k + n /\ n - m = 0) /\ (k + n > len => k + m = len /\ n - m = n - (len - k))
  BY <1>1, <1>3
<1>7. QED BY <1>5, <1>6 DEF len

(* The code's count of the clusters before the current position is right,  *)
(* at the end of a cluster too                                             *)
LEMMA CurrentCountRight ==
    ASSUME IsChain(chain), NEW k, At(chain, file.rwPosition, file.currentPosition, k)
    PROVE  CurrentCount = k - 1
<1> DEFINE C == BytesPerCluster
           cp == file.currentPosition
           s == file.rwPosition.sector
<1>1. k \in Nat /\ k >= 1 /\ k \in 1 .. Len(chain) /\ C \in Nat \ {0} /\ cp \in Nat
  <2>1. k \in 1 .. Len(chain)
    BY DEF At
  <2>2. QED BY <2>1, AtType, PositiveSizes
<1>2. CASE s = SectorsPerCluster
  <2>1. cp = k * C
    BY <1>2, AtType
  <2>2. CurrentCount = cp \div C - 1
    BY <1>2 DEF CurrentCount
  <2> HIDE DEF C, cp
  <2>3. k * C \in Int /\ cp = k * C + 0 /\ 0 \in 0 .. C - 1 /\ k \in Int /\ cp \in Int
    BY <1>1, <2>1, ProductGrows
  <2>4. cp \div C = k
    BY <1>1, <2>3, DivisionUnique
  <2>5. QED BY <2>2, <2>4
<1>3. CASE s # SectorsPerCluster
  <2>1. CurrentCount = cp \div C - 0
    BY <1>3 DEF CurrentCount
  <2>2. PICK x \in Nat : x = s * BytesPerSector /\ x + BytesPerSector <= BytesPerCluster
    <3>1. s < SectorsPerCluster
      BY <1>3, PositiveSizes DEF At
    <3>2. QED BY <3>1, AtSector
  <2>3. PICK b \in Nat : b = file.rwPosition.byte /\ b < BytesPerSector
    BY AtType
  <2>4. x + b \in 0 .. C - 1
    BY <2>2, <2>3, PositiveSizes
  <2>5. (k - 1) * C \in Int
    <3>1. k - 1 \in Int
      BY <1>1
    <3>2. QED BY <1>1, <3>1, ProductGrows
  <2>6. cp = (k - 1) * C + (x + b)
    <3>1. cp = (k - 1) * C + x + b
      BY <2>2, <2>3 DEF At
    <3>2. QED BY <2>2, <2>3, <2>5, <3>1
  <2>7. cp \div C = k - 1
    BY <1>1, <2>4, <2>6, PlaceInCluster
  <2>8. QED BY <1>1, <2>1, <2>7
<1>4. QED BY <1>2, <1>3

(* The flag at the end of a cluster, as a position *)
LEMMA FlagSet ==
    ASSUME NEW p \in Position
    PROVE  LET q == [p EXCEPT !.sector = SectorsPerCluster, !.byte = 0]
           IN  q \in Position /\ q.cluster = p.cluster /\ q.sector = SectorsPerCluster /\ q.byte = 0
<1>1. SectorsPerCluster \in 0 .. SectorsPerCluster /\ 0 \in 0 .. BytesPerSector
  BY PositiveSizes
<1>2. QED BY <1>1 DEF Position

(* The position p stands for the offset o, or it will with the flag of the *)
(* end of a cluster                                                        *)
Sought(found, p, size, o) ==
    \/ found.left = 0 /\ Somewhere(chain, p, o) /\ p \in Position /\ p.sector < SectorsPerCluster
    \/ /\ found.left = 1 /\ size = o /\ p.sector = 0
       /\ [p EXCEPT !.sector = SectorsPerCluster, !.byte = 0] \in Position
       /\ Somewhere(chain, [p EXCEPT !.sector = SectorsPerCluster, !.byte = 0], o)

(* From a cluster that is not behind it, a position in the file is found;  *)
(* the end of a file that fills its clusters is one cluster behind them    *)
LEMMA SeekFound ==
    ASSUME IsChain(chain), NEW size \in Nat, Filled(Len(chain), size), NEW o \in Nat, o <= size, NEW k \in 1 .. Len(chain),
           (k - 1) * BytesPerCluster <= o,
           NEW found, found = Follow(chain[k], o \div BytesPerCluster - (k - 1)),
           NEW p, p = [cluster |-> found.cluster, sector |-> (o % BytesPerCluster) \div BytesPerSector, byte |-> o % BytesPerSector]
    PROVE  Sought(found, p, size, o)
<1> DEFINE C == BytesPerCluster
           B == BytesPerSector
           S == SectorsPerCluster
           n == Len(chain)
           q == o \div C
           d == o % C
           t == d \div B
           b == o % B
           c == found.cluster
           j == q - (k - 1)
<1>1. C \in Nat \ {0} /\ B \in Nat \ {0} /\ S \in Nat \ {0} /\ n \in Nat
  BY PositiveSizes, ChainType
<1>2. q \in Nat /\ t \in 0 .. S - 1 /\ b \in 0 .. B - 1 /\ d = t * B + b /\ o = q * C + t * B + b
  BY SplitOffset
<1>3. d \in 0 .. C - 1 /\ o = q * C + d
  <2>1. o \in Int
    OBVIOUS
  <2> HIDE DEF C
  <2>2. QED BY <1>1, <2>1, Division
<1>4. p.cluster = c /\ p.sector = t /\ p.byte = b /\ p = [cluster |-> c, sector |-> t, byte |-> b]
  <2> HIDE DEF c
  <2>1. p = [cluster |-> c, sector |-> t, byte |-> b]
    BY DEF c
  <2> HIDE DEF t, b
  <2>2. QED BY <2>1
<1> DEFINE last == [p EXCEPT !.sector = S, !.byte = 0]
<1>6. found = Follow(chain[k], j)
  OBVIOUS
<1>a. (k - 1) * C <= o /\ size <= n * C
  BY DEF Filled
<1> HIDE DEF q, d, t, b, c, j, C, n, last
<1>7. j \in Nat
  <2>1. q * C \in Int /\ (k - 1) * C \in Int /\ k - 1 \in Int
    BY <1>1, <1>2, ProductGrows
  <2>2. q < k - 1 => q * C + C <= (k - 1) * C
    BY <1>1, <1>2, <2>1, ProductGrows
  <2>3. ~(q < k - 1)
    BY <1>1, <1>3, <1>a, <2>1, <2>2
  <2>4. QED BY <1>2, <2>1, <2>3 DEF j
<1>8. /\ k + j <= n => c = chain[k + j] /\ found.left = 0
      /\ k + j > n => c = chain[n] /\ found.left = j - (n - k)
  BY <1>6, <1>7, FollowFound DEF c, n
<1>9. k + j = q + 1 /\ j - (n - k) = q + 1 - n /\ k \in Nat
  BY <1>1, <1>2 DEF j
<1>10. CASE q + 1 <= n
  <2>1. c = chain[q + 1] /\ found.left = 0 /\ q + 1 \in 1 .. n
    BY <1>1, <1>2, <1>8, <1>9, <1>10
  <2>2. c \in Clusters
    BY <2>1, ChainType DEF n
  <2>3. t \in 0 .. S /\ b \in 0 .. B /\ t < S /\ t # S
    BY <1>1, <1>2
  <2>4. p \in Position /\ p.sector < S
    BY <1>4, <2>2, <2>3 DEF Position
  <2>5. (q + 1) - 1 = q
    BY <1>2
  <2>6. At(chain, p, o, q + 1)
    BY <1>2, <1>4, <2>1, <2>3, <2>5 DEF At, n, C
  <2>7. QED BY <2>1, <2>4, <2>6 DEF Sought, Somewhere, n
<1>11. CASE q + 1 > n
  <2>1. q * C \in Int /\ n * C \in Int /\ (n < q => n * C + C <= q * C) /\ n <= q
    BY <1>1, <1>2, <1>11, ProductGrows
  <2>2. q = n /\ d = 0 /\ size = o
    <3>1. ~(n < q)
      BY <1>1, <1>3, <1>a, <2>1
    <3>2. q = n
      BY <1>1, <1>2, <2>1, <3>1
    <3>3. q * C = n * C
      BY <3>2
    <3>4. d = 0 /\ size = o
      BY <1>1, <1>3, <1>a, <2>1, <3>3, SMTT(40)
    <3>5. QED BY <3>2, <3>4
  <2>3. c = chain[n] /\ found.left = 1
    BY <1>1, <1>8, <1>9, <1>11, <2>2
  <2>4. t = 0
    <3>1. t \in Int /\ 0 <= t
      BY <1>1, <1>2
    <3>2. t * B \in Int /\ 0 <= t * B
      BY <1>1, <3>1, ProductGrows
    <3>3. 0 < t => 0 * B + B <= t * B
      BY <1>1, <3>1, ProductGrows
    <3>4. QED BY <1>1, <1>2, <2>2, <3>1, <3>2, <3>3
  <2>5. n \in 1 .. n /\ c \in Clusters
    BY <1>1, <2>3, ChainType DEF n
  <2>6. S \in 0 .. S /\ 0 \in 0 .. B /\ 0 \in 0 .. B - 1
    BY <1>1
  <2>7. last \in Position /\ last.cluster = c /\ last.sector = S /\ last.byte = 0
    <3>1. t \in 0 .. S /\ b \in 0 .. B
      BY <1>1, <1>2
    <3>2. p \in Position
      BY <1>4, <2>5, <3>1 DEF Position
    <3>3. QED BY <1>4, <3>2, FlagSet DEF last
  <2>8. o = (n - 1) * C + S * B + 0
    <3>1. o = n * C /\ (n - 1) * C = n * C - C
      BY <1>1, <1>3, <2>1, <2>2, ProductGrows
    <3>2. S * B = C
      BY ClusterSize DEF C
    <3>3. QED BY <1>1, <2>1, <3>1, <3>2
  <2>9. At(chain, last, o, n)
    BY <2>3, <2>5, <2>6, <2>7, <2>8 DEF At, n, C
  <2>10. Somewhere(chain, last, o)
    BY <2>5, <2>9 DEF Somewhere, n
  <2>11. p.sector = 0
    BY <1>4, <2>4
  <2>12. QED BY <2>2, <2>3, <2>7, <2>10, <2>11 DEF Sought, last
<1>12. QED BY <1>1, <1>2, <1>10, <1>11

(* seek finds the place of the new position *)
LEMMA SeekInv ==
    ASSUME Inv, NEW position \in Sizes, Seek(position)
    PROVE  Inv'
<1> DEFINE size == file.filesize
           cp == file.currentPosition
           C == BytesPerCluster
<1>1. /\ Ready /\ io' = NoIo /\ UNCHANGED <<chain, entry, call>>
      /\ IF position <= size THEN Makes("seek") ELSE Makes("seekPast") /\ position <= MaxExtend
      /\ IF position <= size /\ chain # <<>> THEN SeekInside(position) ELSE file' = [file EXCEPT !.currentPosition = position]
  BY DEF Seek
<1>2. ~file.append
  BY <1>1, ReadyFacts DEF Makes, ReadSetting, Calls
<1>3. /\ IsChain(chain) /\ Len(chain) \in Nat /\ (chain = <<>> <=> Len(chain) = 0) /\ size \in Nat /\ cp \in Nat /\ position \in Nat
      /\ file \in FileStruct /\ Filled(Len(chain), size) /\ PlainSettled /\ EntrySettled /\ file.inUse
  BY <1>1, <1>2, ReadyFacts, FileAssumption DEF Sizes
<1>4. \E rw \in Position :
         /\ file' = [file EXCEPT !.rwPosition = rw, !.currentPosition = position]
         /\ position <= size /\ chain # <<>> => Somewhere(chain, rw, position)
         /\ position < size /\ chain # <<>> => rw.sector < SectorsPerCluster
  <2>1. CASE position <= size /\ chain # <<>>
    <3>1. \E k \in 1 .. Len(chain) :
             /\ (k - 1) * C <= position
             /\ LET found == Follow(chain[k], position \div C - (k - 1))
                    p     == [cluster |-> found.cluster, sector |-> (position % C) \div BytesPerSector,
                              byte |-> position % BytesPerSector]
                IN  IF found.left <= 0
                    THEN file' = [file EXCEPT !.rwPosition = p, !.currentPosition = position]
                    ELSE IF found.left = 1 /\ size = position /\ p.sector = 0
                    THEN file' = [file EXCEPT !.currentPosition = position,
                                     !.rwPosition = [p EXCEPT !.sector = SectorsPerCluster, !.byte = 0]]
                    ELSE file' = [file EXCEPT !.rwPosition.sector = p.sector, !.rwPosition.byte = p.byte]
      <4>0. SeekInside(position)
        BY <1>1, <2>1
      <4>1. CASE position >= cp
        <5>1. cp <= size
          BY <1>3, <2>1, <4>1
        <5>2. PICK k \in 1 .. Len(chain) : At(chain, file.rwPosition, cp, k)
          BY <1>3, <2>1, <5>1 DEF PlainSettled, Somewhere
        <5>3. CurrentCount = k - 1 /\ file.rwPosition.cluster = chain[k]
          BY <1>3, <5>2, CurrentCountRight DEF At
        <5>4. (k - 1) * C <= position
          <6>1. (k - 1) * C <= cp
            BY <1>3, <5>2, AtType
          <6>2. k - 1 \in Int
            BY <1>3
          <6>3. (k - 1) * C \in Int
            BY <6>2, PositiveSizes, ProductGrows
          <6>4. QED BY <1>3, <4>1, <6>1, <6>3
        <5>5. QED BY <4>0, <4>1, <5>3, <5>4 DEF SeekInside
      <4>2. CASE ~(position >= cp)
        <5>1. 1 \in 1 .. Len(chain) /\ StartCluster = chain[1]
          BY <1>3, <2>1 DEF StartCluster
        <5>2. (1 - 1) * C <= position
          BY <1>3, PositiveSizes
        <5>3. position \div C = position \div C - (1 - 1)
          <6>1. position \div C \in Nat
            BY <1>3, SplitOffset
          <6>2. QED BY <6>1
        <5>4. QED BY <4>0, <4>2, <5>1, <5>2, <5>3 DEF SeekInside
      <4>3. QED BY <4>1, <4>2
    <3>2. PICK k \in 1 .. Len(chain) :
             /\ (k - 1) * C <= position
             /\ LET found == Follow(chain[k], position \div C - (k - 1))
                    p     == [cluster |-> found.cluster, sector |-> (position % C) \div BytesPerSector,
                              byte |-> position % BytesPerSector]
                IN  IF found.left <= 0
                    THEN file' = [file EXCEPT !.rwPosition = p, !.currentPosition = position]
                    ELSE IF found.left = 1 /\ size = position /\ p.sector = 0
                    THEN file' = [file EXCEPT !.currentPosition = position,
                                     !.rwPosition = [p EXCEPT !.sector = SectorsPerCluster, !.byte = 0]]
                    ELSE file' = [file EXCEPT !.rwPosition.sector = p.sector, !.rwPosition.byte = p.byte]
      BY <3>1
    <3> DEFINE found == Follow(chain[k], position \div C - (k - 1))
               p     == [cluster |-> found.cluster, sector |-> (position % C) \div BytesPerSector,
                         byte |-> position % BytesPerSector]
               last  == [p EXCEPT !.sector = SectorsPerCluster, !.byte = 0]
    <3>3. \/ found.left = 0 /\ Somewhere(chain, p, position) /\ p \in Position /\ p.sector < SectorsPerCluster
          \/ /\ found.left = 1 /\ size = position /\ p.sector = 0
             /\ last \in Position /\ Somewhere(chain, last, position)
      <4>1. (k - 1) * C <= position /\ position <= size
        BY <2>1, <3>2
      <4>2. found = Follow(chain[k], position \div C - (k - 1))
        OBVIOUS
      <4> HIDE DEF found
      <4>3. p = [cluster |-> found.cluster, sector |-> (position % C) \div BytesPerSector, byte |-> position % BytesPerSector]
        OBVIOUS
      <4> HIDE DEF p
      <4>4. Sought(found, p, size, position)
        BY <1>3, <4>1, <4>2, <4>3, SeekFound
      <4>5. QED BY <4>4 DEF Sought
    <3>4. /\ found.left = 0 => file' = [file EXCEPT !.rwPosition = p, !.currentPosition = position]
          /\ found.left = 1 /\ size = position /\ p.sector = 0
                => file' = [file EXCEPT !.currentPosition = position, !.rwPosition = last]
      BY <3>2
    <3> HIDE DEF found, p, last
    <3>5. CASE found.left = 0 /\ Somewhere(chain, p, position) /\ p \in Position /\ p.sector < SectorsPerCluster
      BY <3>4, <3>5
    <3>6. CASE /\ found.left = 1 /\ size = position /\ p.sector = 0
               /\ last \in Position /\ Somewhere(chain, last, position)
      <4>1. file' = [file EXCEPT !.rwPosition = last, !.currentPosition = position]
        BY <1>3, <3>4, <3>6 DEF FileStruct
      <4>2. ~(position < size)
        BY <1>3, <3>6
      <4>3. QED BY <3>6, <4>1, <4>2
    <3>7. QED BY <3>3, <3>5, <3>6
  <2>2. CASE ~(position <= size /\ chain # <<>>)
    <3>1. file' = [file EXCEPT !.rwPosition = file.rwPosition, !.currentPosition = position] /\ file.rwPosition \in Position
      BY <1>1, <1>3, <2>2 DEF FileStruct
    <3>2. position < size => position <= size
      BY <1>3
    <3>3. QED BY <2>2, <3>1, <3>2
  <2>3. QED BY <2>1, <2>2
<1>5. PICK rw \in Position :
         /\ file' = [file EXCEPT !.rwPosition = rw, !.currentPosition = position]
         /\ position <= size /\ chain # <<>> => Somewhere(chain, rw, position)
         /\ position < size /\ chain # <<>> => rw.sector < SectorsPerCluster
  BY <1>4
<1>6. /\ file' \in FileStruct /\ file'.rwPosition = rw /\ file'.currentPosition = position /\ file'.filesize = size
      /\ file'.append = file.append /\ file'.inUse = file.inUse /\ file'.modified = file.modified
  BY <1>3, <1>5 DEF FileStruct
<1>7. FileTyped' /\ TransfersRight'
  BY <1>1, <1>6, ReadyFacts, QuietTypes
<1>8. PlainSettled'
  BY <1>1, <1>5, <1>6 DEF PlainSettled
<1>9. EntrySettled'
  BY <1>1, <1>3, <1>6 DEF EntrySettled, StartCluster
<1>10. Settled'
  BY <1>1, <1>2, <1>3, <1>6, <1>8, <1>9 DEF Settled
<1>11. ClosedState' /\ OpenState'
  <2>1. position > size => position <= MaxExtend
    <3>1. position > size => ~(position <= size)
      BY <1>3
    <3>2. QED BY <1>1, <3>1
  <2>2. QED BY <1>2, <1>3, <1>6, <2>1 DEF ClosedState, OpenState
<1>12. QED BY <1>1, <1>7, <1>10, <1>11, ReadyFacts, ReadyStep

-----------------------------------------------------------------------------
(* Every step keeps the invariant *)
LEMMA NextInv ==
    ASSUME Inv, LostState, [Next]_vars, Exact \/ file.inUse
    PROVE  Inv' /\ LostState'
<1>1. CASE UNCHANGED vars
  <2>1. chain' = chain /\ lost' = lost /\ entry' = entry /\ file' = file /\ call' = call /\ io' = io
    BY <1>1 DEF vars
  <2>2. ReadSetting' /\ FileTyped'
    BY <2>1 DEF Inv, ReadSetting, Calls, FileTyped
  <2>3. TransfersRight'
    BY <2>1 DEF Inv, TransfersRight, WritesHitFile, ReadsHitFile, EraseSpares, HitsFile, HasPlace, PlaceOf, Covered
  <2>4. SettledState'
    BY <2>1 DEF Inv, SettledState, Settled, EntrySettled, AppendSettled, PlainSettled, StartCluster
  <2>5. ClosedState' /\ OpenState'
    BY <2>1 DEF Inv, ClosedState, OpenState, StartCluster
  <2>6. CallState' /\ TransferState' /\ ExtendState'
    BY <2>1 DEF Inv, CallState, TransferState, ExtendState, Extending, Moving
  <2>7. PhaseState'
    BY <2>1 DEF Inv, PhaseState, Moving, Offset, AtEdge, WholeSectors, Chained
  <2>8. GroupState'
    BY <2>1 DEF Inv, GroupState, Offset
  <2>9. QED BY <2>1, <2>2, <2>3, <2>4, <2>5, <2>6, <2>7, <2>8 DEF Inv, LostState
<1>2. ASSUME NEW mode \in OpenModes, Open(mode) PROVE Inv' /\ LostState'
  BY <1>2, OpenInv DEF Open
<1>3. ASSUME Close PROVE Inv'
  BY <1>3, CloseInv
<1>4. ASSUME Fsync PROVE Inv'
  BY <1>4, FsyncInv
<1>5. ASSUME NEW n \in Sizes, Read(n) \/ Write(n) \/ Seek(n) \/ Shrink(n) \/ Grow(n) PROVE Inv'
  BY <1>5, ReadInv, WriteInv, SeekInv, ShrinkInv, GrowInv
<1>6. ASSUME Partial \/ ToClusterEnd \/ ReadNext \/ StartGroup \/ WriteGroup PROVE Inv'
  BY <1>6, PartialInv, ToClusterEndInv, ReadNextInv, StartGroupInv, WriteGroupInv
<1>9. ASSUME ReadGroup PROVE Inv'
  <2>1. call.phase = "group" /\ call.op = "read" /\ UNCHANGED <<chain, entry, file>>
    BY <1>9 DEF ReadGroup
  <2>2. QED BY <1>9, <2>1, ReadGroupInv, GroupFailsInv
<1>7. ASSUME Rest \/ Last \/ OutOfSpace \/ End \/ StartExtend \/ ClearSectors \/ ExtendFails PROVE Inv'
  BY <1>7, RestInv, LastInv, OutOfSpaceInv, EndInv, StartExtendInv, ClearSectorsInv, ExtendFailsInv
<1>8. CASE Requests \/ Steps
  <2>1. Inv'
    BY <1>3, <1>4, <1>5, <1>6, <1>7, <1>8, <1>9 DEF Requests, Steps
  <2>2. LostState'
    BY <1>8 DEF Requests, Steps, LostState
  <2>3. QED BY <2>1, <2>2
<1>10. QED BY <1>1, <1>2, <1>8 DEF Next

-----------------------------------------------------------------------------
(***************************************************************************)
(* Reading where writes may fail                                           *)
(*                                                                         *)
(* A write that fails, an extension that finds no room or a sync that does *)
(* not reach the entry leaves a file whose chain, size, entry and          *)
(* positions need not agree, so Inv is lost.  But if the clusters that the *)
(* entry leads to cover the size that it names, the file is opened with    *)
(* Inv and keeps it until it is closed, since nothing in ReadSetting       *)
(* writes to a file opened plainly.                                        *)
(***************************************************************************)
(* The fields of the record of the file and of that of the call *)
FileFields == {"inUse", "append", "modified", "filesize", "currentPosition", "rwPosition", "appendPosition"}

CallFields == {"phase", "op", "offset", "len", "remain", "position", "appending", "target", "zeros",
               "chunkEnd", "chunkSize"}

(* What is so of every file *)
AnyFile ==
    /\ IsChain(chain)
    /\ entry \in [filesize : Sizes, startCluster : Clusters \cup {CLUSTER_FREE}]
    /\ DOMAIN file = FileFields /\ DOMAIN call = CallFields
    /\ file.inUse \in BOOLEAN /\ file.append \in BOOLEAN /\ file.modified \in BOOLEAN /\ file.filesize \in Sizes
    /\ call.phase = "none" => call = NoCall
    /\ ~file.inUse => call.phase = "none" /\ io = NoIo

(* Of one that is opened without O_APPEND *)
PlainFile == call.phase # "none" => call.op = "read" /\ ~Extending

(* What a write has left is no more than it was asked for, so that the     *)
(* file's size stays in its range                                          *)
WriteLeft ==
    /\ call.phase \in {"partial", "sectors", "clusters", "group", "last", "end"}
    /\ call.len \in Nat /\ call.remain \in Nat /\ call.remain <= call.len
    /\ file.filesize + call.len <= FILE_MAX_SIZE
    /\ call.phase = "partial" => call.remain > 0
    /\ call.phase = "sectors" => call.position \in Position
    /\ call.phase = "group" => call.chunkSize \in Nat /\ call.chunkSize <= call.remain

(* Of one that is opened with it *)
AppendFile ==
    /\ io.write \/ io = NoIo
    /\ call.phase # "none" =>
         \/ call.op = "write" /\ WriteLeft
         \/ call.op = "grow" /\ Extending /\ call.target \in Sizes

(* What is so of a file whatever failed *)
Weak ==
    /\ AnyFile
    /\ file.inUse => IF file.append THEN AppendFile ELSE PlainFile

(* A file that is opened plainly and has the clusters for its size *)
Reading == file.inUse /\ ~file.append /\ Covered

(* The invariant of ReadSetting *)
ReadInvariant == Weak /\ (Reading => Inv)

(* What is so of every file says something of the file that is there *)
LEMMA WeakTypes ==
    ASSUME Weak
    PROVE  /\ IsChain(chain) /\ StartCluster \in Clusters \cup {CLUSTER_FREE}
           /\ file.filesize \in Nat /\ file.filesize <= FILE_MAX_SIZE /\ FILE_MAX_SIZE \in Nat
           /\ NoCall \in Call /\ DOMAIN NoCall = CallFields /\ NoCall.phase = "none" /\ NoCall.op = "none"
<1>1. IsChain(chain) /\ file.filesize \in Sizes
  BY DEF Weak, AnyFile
<1>2. StartCluster \in Clusters \cup {CLUSTER_FREE}
  <2>1. CASE chain = <<>>
    BY <2>1 DEF StartCluster
  <2>2. CASE chain # <<>>
    <3>1. Len(chain) \in Nat /\ Len(chain) # 0
      BY <1>1, <2>2 DEF IsChain
    <3>2. 1 \in 1 .. Len(chain)
      BY <3>1
    <3>3. QED BY <1>1, <2>2, <3>2, ChainType DEF StartCluster
  <2>3. QED BY <2>1, <2>2
<1>3. DOMAIN NoCall = CallFields
  BY DEF NoCall, CallFields
<1>4. QED BY <1>1, <1>2, <1>3, NoCallType, FileAssumption DEF Sizes

(* A file opened plainly while it is read: only the positions move *)
PlainOn == file'.inUse => ~file'.append /\ chain' = chain /\ file'.filesize = file.filesize

(* A step of a read leaves a file as it was *)
LEMMA PlainReads ==
    ASSUME Weak, file.inUse, ~file.append, UNCHANGED <<chain, entry, file>>, DOMAIN call' = CallFields,
           call'.op = "read", call'.phase \notin {"none", "extend", "zero"}
    PROVE  Weak' /\ PlainOn
<1>1. AnyFile'
  BY DEF Weak, AnyFile
<1>2. PlainFile'
  BY DEF Weak, PlainFile, Extending
<1>3. QED BY <1>1, <1>2 DEF Weak, PlainOn

(* And between two calls *)
LEMMA PlainReady ==
    ASSUME Weak, file.inUse, ~file.append, UNCHANGED <<chain, entry>>, call' = NoCall,
           DOMAIN file' = FileFields, file'.inUse = file.inUse, file'.append = file.append,
           file'.modified = file.modified, file'.filesize = file.filesize
    PROVE  Weak' /\ PlainOn
<1>1. AnyFile'
  BY WeakTypes DEF Weak, AnyFile, PlainFile
<1>2. PlainFile'
  BY WeakTypes DEF Weak, PlainFile
<1>3. QED BY <1>1, <1>2 DEF Weak, PlainOn

(* What is written to the entry of a file that is open *)
LEMMA WeakSynced ==
    ASSUME Weak, SyncToDisc
    PROVE  entry' \in [filesize : Sizes, startCluster : Clusters \cup {CLUSTER_FREE}]
<1>1. entry \in [filesize : Sizes, startCluster : Clusters \cup {CLUSTER_FREE}] /\ file.filesize \in Sizes
  BY DEF Weak, AnyFile
<1>2. QED BY <1>1, WeakTypes DEF SyncToDisc, Synced

(* close and fsync, whatever the file is like *)
LEMMA WeakClose ==
    ASSUME Weak, Close
    PROVE  Weak' /\ ~file'.inUse
<1>1. /\ Ready /\ SyncToDisc /\ file' = [file EXCEPT !.inUse = FALSE, !.modified = FALSE] /\ io' = NoIo
      /\ UNCHANGED <<chain, call>>
  BY DEF Close
<1>2. /\ DOMAIN file' = FileFields /\ file'.inUse = FALSE /\ file'.append = file.append /\ file'.modified = FALSE
      /\ file'.filesize = file.filesize
  BY <1>1 DEF Weak, AnyFile, FileFields
<1>3. AnyFile'
  BY <1>1, <1>2, WeakSynced DEF Weak, AnyFile, Ready
<1>4. QED BY <1>2, <1>3 DEF Weak

(* So does fsync, which may write the entry of the file *)
LEMMA WeakFsync ==
    ASSUME Weak, Fsync
    PROVE  Weak' /\ (~file.append => PlainOn) /\ file'.inUse = file.inUse /\ file'.append = file.append
<1>1. /\ Ready /\ SyncToDisc /\ file' \in {file, [file EXCEPT !.modified = FALSE]} /\ io' = NoIo
      /\ UNCHANGED <<chain, call>>
  BY DEF Fsync
<1>2. /\ DOMAIN file' = FileFields /\ file'.inUse = file.inUse /\ file'.append = file.append
      /\ file'.modified \in BOOLEAN /\ file'.filesize = file.filesize
  BY <1>1 DEF Weak, AnyFile, FileFields
<1>3. AnyFile'
  BY <1>1, <1>2, WeakSynced DEF Weak, AnyFile, Ready
<1>4. PlainFile' /\ AppendFile'
  BY <1>1 DEF PlainFile, AppendFile, Ready
<1>5. QED BY <1>1, <1>2, <1>3, <1>4 DEF Weak, PlainOn

(* A file opened plainly is read, sought in, fsynced or closed *)
LEMMA PlainSteps ==
    ASSUME ReadSetting, ~Exact, Weak, file.inUse, ~file.append, Next
    PROVE  Weak' /\ PlainOn
<1>1. ~Makes("write") /\ ~Makes("grow") /\ ~Makes("shrink")
  BY DEF ReadSetting, Calls, Makes
<1>2. DOMAIN call = CallFields /\ DOMAIN file = FileFields /\ DOMAIN NoCall = CallFields
  BY WeakTypes DEF Weak, AnyFile
<1>3. call.phase # "none" => call.op = "read" /\ ~Extending
  BY DEF Weak, PlainFile
<1>4. call.phase = "none" => call = NoCall
  BY DEF Weak, AnyFile
<1>5. CASE Close
  BY <1>5, WeakClose DEF PlainOn
<1>6. CASE Fsync
  BY <1>6, WeakFsync
<1>7. ASSUME NEW n \in Sizes, Read(n) PROVE Weak' /\ PlainOn
  <2>1. /\ UNCHANGED <<chain, entry, file>>
        /\ call' = [NoCall EXCEPT !.phase = "partial", !.op = "read",
                    !.offset = file.currentPosition, !.len = ReadLength(n),
                    !.remain = ReadLength(n), !.position = file.rwPosition]
    BY <1>7 DEF Read
  <2>2. DOMAIN call' = CallFields /\ call'.phase = "partial" /\ call'.op = "read"
    BY <1>2, <2>1 DEF CallFields
  <2>3. QED BY <2>1, <2>2, PlainReads
<1>8. ASSUME NEW n \in Sizes, Seek(n) PROVE Weak' /\ PlainOn
  <2>1. UNCHANGED <<chain, entry>> /\ call' = NoCall
    BY <1>4, <1>8 DEF Seek, Ready
  <2>2. /\ DOMAIN file' = FileFields /\ file'.inUse = file.inUse /\ file'.append = file.append
        /\ file'.modified = file.modified /\ file'.filesize = file.filesize
    BY <1>2, <1>8 DEF Seek, SeekInside, FileFields
  <2>3. QED BY <2>1, <2>2, PlainReady
<1>9. CASE End
  <2>1. UNCHANGED <<chain, entry>> /\ call' = NoCall /\ call.op = "read"
    BY <1>3, <1>9 DEF End
  <2>2. /\ DOMAIN file' = FileFields /\ file'.inUse = file.inUse /\ file'.append = file.append
        /\ file'.modified = file.modified /\ file'.filesize = file.filesize
    BY <1>2, <1>9, <2>1 DEF End, FileFields
  <2>3. QED BY <2>1, <2>2, PlainReady
<1>10. CASE Partial
  <2>1. call.op = "read" /\ UNCHANGED <<chain, entry, file>>
    BY <1>3, <1>10 DEF Partial, Advance
  <2>2. DOMAIN call' = CallFields /\ call'.phase = "sectors" /\ call'.op = "read"
    BY <1>2, <1>10, <2>1 DEF Partial, CallFields
  <2>3. QED BY <2>1, <2>2, PlainReads
<1>11. CASE ToClusterEnd
  <2>1. call.op = "read" /\ UNCHANGED <<chain, entry, file>>
    BY <1>3, <1>11 DEF ToClusterEnd
  <2>2. DOMAIN call' = CallFields /\ call'.phase \in {"next", "end"} /\ call'.op = "read"
    BY <1>2, <1>11, <2>1 DEF ToClusterEnd, MoveSectors, CallFields
  <2>3. QED BY <2>1, <2>2, PlainReads
<1>12. CASE ReadNext
  <2>1. call.op = "read" /\ UNCHANGED <<chain, entry, file>>
    BY <1>3, <1>12 DEF ReadNext
  <2>2. DOMAIN call' = CallFields /\ call'.phase \in {"clusters", "end"} /\ call'.op = "read"
    BY <1>2, <1>12, <2>1 DEF ReadNext, CallFields
  <2>3. QED BY <2>1, <2>2, PlainReads
<1>13. CASE StartGroup
  <2>1. call.op = "read" /\ UNCHANGED <<chain, entry, file>>
    BY <1>3, <1>13 DEF StartGroup, Advance
  <2>2. DOMAIN call' = CallFields /\ call'.phase = "group" /\ call'.op = "read"
    BY <1>2, <1>13, <2>1 DEF StartGroup, CallFields
  <2>3. QED BY <2>1, <2>2, PlainReads
<1>14. CASE ReadGroup
  <2>1. call.op = "read" /\ call.phase = "group" /\ UNCHANGED <<chain, entry, file>>
    BY <1>14 DEF ReadGroup
  <2>2. DOMAIN call' = CallFields /\ call'.phase \in {"group", "clusters", "end"} /\ call'.op = "read"
    BY <1>2, <1>14, <2>1 DEF ReadGroup, MoveGroup, CallFields
  <2>3. QED BY <2>1, <2>2, PlainReads
<1>15. CASE Rest
  <2>1. call.op = "read" /\ UNCHANGED <<chain, entry, file>>
    BY <1>3, <1>15 DEF Rest, Advance
  <2>2. DOMAIN call' = CallFields /\ call'.phase \in {"last", "end"} /\ call'.op = "read"
    BY <1>2, <1>15, <2>1 DEF Rest, MoveSectors, CallFields
  <2>3. QED BY <2>1, <2>2, PlainReads
<1>16. CASE Last
  <2>1. call.op = "read" /\ UNCHANGED <<chain, entry, file>>
    BY <1>3, <1>16 DEF Last
  <2>2. DOMAIN call' = CallFields /\ call'.phase = "end" /\ call'.op = "read"
    BY <1>2, <1>16, <2>1 DEF Last, CallFields
  <2>3. QED BY <2>1, <2>2, PlainReads
<1>17. ~WriteGroup /\ ~OutOfSpace /\ ~StartExtend /\ ~ClearSectors /\ ~ExtendFails
  BY <1>3 DEF WriteGroup, OutOfSpace, StartExtend, ClearSectors, ExtendFails, Extending
<1>18. /\ \A mode \in OpenModes : ~Open(mode)
       /\ \A n \in Sizes : ~Write(n) /\ ~Shrink(n) /\ ~Grow(n)
  BY <1>1 DEF Open, Write, Shrink, Grow
<1>19. QED BY <1>5, <1>6, <1>7, <1>8, <1>9, <1>10, <1>11, <1>12, <1>13, <1>14, <1>15, <1>16, <1>17, <1>18 DEF Next, Requests, Steps

(* A chain with or without one more cluster is a chain *)
LEMMA WeakLinked ==
    ASSUME IsChain(chain), NEW c, NEW r \in Clusters, LinkFreeCluster(c, r)
    PROVE  IsChain(chain')
<1>1. CASE chain' = chain
  BY <1>1
<1>2. CASE chain' # chain
  <2>1. r \notin Chained /\ chain' = Append(chain, r)
    BY <1>2 DEF LinkFreeCluster, Taken
  <2>2. \A i \in 1 .. Len(chain) : chain[i] # r
    BY <2>1, IndexFound
  <2>3. QED BY <2>1, <2>2, AppendedChain
<1>3. QED BY <1>1, <1>2

(* A position that was checked is not at the end of its cluster *)
LEMMA WeakChecked ==
    ASSUME IsChain(chain), NEW position, NEW remain \in Nat, NEW p \in Position, CheckPosition(position, remain, p)
    PROVE  /\ IsChain(chain') /\ (remain > 0 => p.sector # SectorsPerCluster)
           /\ p.sector \in 0 .. SectorsPerCluster /\ p.byte \in 0 .. BytesPerSector
<1>1. CASE remain > 0 /\ position.sector = SectorsPerCluster
  <2>1. PICK r \in Clusters : /\ LinkFreeCluster(position.cluster, r)
                              /\ p = [position EXCEPT !.cluster = r, !.sector = 0]
    BY <1>1 DEF CheckPosition
  <2>2. DOMAIN p = DOMAIN position /\ DOMAIN p = {"cluster", "sector", "byte"}
    BY <2>1 DEF Position
  <2>3. p.sector = 0
    BY <2>1, <2>2
  <2>4. QED BY <2>1, <2>3, WeakLinked, PositionFields, PositiveSizes
<1>2. CASE ~(remain > 0 /\ position.sector = SectorsPerCluster)
  BY <1>2, PositionFields DEF CheckPosition
<1>3. QED BY <1>1, <1>2

(* A file opened with O_APPEND in the middle of a call *)
AppendOn == file'.inUse => file'.append

(* A step that leaves the file's size and flags *)
FileKept ==
    /\ DOMAIN file' = FileFields /\ file'.inUse = file.inUse /\ file'.append = file.append
    /\ file'.modified = file.modified /\ file'.filesize = file.filesize

(* A step after which a write to a file with O_APPEND goes on *)
LEMMA AppendWrites ==
    ASSUME Weak, file.inUse, file.append, IsChain(chain'), UNCHANGED entry, FileKept, DOMAIN call' = CallFields,
           call'.op = "write", WriteLeft', io'.write \/ io' = NoIo
    PROVE  Weak' /\ AppendOn
<1>1. call'.phase # "none" /\ file'.append /\ file'.inUse
  BY DEF WriteLeft, FileKept
<1>2. AnyFile'
  BY <1>1 DEF Weak, AnyFile, FileKept
<1>3. AppendFile'
  BY DEF AppendFile
<1>4. QED BY <1>1, <1>2, <1>3 DEF Weak, AppendOn

(* A step after which an extension goes on *)
LEMMA AppendGrows ==
    ASSUME Weak, file.inUse, file.append, IsChain(chain'), UNCHANGED entry, FileKept, DOMAIN call' = CallFields,
           call'.op = "grow", call'.phase \in {"extend", "zero"}, call'.target \in Sizes, io'.write \/ io' = NoIo
    PROVE  Weak' /\ AppendOn
<1>1. call'.phase # "none" /\ file'.append /\ file'.inUse
  BY DEF FileKept
<1>2. AnyFile'
  BY <1>1 DEF Weak, AnyFile, FileKept
<1>3. AppendFile'
  BY DEF AppendFile, Extending
<1>4. QED BY <1>1, <1>2, <1>3 DEF Weak, AppendOn

(* And behind it *)
LEMMA AppendReady ==
    ASSUME Weak, IsChain(chain'), UNCHANGED entry, call' = NoCall, io'.write \/ io' = NoIo,
           DOMAIN file' = FileFields, file'.inUse = TRUE, file'.append = TRUE, file'.modified = TRUE, file'.filesize \in Sizes
    PROVE  Weak' /\ AppendOn
<1>1. AnyFile'
  BY WeakTypes DEF Weak, AnyFile
<1>2. AppendFile'
  BY WeakTypes DEF AppendFile
<1>3. QED BY <1>1, <1>2 DEF Weak, AppendOn

(* What is known of a write in progress *)
LEMMA WriteFacts ==
    ASSUME Weak, file.inUse, file.append, call.phase \notin {"none", "extend", "zero"}
    PROVE  /\ call.op = "write" /\ WriteLeft /\ IsChain(chain)
           /\ DOMAIN call = CallFields /\ DOMAIN file = FileFields
           /\ call.remain \in Nat /\ call.len \in Nat /\ call.remain <= call.len
<1>1. AnyFile /\ AppendFile
  BY DEF Weak
<1>2. call.op = "write" /\ WriteLeft
  BY <1>1 DEF AppendFile, Extending
<1>3. QED BY <1>1, <1>2 DEF AnyFile, WriteLeft

(* A step of a write takes its bytes off those that are left.  Of its new  *)
(* phase it needs what WriteLeft says.                                     *)
LEMMA WriteStep ==
    ASSUME Weak, file.inUse, file.append, call.phase \notin {"none", "extend", "zero"},
           IsChain(chain'), UNCHANGED <<entry, file>>, io'.write \/ io' = NoIo,
           DOMAIN call' = CallFields, call'.op = "write", call'.len = call.len,
           call'.phase \in {"sectors", "clusters", "group", "last", "end"},
           NEW n \in Nat, n <= call.remain, call'.remain = call.remain - n,
           call'.phase = "sectors" => call'.position \in Position,
           call'.phase = "group" => call'.chunkSize \in Nat /\ call'.chunkSize <= call.remain - n
    PROVE  Weak' /\ AppendOn
<1>1. call.remain \in Nat /\ call.len \in Nat /\ call.remain <= call.len /\ file.filesize + call.len <= FILE_MAX_SIZE
  BY WriteFacts DEF WriteLeft
<1>2. call'.remain \in Nat /\ call'.remain <= call'.len
  BY <1>1
<1>3. WriteLeft'
  BY <1>1, <1>2 DEF WriteLeft
<1>4. FileKept
  BY WriteFacts DEF FileKept
<1>5. QED BY <1>3, <1>4, AppendWrites

(* The rest of a sector *)
LEMMA WeakPartial ==
    ASSUME Weak, file.inUse, file.append, Partial
    PROVE  Weak' /\ AppendOn
<1>1. call.phase = "partial" /\ UNCHANGED <<entry, file>>
  BY DEF Partial
<1>2. /\ call.op = "write" /\ WriteLeft /\ IsChain(chain) /\ DOMAIN call = CallFields
      /\ call.remain \in Nat /\ call.len \in Nat /\ call.remain <= call.len /\ call.remain > 0
  BY <1>1, WriteFacts DEF WriteLeft
<1>3. PICK p \in Position :
         /\ CheckPosition(call.position, call.remain, p)
         /\ LET n == Lesser(BytesPerSector - p.byte, call.remain)
                wraps == p.byte + n >= BytesPerSector
            IN  IF n < BytesPerSector
                THEN /\ Transfer(Address(p.cluster, p.sector, p.byte), n, FALSE)
                     /\ call' = [call EXCEPT !.phase = "sectors", !.remain = call.remain - n,
                           !.position = [p EXCEPT !.byte = IF wraps THEN 0 ELSE p.byte + n,
                                                  !.sector = IF wraps THEN p.sector + 1 ELSE p.sector]]
                ELSE /\ io' = NoIo
                     /\ call' = [call EXCEPT !.phase = "sectors", !.position = p]
  BY <1>2 DEF Partial, Advance
<1>4. /\ IsChain(chain') /\ p.sector # SectorsPerCluster
      /\ p.sector \in 0 .. SectorsPerCluster /\ p.byte \in 0 .. BytesPerSector
  BY <1>2, <1>3, WeakChecked
<1> DEFINE n == Lesser(BytesPerSector - p.byte, call.remain)
           wraps == p.byte + n >= BytesPerSector
           q == [p EXCEPT !.byte = IF wraps THEN 0 ELSE p.byte + n, !.sector = IF wraps THEN p.sector + 1 ELSE p.sector]
<1>5. n \in Nat /\ n <= call.remain
  BY <1>2, <1>4, PositiveSizes DEF Lesser
<1>6. CASE n < BytesPerSector
  <2>1. /\ Transfer(Address(p.cluster, p.sector, p.byte), n, FALSE)
        /\ call' = [call EXCEPT !.phase = "sectors", !.remain = call.remain - n, !.position = q]
    BY <1>3, <1>6
  <2>2. (IF wraps THEN 0 ELSE p.byte + n) \in 0 .. BytesPerSector
    BY <1>4, <1>5, PositiveSizes
  <2>3. (IF wraps THEN p.sector + 1 ELSE p.sector) \in 0 .. SectorsPerCluster
    BY <1>4, PositiveSizes
  <2> HIDE DEF n, wraps
  <2>4. q \in Position
    BY <2>2, <2>3 DEF Position
  <2> HIDE DEF q
  <2>5. /\ DOMAIN call' = CallFields /\ call'.phase = "sectors" /\ call'.op = "write" /\ call'.len = call.len
        /\ call'.remain = call.remain - n /\ call'.position = q
    BY <1>2, <2>1 DEF CallFields
  <2>6. io'.write
    BY <1>2, <2>1 DEF Transfer
  <2>7. QED BY <1>1, <1>4, <1>5, <2>4, <2>5, <2>6, WriteStep
<1>7. CASE ~(n < BytesPerSector)
  <2>1. io' = NoIo /\ call' = [call EXCEPT !.phase = "sectors", !.position = p]
    BY <1>3, <1>7
  <2>2. /\ DOMAIN call' = CallFields /\ call'.phase = "sectors" /\ call'.op = "write" /\ call'.len = call.len
        /\ call'.remain = call.remain - 0 /\ call'.position = p /\ 0 \in Nat /\ 0 <= call.remain
    BY <1>2, <2>1 DEF CallFields
  <2>3. QED BY <1>1, <1>4, <2>1, <2>2, WriteStep
<1>8. QED BY <1>6, <1>7

(* Whole sectors, or none if the cache fails *)
LEMMA WeakSectors ==
    ASSUME Weak, file.inUse, file.append, call.phase \notin {"none", "extend", "zero"},
           IsChain(chain'), UNCHANGED <<entry, file>>, NEW p, NEW sector, NEW n \in Nat, n * BytesPerSector <= call.remain,
           NEW phase \in {"clusters", "last"}, MoveSectors(p, sector, n, phase)
    PROVE  Weak' /\ AppendOn
<1>1. DOMAIN call = CallFields /\ call.op = "write" /\ call.remain \in Nat
  BY WriteFacts
<1>2. n * BytesPerSector \in Nat
  BY PositiveSizes, ProductGrows
<1>3. CASE /\ IF n > 0 THEN Transfer(Address(p.cluster, sector, 0), n * BytesPerSector, FALSE) ELSE io' = NoIo
           /\ call' = [call EXCEPT !.phase = phase, !.remain = call.remain - n * BytesPerSector,
                                   !.position = [p EXCEPT !.sector = p.sector + n]]
  <2>1. /\ DOMAIN call' = CallFields /\ call'.phase = phase /\ call'.op = "write" /\ call'.len = call.len
        /\ call'.remain = call.remain - n * BytesPerSector
    BY <1>1, <1>3 DEF CallFields
  <2>2. io'.write \/ io' = NoIo
    <3>1. CASE n > 0
      <4>1. Transfer(Address(p.cluster, sector, 0), n * BytesPerSector, FALSE)
        BY <1>3, <3>1
      <4>2. QED BY <1>1, <4>1 DEF Transfer
    <3>2. QED BY <1>3, <3>1
  <2>3. QED BY <1>2, <2>1, <2>2, WriteStep
<1>4. CASE io' = NoIo /\ call' = [call EXCEPT !.phase = "end", !.position = p]
  <2>1. /\ DOMAIN call' = CallFields /\ call'.phase = "end" /\ call'.op = "write" /\ call'.len = call.len
        /\ call'.remain = call.remain - 0 /\ 0 \in Nat /\ 0 <= call.remain
    BY <1>1, <1>4 DEF CallFields
  <2>2. QED BY <1>4, <2>1, WriteStep
<1>5. QED BY <1>3, <1>4 DEF MoveSectors

(* Each step of such a write keeps Weak, whatever its transfers do *)
LEMMA WeakToClusterEnd ==
    ASSUME Weak, file.inUse, file.append, ToClusterEnd
    PROVE  Weak' /\ AppendOn
<1>1. call.phase = "sectors" /\ UNCHANGED <<chain, entry, file>>
  BY DEF ToClusterEnd
<1>2. call.op = "write" /\ IsChain(chain) /\ call.remain \in Nat /\ call.position \in Position
  BY <1>1, WriteFacts DEF WriteLeft
<1>3. MoveSectors(call.position, call.position.sector, SectorsMoved, "clusters")
  BY <1>2 DEF ToClusterEnd
<1>4. SectorsLeft \in Nat /\ SectorsLeft * BytesPerSector <= call.remain
  BY <1>2, PositionFields, SectorsLeftBound
<1>5. SectorsMoved \in Nat /\ SectorsMoved * BytesPerSector <= call.remain
  BY <1>2, <1>4, PositiveSizes DEF SectorsMoved
<1>6. QED BY <1>1, <1>2, <1>3, <1>5, WeakSectors

(* The step to the clusters and the last sector *)
LEMMA WeakRest ==
    ASSUME Weak, file.inUse, file.append, Rest
    PROVE  Weak' /\ AppendOn
<1>1. call.phase = "clusters" /\ UNCHANGED <<entry, file>>
  BY DEF Rest
<1>2. call.op = "write" /\ IsChain(chain) /\ call.remain \in Nat
  BY <1>1, WriteFacts
<1>3. PICK p \in Position : /\ CheckPosition(call.position, call.remain, p)
                            /\ MoveSectors(p, 0, call.remain \div BytesPerSector, "last")
  BY <1>2 DEF Rest, Advance
<1>4. IsChain(chain')
  BY <1>2, <1>3, WeakChecked
<1> DEFINE n == call.remain \div BytesPerSector
<1>5. n \in Nat /\ n * BytesPerSector <= call.remain
  <2>1. PICK a \in Int : a = call.remain /\ 0 <= a
    BY <1>2
  <2>2. /\ a \div BytesPerSector \in Int /\ a % BytesPerSector \in 0 .. BytesPerSector - 1
        /\ a = (a \div BytesPerSector) * BytesPerSector + (a % BytesPerSector) /\ 0 <= a \div BytesPerSector
    BY <2>1, PositiveSizes, Division
  <2>3. PICK m \in Nat : m = a \div BytesPerSector
    BY <2>2
  <2>4. m * BytesPerSector \in Int /\ a = m * BytesPerSector + (a % BytesPerSector)
    BY <2>2, <2>3, PositiveSizes, ProductGrows
  <2>5. m * BytesPerSector <= a
    BY <2>1, <2>2, <2>4, PositiveSizes
  <2>6. QED BY <2>1, <2>3, <2>5
<1> HIDE DEF n
<1>6. MoveSectors(p, 0, n, "last")
  BY <1>3 DEF n
<1>7. QED BY <1>1, <1>4, <1>5, <1>6, WeakSectors

(* The bytes behind them *)
LEMMA WeakLast ==
    ASSUME Weak, file.inUse, file.append, Last
    PROVE  Weak' /\ AppendOn
<1>1. call.phase = "last" /\ UNCHANGED <<chain, entry, file>>
  BY DEF Last
<1>2. call.op = "write" /\ IsChain(chain) /\ call.remain \in Nat /\ DOMAIN call = CallFields
  BY <1>1, WriteFacts
<1>3. /\ DOMAIN call' = CallFields /\ call'.phase = "end" /\ call'.op = "write" /\ call'.len = call.len
      /\ call'.remain = 0
  BY <1>2 DEF Last, CallFields
<1>4. io'.write \/ io' = NoIo
  <2>1. ASSUME NEW a, NEW n, NEW e, Transfer(a, n, e) PROVE io'.write
    BY <1>2, <2>1 DEF Transfer
  <2>2. QED BY <2>1 DEF Last
<1>5. call'.remain = call.remain - call.remain /\ call.remain <= call.remain
  BY <1>2, <1>3
<1>6. QED BY <1>1, <1>2, <1>3, <1>4, <1>5, WriteStep

(* Whole clusters *)
LEMMA WeakStartGroup ==
    ASSUME Weak, file.inUse, file.append, StartGroup
    PROVE  Weak' /\ AppendOn
<1>1. call.phase = "clusters" /\ call.remain >= BytesPerCluster /\ io' = NoIo /\ UNCHANGED <<entry, file>>
  BY DEF StartGroup
<1>2. call.op = "write" /\ IsChain(chain) /\ call.remain \in Nat /\ DOMAIN call = CallFields
  BY <1>1, WriteFacts
<1>3. PICK p \in Position :
         /\ CheckPosition(call.position, call.remain, p)
         /\ call' = [call EXCEPT !.phase = "group", !.position = p,
                                 !.chunkEnd = p.cluster, !.chunkSize = BytesPerCluster]
  BY <1>2 DEF StartGroup, Advance
<1>4. IsChain(chain')
  BY <1>2, <1>3, WeakChecked
<1>5. /\ DOMAIN call' = CallFields /\ call'.phase = "group" /\ call'.op = "write" /\ call'.len = call.len
      /\ call'.remain = call.remain /\ call'.chunkSize = BytesPerCluster
  BY <1>2, <1>3 DEF CallFields
<1>6. BytesPerCluster \in Nat
  BY PositiveSizes
<1>7. call'.remain = call.remain - 0 /\ 0 \in Nat /\ 0 <= call.remain /\ call'.chunkSize <= call.remain - 0
  BY <1>1, <1>2, <1>5, <1>6
<1>8. QED BY <1>1, <1>4, <1>5, <1>6, <1>7, WriteStep

(* A run of clusters, read or written *)
LEMMA WeakMoveGroup ==
    ASSUME Weak, file.inUse, file.append, call.phase = "group", IsChain(chain'), UNCHANGED <<entry, file>>,
           NEW p, NEW phase \in {"clusters", "end"}, MoveGroup(p, phase)
    PROVE  Weak' /\ AppendOn
<1>1. /\ DOMAIN call = CallFields /\ call.op = "write" /\ call.remain \in Nat
      /\ call.chunkSize \in Nat /\ call.chunkSize <= call.remain
  BY WriteFacts DEF WriteLeft
<1>2. CASE /\ Transfer(Address(call.position.cluster, 0, 0), call.chunkSize, FALSE)
           /\ call' = [call EXCEPT !.phase = phase, !.remain = call.remain - call.chunkSize, !.position = p,
                               !.chunkEnd = CLUSTER_FREE, !.chunkSize = 0]
  <2>1. /\ DOMAIN call' = CallFields /\ call'.phase = phase /\ call'.op = "write" /\ call'.len = call.len
        /\ call'.remain = call.remain - call.chunkSize
    BY <1>1, <1>2 DEF CallFields
  <2>2. io'.write
    BY <1>1, <1>2 DEF Transfer
  <2>3. QED BY <1>1, <2>1, <2>2, WriteStep
<1>3. CASE io' = NoIo /\ call' = [call EXCEPT !.phase = "end", !.chunkEnd = CLUSTER_FREE, !.chunkSize = 0]
  <2>1. /\ DOMAIN call' = CallFields /\ call'.phase = "end" /\ call'.op = "write" /\ call'.len = call.len
        /\ call'.remain = call.remain - 0 /\ 0 \in Nat /\ 0 <= call.remain
    BY <1>1, <1>3 DEF CallFields
  <2>2. QED BY <1>3, <2>1, WriteStep
<1>4. QED BY <1>2, <1>3 DEF MoveGroup

(* A run of clusters that is written *)
LEMMA WeakWriteGroup ==
    ASSUME Weak, file.inUse, file.append, WriteGroup
    PROVE  Weak' /\ AppendOn
<1> DEFINE used == [call.position EXCEPT !.cluster = call.chunkEnd, !.sector = SectorsPerCluster]
           ahead == call.chunkSize + BytesPerCluster < call.remain
<1>1. call.phase = "group" /\ UNCHANGED <<entry, file>>
  BY DEF WriteGroup
<1>2. /\ call.op = "write" /\ IsChain(chain) /\ call.remain \in Nat /\ DOMAIN call = CallFields
      /\ call.chunkSize \in Nat /\ call.chunkSize <= call.remain
  BY <1>1, WriteFacts DEF WriteLeft
<1>3. \/ \E p, phase : phase \in {"clusters", "end"} /\ MoveGroup(p, phase) /\ UNCHANGED chain
      \/ /\ ahead
         /\ \E p \in Position :
              /\ CheckPosition(used, call.remain, p)
              /\ IF p.cluster = call.chunkEnd + 1
                 THEN /\ call' = [call EXCEPT !.chunkEnd = p.cluster, !.chunkSize = call.chunkSize + BytesPerCluster]
                      /\ io' = NoIo
                 ELSE MoveGroup(p, "clusters")
  <2> HIDE DEF MoveGroup
  <2>1. QED BY DEF WriteGroup
<1> HIDE DEF used
<1>4. CASE \E p, phase : phase \in {"clusters", "end"} /\ MoveGroup(p, phase) /\ UNCHANGED chain
  BY <1>1, <1>2, <1>4, WeakMoveGroup
<1>5. ASSUME ahead, NEW p \in Position, CheckPosition(used, call.remain, p),
             call' = [call EXCEPT !.chunkEnd = p.cluster, !.chunkSize = call.chunkSize + BytesPerCluster], io' = NoIo
      PROVE  Weak' /\ AppendOn
  <2>1. IsChain(chain')
    BY <1>2, <1>5, WeakChecked
  <2>2. /\ DOMAIN call' = CallFields /\ call'.phase = "group" /\ call'.op = "write" /\ call'.len = call.len
        /\ call'.remain = call.remain /\ call'.chunkSize = call.chunkSize + BytesPerCluster
    BY <1>1, <1>2, <1>5 DEF CallFields
  <2>3. BytesPerCluster \in Nat
    BY PositiveSizes
  <2>4. /\ call'.remain = call.remain - 0 /\ 0 \in Nat /\ 0 <= call.remain
        /\ call'.chunkSize \in Nat /\ call'.chunkSize <= call.remain - 0
    BY <1>2, <1>5, <2>2, <2>3
  <2>5. QED BY <1>1, <1>5, <2>1, <2>2, <2>4, WriteStep
<1>6. ASSUME NEW p \in Position, CheckPosition(used, call.remain, p), MoveGroup(p, "clusters")
      PROVE  Weak' /\ AppendOn
  <2>1. IsChain(chain')
    BY <1>2, <1>6, WeakChecked
  <2>2. QED BY <1>1, <1>6, <2>1, WeakMoveGroup
<1>7. QED BY <1>3, <1>4, <1>5, <1>6

(* A call that begins makes sure of a first cluster *)
LEMMA WeakFirst ==
    ASSUME Weak, Ready, NEW both \in BOOLEAN, SeesToCluster(both)
    PROVE  IsChain(chain') /\ FileKept
<1>1. IsChain(chain) /\ DOMAIN file = FileFields
  BY DEF Weak, AnyFile
<1>2. CASE UNCHANGED <<chain, file>>
  BY <1>1, <1>2 DEF FileKept
<1>3. CASE ~UNCHANGED <<chain, file>>
  <2>1. PICK r \in Clusters : /\ LinkFreeCluster(CLUSTER_FREE, r)
                              /\ file' = [file EXCEPT !.appendPosition = IF both THEN PositionAt(r) ELSE file.appendPosition,
                                                      !.rwPosition = PositionAt(r)]
    BY <1>3 DEF SeesToCluster
  <2>2. QED BY <1>1, <2>1, WeakLinked DEF FileKept, FileFields
<1>4. QED BY <1>2, <1>3

(* The beginning of a write, which may extend the file first *)
LEMMA WeakWrite ==
    ASSUME Weak, file.append, NEW len \in Sizes, Write(len)
    PROVE  Weak' /\ AppendOn
<1> DEFINE n == Lesser(len, FILE_MAX_SIZE - file.filesize)
<1>1. Ready /\ file.inUse /\ io' = NoIo /\ entry' = entry /\ n > 0
  BY DEF Write, Ready
<1>2. SeesToCluster(TRUE)
  BY DEF Write, SeesToCluster
<1>3. IsChain(chain') /\ FileKept
  BY <1>1, <1>2, WeakFirst
<1>4. n \in Nat /\ file.filesize + n <= FILE_MAX_SIZE
  BY <1>1, WeakTypes DEF Lesser, Sizes
<1>5. /\ DOMAIN call' = CallFields /\ call'.phase = "partial" /\ call'.op = "write" /\ call'.len = n /\ call'.remain = n
  <2> HIDE DEF n
  <2>1. \E o, pos, app, tgt, z : call' = [NoCall EXCEPT !.phase = "partial", !.op = "write", !.offset = o, !.len = n, !.remain = n,
                 !.position = pos, !.appending = app, !.target = tgt, !.zeros = z]
    BY DEF Write, n
  <2>2. QED BY <2>1, WeakTypes DEF CallFields
<1> HIDE DEF n
<1>6. WriteLeft'
  BY <1>1, <1>3, <1>4, <1>5 DEF WriteLeft, FileKept
<1>7. QED BY <1>1, <1>3, <1>5, <1>6, AppendWrites

(* The beginning of an extension by ftruncate *)
LEMMA WeakGrow ==
    ASSUME Weak, file.append, NEW newSize \in Sizes, Grow(newSize)
    PROVE  Weak' /\ AppendOn
<1>1. /\ Ready /\ file.inUse /\ io' = NoIo /\ entry' = entry
      /\ call' = [NoCall EXCEPT !.phase = "extend", !.op = "grow", !.target = newSize, !.zeros = newSize - file.filesize]
  BY DEF Grow, Ready
<1>2. SeesToCluster(FALSE)
  <2>1. DOMAIN file = FileFields
    BY DEF Weak, AnyFile
  <2>2. \A q : [file EXCEPT !.rwPosition = q] = [file EXCEPT !.appendPosition = file.appendPosition, !.rwPosition = q]
    BY <2>1 DEF FileFields
  <2>3. QED BY <2>2 DEF Grow, SeesToCluster
<1>3. IsChain(chain') /\ FileKept
  BY <1>1, <1>2, WeakFirst
<1>4. DOMAIN call' = CallFields /\ call'.phase = "extend" /\ call'.op = "grow" /\ call'.target = newSize
  BY <1>1, WeakTypes DEF CallFields
<1>5. QED BY <1>1, <1>3, <1>4, AppendGrows

(* What is known of an extension of such a file *)
LEMMA GrowFacts ==
    ASSUME Weak, file.inUse, file.append, Extending
    PROVE  /\ call.op = "grow" /\ call.target \in Sizes /\ IsChain(chain)
           /\ DOMAIN call = CallFields /\ DOMAIN file = FileFields
<1>1. AnyFile /\ AppendFile
  BY DEF Weak
<1>2. call.op = "grow" /\ call.target \in Sizes
  BY <1>1 DEF AppendFile, Extending, WriteLeft
<1>3. QED BY <1>1, <1>2 DEF AnyFile

(* The end of an extension, or of one in a write *)
LEMMA WeakExtended ==
    ASSUME Weak, file.inUse, file.append, Extending, IsChain(chain'), UNCHANGED entry, io'.write \/ io' = NoIo,
           NEW p, Extended(p)
    PROVE  Weak' /\ AppendOn
<1>1. call' = NoCall /\ file' = [file EXCEPT !.appendPosition = p, !.filesize = call.target, !.modified = TRUE]
  BY GrowFacts DEF Extended
<1>2. /\ DOMAIN file' = FileFields /\ file'.inUse = TRUE /\ file'.append = TRUE /\ file'.modified = TRUE
      /\ file'.filesize \in Sizes
  <2>1. file.inUse \in BOOLEAN /\ file.append \in BOOLEAN
    BY DEF Weak, AnyFile
  <2>2. QED BY <1>1, <2>1, GrowFacts DEF FileFields
<1>3. QED BY <1>1, <1>2, AppendReady

(* A step after which the extension fills clusters with zeros *)
LEMMA WeakZero ==
    ASSUME Weak, file.inUse, file.append, Extending, IsChain(chain'), UNCHANGED <<entry, file>>, io'.write \/ io' = NoIo,
           DOMAIN call' = CallFields, call'.phase = "zero", call'.op = call.op, call'.target = call.target
    PROVE  Weak' /\ AppendOn
<1>1. FileKept
  BY GrowFacts DEF FileKept
<1>2. QED BY <1>1, GrowFacts, AppendGrows

(* The first cluster of an extension *)
LEMMA WeakStartExtend ==
    ASSUME Weak, file.inUse, file.append, StartExtend
    PROVE  Weak' /\ AppendOn
<1> DEFINE e == [EndPosition(LastOfChain, file.filesize) EXCEPT !.sector = @ % SectorsPerCluster]
           edge == file.filesize > 0 /\ e.sector = 0 /\ e.byte = 0
<1>1. call.phase = "extend" /\ entry' = entry /\ Extending
  BY DEF StartExtend, Extending
<1>2. PICK r : /\ r \in Clusters
               /\ IF edge THEN LinkFreeCluster(e.cluster, r) ELSE UNCHANGED chain
               /\ LET p == [e EXCEPT !.cluster = r]
                      n == Lesser(call.zeros, BytesPerSector - p.byte)
                  IN  IF call.zeros + p.byte < BytesPerSector
                      THEN Clear(p, n) /\ Extended([p EXCEPT !.byte = p.byte + n])
                      ELSE /\ UNCHANGED file
                           /\ IF p.byte > 0
                              THEN /\ Clear(p, n)
                                   /\ call' = [call EXCEPT !.phase = "zero", !.zeros = @ - n,
                                         !.position = [p EXCEPT !.byte = 0, !.sector = p.sector + 1]]
                              ELSE /\ io' = NoIo
                                   /\ call' = [call EXCEPT !.phase = "zero", !.position = p]
  BY DEF StartExtend
<1> HIDE DEF e
<1>3. IsChain(chain')
  BY <1>1, <1>2, GrowFacts, WeakLinked
<1>4. \/ \E p, n, q : Clear(p, n) /\ Extended(q)
      \/ /\ UNCHANGED file /\ \/ \E p, n : Clear(p, n)
                              \/ io' = NoIo
         /\ \E z, q : call' = [call EXCEPT !.phase = "zero", !.zeros = z, !.position = q]
      \/ /\ UNCHANGED file /\ io' = NoIo
         /\ \E q : call' = [call EXCEPT !.phase = "zero", !.position = q]
  BY <1>2
<1>5. \A p, n : Clear(p, n) => io'.write
  BY DEF Clear
<1>6. CASE \E p, n, q : Clear(p, n) /\ Extended(q)
  BY <1>1, <1>3, <1>5, <1>6, WeakExtended
<1>7. CASE /\ UNCHANGED file /\ \/ \E p, n : Clear(p, n)
                                \/ io' = NoIo
           /\ \E z, q : call' = [call EXCEPT !.phase = "zero", !.zeros = z, !.position = q]
  <2>1. DOMAIN call' = CallFields /\ call'.phase = "zero" /\ call'.op = call.op /\ call'.target = call.target
    BY <1>1, <1>7, GrowFacts DEF CallFields
  <2>2. QED BY <1>1, <1>3, <1>5, <1>7, <2>1, WeakZero
<1>8. CASE /\ UNCHANGED file /\ io' = NoIo
           /\ \E q : call' = [call EXCEPT !.phase = "zero", !.position = q]
  <2>1. DOMAIN call' = CallFields /\ call'.phase = "zero" /\ call'.op = call.op /\ call'.target = call.target
    BY <1>1, <1>8, GrowFacts DEF CallFields
  <2>2. QED BY <1>1, <1>3, <1>8, <2>1, WeakZero
<1>9. QED BY <1>4, <1>6, <1>7, <1>8

(* The sectors and clusters of an extension *)
LEMMA WeakClearSectors ==
    ASSUME Weak, file.inUse, file.append, ClearSectors
    PROVE  Weak' /\ AppendOn
<1>1. call.phase = "zero" /\ entry' = entry /\ Extending
  BY DEF ClearSectors, Extending
<1>2. PICK p \in Position :
         /\ CheckPosition(call.position, call.zeros, p)
         /\ IF call.zeros >= BytesPerSector
            THEN /\ Clear(p, BytesPerSector)
                 /\ call' = [call EXCEPT !.zeros = @ - BytesPerSector,
                                         !.position = [p EXCEPT !.sector = p.sector + 1]]
                 /\ UNCHANGED file
            ELSE /\ IF call.zeros > 0 THEN Clear([p EXCEPT !.byte = 0], call.zeros) ELSE io' = NoIo
                 /\ Extended(IF call.zeros > 0 THEN [p EXCEPT !.byte = call.zeros] ELSE p)
  BY DEF ClearSectors
<1>3. IsChain(chain')
  <2>1. CASE chain' = chain
    BY <1>1, <2>1, GrowFacts
  <2>2. CASE chain' # chain
    <3>1. PICK r \in Clusters : LinkFreeCluster(call.position.cluster, r)
      BY <1>2, <2>2 DEF CheckPosition
    <3>2. QED BY <1>1, <3>1, GrowFacts, WeakLinked
  <2>3. QED BY <2>1, <2>2
<1>4. \A q, n : Clear(q, n) => io'.write
  BY DEF Clear
<1>5. CASE call.zeros >= BytesPerSector
  <2>1. DOMAIN call' = CallFields /\ call'.phase = "zero" /\ call'.op = call.op /\ call'.target = call.target
    BY <1>1, <1>2, <1>5, GrowFacts DEF CallFields
  <2>2. QED BY <1>1, <1>2, <1>3, <1>4, <1>5, <2>1, WeakZero
<1>6. CASE ~(call.zeros >= BytesPerSector)
  BY <1>1, <1>2, <1>3, <1>4, <1>6, WeakExtended
<1>7. QED BY <1>5, <1>6

(* An extension that fails *)
LEMMA WeakExtendFails ==
    ASSUME Weak, file.inUse, file.append, ExtendFails
    PROVE  Weak' /\ AppendOn
<1>1. Extending /\ UNCHANGED <<chain, entry>> /\ call' = NoCall /\ io' = NoIo
  BY DEF ExtendFails, Extending
<1>2. file' = [file EXCEPT !.appendPosition = file.rwPosition, !.filesize = call.target, !.modified = TRUE]
  BY <1>1, GrowFacts DEF ExtendFails
<1>3. file.inUse \in BOOLEAN /\ file.append \in BOOLEAN
  BY DEF Weak, AnyFile
<1>4. /\ DOMAIN file' = FileFields /\ file'.inUse = TRUE /\ file'.append = TRUE /\ file'.modified = TRUE
      /\ file'.filesize \in Sizes
  BY <1>1, <1>2, <1>3, GrowFacts DEF FileFields
<1>5. QED BY <1>1, <1>4, GrowFacts, AppendReady

(* ftruncate to a smaller size, which cuts the chain *)
LEMMA WeakShrink ==
    ASSUME Weak, file.append, NEW newSize \in Sizes, Shrink(newSize)
    PROVE  Weak' /\ AppendOn
<1>1. /\ Ready /\ file.inUse /\ io' = NoIo /\ UNCHANGED <<entry, call>>
      /\ chain' = IF newSize < file.filesize
                  THEN SubSeq(chain, 1, Lesser(Len(chain), ChainLength(newSize))) ELSE chain
      /\ \E ap : file' = [file EXCEPT !.filesize = newSize, !.modified = TRUE, !.appendPosition = ap]
  BY DEF Shrink, Ready
<1>2. IsChain(chain) /\ DOMAIN file = FileFields /\ file.inUse \in BOOLEAN /\ file.append \in BOOLEAN /\ call = NoCall
  BY <1>1 DEF Weak, AnyFile, Ready
<1>3. IsChain(chain')
  <2>1. ChainLength(newSize) \in Nat /\ Len(chain) \in Nat
    BY <1>2, ChainLengthFits, ChainType, FileAssumption DEF Sizes
  <2>2. Lesser(Len(chain), ChainLength(newSize)) \in 0 .. Len(chain)
    BY <2>1 DEF Lesser
  <2>3. QED BY <1>1, <1>2, <2>2, ShortChain
<1>4. /\ DOMAIN file' = FileFields /\ file'.inUse = TRUE /\ file'.append = TRUE /\ file'.modified = TRUE
      /\ file'.filesize = newSize
  BY <1>1, <1>2 DEF FileFields
<1>5. QED BY <1>1, <1>2, <1>3, <1>4, AppendReady

(* The end of a write *)
LEMMA WeakEnd ==
    ASSUME Weak, file.inUse, file.append, End
    PROVE  Weak' /\ AppendOn
<1> DEFINE size == file.filesize + (call.len - call.remain)
<1>1. call.phase = "end" /\ UNCHANGED <<chain, entry>> /\ call' = NoCall /\ io' = NoIo
  BY DEF End
<1>2. /\ call.op = "write" /\ WriteLeft /\ IsChain(chain) /\ DOMAIN file = FileFields
      /\ call.remain \in Nat /\ call.len \in Nat /\ call.remain <= call.len
  BY <1>1, WriteFacts
<1>3. size \in Sizes
  <2>1. file.filesize + call.len <= FILE_MAX_SIZE
    BY <1>2 DEF WriteLeft
  <2>2. QED BY <1>2, <2>1, WeakTypes DEF Sizes
<1>4. file' = [file EXCEPT !.modified = TRUE, !.appendPosition = call.position, !.filesize = size]
  BY <1>2 DEF End
<1> HIDE DEF size
<1>5. file.inUse \in BOOLEAN /\ file.append \in BOOLEAN
  BY DEF Weak, AnyFile
<1>6. /\ DOMAIN file' = FileFields /\ file'.inUse = TRUE /\ file'.append = TRUE /\ file'.modified = TRUE
      /\ file'.filesize = size
  BY <1>2, <1>4, <1>5 DEF FileFields
<1>7. QED BY <1>1, <1>2, <1>3, <1>6, AppendReady

(* A write that finds no cluster *)
LEMMA WeakOutOfSpace ==
    ASSUME Weak, file.inUse, file.append, OutOfSpace
    PROVE  Weak' /\ AppendOn
<1>1. /\ call.phase \in {"partial", "clusters"} /\ UNCHANGED <<chain, entry, file>> /\ io' = NoIo
      /\ call' = [call EXCEPT !.phase = "end"]
  BY DEF OutOfSpace
<1>2. call.op = "write" /\ IsChain(chain) /\ call.remain \in Nat /\ DOMAIN call = CallFields
  BY <1>1, WriteFacts
<1>3. /\ DOMAIN call' = CallFields /\ call'.phase = "end" /\ call'.op = "write" /\ call'.len = call.len
      /\ call'.remain = call.remain - 0 /\ 0 \in Nat /\ 0 <= call.remain
  BY <1>1, <1>2 DEF CallFields
<1>4. QED BY <1>1, <1>2, <1>3, WriteStep

(* A file opened with O_APPEND is written, cut, extended, fsynced or closed *)
LEMMA AppendSteps ==
    ASSUME ReadSetting, Weak, file.inUse, file.append, Next
    PROVE  Weak' /\ AppendOn
<1>1. ~Makes("read") /\ ~Makes("seek") /\ ~Makes("seekPast")
  BY DEF ReadSetting, Calls, Makes
<1>2. CASE Close
  BY <1>2, WeakClose DEF AppendOn
<1>3. CASE Fsync
  BY <1>3, WeakFsync DEF AppendOn
<1>4. ASSUME NEW n \in Sizes, Write(n) \/ Shrink(n) \/ Grow(n) PROVE Weak' /\ AppendOn
  BY <1>4, WeakWrite, WeakShrink, WeakGrow
<1>5. CASE Partial \/ ToClusterEnd \/ StartGroup \/ WriteGroup
  BY <1>5, WeakPartial, WeakToClusterEnd, WeakStartGroup, WeakWriteGroup
<1>6. CASE Rest \/ Last \/ OutOfSpace \/ End
  BY <1>6, WeakRest, WeakLast, WeakOutOfSpace, WeakEnd
<1>7. CASE StartExtend \/ ClearSectors \/ ExtendFails
  BY <1>7, WeakStartExtend, WeakClearSectors, WeakExtendFails
<1>8. ~ReadGroup /\ ~ReadNext
  <2>1. call.phase \in {"group", "next"} => call.op = "write" /\ call.phase # "next"
    BY WriteFacts DEF WriteLeft
  <2>2. QED BY <2>1 DEF ReadGroup, ReadNext
<1>9. /\ \A mode \in OpenModes : ~Open(mode)
      /\ \A n \in Sizes : ~Read(n) /\ ~Seek(n)
  BY <1>1 DEF Open, Read, Seek
<1>10. QED BY <1>2, <1>3, <1>4, <1>5, <1>6, <1>7, <1>8, <1>9 DEF Next, Requests, Steps

(* open finds what close has left.  If the chain covers it, it is read.    *)
LEMMA WeakOpen ==
    ASSUME ReadSetting, ~Exact, Weak, NEW mode \in OpenModes, Open(mode)
    PROVE  ReadInvariant'
<1> DEFINE cut == mode = "O_TRUNC" /\ entry.startCluster # CLUSTER_FREE
           size == IF cut THEN 0 ELSE entry.filesize
<1>1. /\ ~file.inUse /\ io' = NoIo /\ UNCHANGED <<entry, call>> /\ chain' = (IF cut THEN <<>> ELSE Found)
      /\ \E rw, ap : file' = [inUse |-> TRUE, append |-> mode = "O_APPEND", modified |-> cut, filesize |-> size,
                              currentPosition |-> 0, rwPosition |-> rw, appendPosition |-> ap]
  BY DEF Open
<1>2. /\ IsChain(chain) /\ IsChain(Found) /\ call = NoCall /\ DOMAIN call = CallFields
      /\ entry \in [filesize : Sizes, startCluster : Clusters \cup {CLUSTER_FREE}]
  BY <1>1, FoundChain DEF Weak, AnyFile, Open
<1>3. IsChain(chain') /\ size \in Sizes
  <2>1. IsChain(<<>>) /\ 0 \in Sizes
    BY FileAssumption DEF IsChain, Sizes
  <2>2. QED BY <1>1, <1>2, <2>1
<1>4. cut \in BOOLEAN /\ (~cut => chain' = Found /\ size = entry.filesize) /\ (cut => mode # "O_APPEND")
  BY <1>1
<1> HIDE DEF cut, size
<1>5. /\ DOMAIN file' = FileFields /\ file'.inUse = TRUE /\ file'.append = (mode = "O_APPEND") /\ file'.modified = cut
      /\ file'.filesize = size
  BY <1>1 DEF FileFields
<1>6. Weak'
  <2>1. AnyFile'
    BY <1>1, <1>2, <1>3, <1>4, <1>5 DEF AnyFile
  <2>2. PlainFile' /\ AppendFile'
    BY <1>1, <1>2, <1>5, WeakTypes DEF PlainFile, AppendFile
  <2>3. QED BY <2>1, <2>2 DEF Weak
<1>7. ASSUME Reading' PROVE Inv'
  <2>1. mode # "O_APPEND" /\ ClustersFor(size) <= Len(chain')
    BY <1>5, <1>7 DEF Reading, Covered
  <2>2. cut \/ Filled(Len(Found), entry.filesize)
    <3>1. ASSUME ~cut PROVE size <= Len(Found) * BytesPerCluster
      <4>1. size \in Nat /\ Len(Found) \in Nat /\ ClustersFor(size) <= Len(Found)
        BY <1>2, <1>3, <1>4, <2>1, <3>1, ChainType, FileAssumption DEF Sizes
      <4>2. PICK m \in Nat : m = ClustersFor(size) /\ size <= m * BytesPerCluster
        BY <4>1, ClustersForFits DEF Fits
      <4>3. m * BytesPerCluster <= Len(Found) * BytesPerCluster
        BY <4>1, <4>2, PositiveSizes, ProductGrows
      <4>4. m * BytesPerCluster \in Int /\ Len(Found) * BytesPerCluster \in Int
        BY <4>1, <4>2, PositiveSizes, ProductGrows
      <4>5. QED BY <4>1, <4>2, <4>3, <4>4
    <3>2. QED BY <1>4, <3>1 DEF Filled
  <2>3. call \in Call /\ call.phase = "none" /\ call.op = "none"
    BY <1>2, WeakTypes
  <2>4. QED BY <1>2, <2>1, <2>2, <2>3, OpenFinds DEF cut
<1>8. QED BY <1>6, <1>7 DEF ReadInvariant

(* The file that is there at first is closed *)
LEMMA WeakInit ==
    ASSUME ReadSetting, Init
    PROVE  ReadInvariant
<1>1. Inv /\ call = NoCall /\ io = NoIo /\ ~file.inUse
  BY InitInv DEF Init
<1>2. IsChain(chain) /\ file \in FileStruct /\ call \in Call /\ FileTyped /\ ClosedState
  BY <1>1, Types DEF Inv
<1>3. /\ DOMAIN file = FileFields /\ file.inUse \in BOOLEAN /\ file.append \in BOOLEAN /\ file.modified \in BOOLEAN
      /\ file.filesize \in Sizes
  BY <1>2 DEF FileStruct, FileFields
<1>4. DOMAIN call = CallFields
  BY <1>2 DEF Call, CallFields
<1>5. AnyFile
  BY <1>1, <1>2, <1>3, <1>4, NoCallType DEF AnyFile, FileTyped, ClosedState
<1>6. QED BY <1>1, <1>5 DEF ReadInvariant, Weak, Reading

(* Every step keeps it *)
LEMMA WeakNext ==
    ASSUME ReadSetting, ~Exact, ReadInvariant, [Next]_vars
    PROVE  ReadInvariant'
<1>1. Weak
  BY DEF ReadInvariant
<1>2. CASE UNCHANGED vars
  <2>1. chain' = chain /\ entry' = entry /\ file' = file /\ call' = call /\ io' = io
    BY <1>2 DEF vars
  <2>2. Weak'
    BY <1>1, <2>1 DEF Weak, AnyFile, PlainFile, AppendFile, WriteLeft, Extending
  <2>3. Reading' => Reading
    BY <2>1 DEF Reading, Covered
  <2>4. Reading => Inv'
    BY NextInv DEF ReadInvariant, Reading, LostState
  <2>5. QED BY <2>2, <2>3, <2>4 DEF ReadInvariant
<1>3. CASE Next /\ ~file.inUse
  <2>1. call.phase = "none"
    BY <1>1, <1>3 DEF Weak, AnyFile
  <2>2. ~Steps
    BY <2>1 DEF Steps, Partial, ToClusterEnd, ReadNext, StartGroup, ReadGroup, WriteGroup, Rest, Last, OutOfSpace, End,
                StartExtend, ClearSectors, ExtendFails
  <2>3. ~Requests
    BY <1>3 DEF Requests, Ready, Close, Fsync, Read, Write, Seek, Shrink, Grow
  <2>4. QED BY <1>1, <1>3, <2>2, <2>3, WeakOpen DEF Next
<1>4. CASE Next /\ file.inUse /\ file.append
  <2>1. Weak' /\ ~Reading'
    BY <1>1, <1>4, AppendSteps DEF AppendOn, Reading
  <2>2. QED BY <2>1 DEF ReadInvariant
<1>5. CASE Next /\ file.inUse /\ ~file.append
  <2>1. Weak' /\ PlainOn
    BY <1>1, <1>5, PlainSteps
  <2>2. Reading' => Reading
    BY <1>5, <2>1 DEF Reading, PlainOn, Covered
  <2>3. Reading => Inv'
    BY NextInv DEF ReadInvariant, Reading, LostState
  <2>4. QED BY <2>1, <2>2, <2>3 DEF ReadInvariant
<1>6. QED BY <1>2, <1>3, <1>4, <1>5

(* No other state has a transfer that read anything, or it has one of a    *)
(* damaged file                                                            *)
LEMMA WeakReads ==
    ASSUME ReadInvariant
    PROVE  ReadsHitFile
<1>1. Weak
  BY DEF ReadInvariant
<1>2. CASE Reading
  BY <1>2 DEF ReadInvariant, Inv, TransfersRight
<1>3. CASE io = NoIo
  <2>1. io.offset + io.size <= file.filesize /\ 0 .. io.size - 1 = {}
    BY <1>1, <1>3, WeakTypes DEF NoIo
  <2>2. QED BY <2>1 DEF ReadsHitFile, HitsFile
<1>4. CASE ~Reading /\ io # NoIo
  <2>1. io.write \/ ~Covered
    BY <1>1, <1>4 DEF Weak, AnyFile, AppendFile, Reading
  <2>2. QED BY <2>1 DEF ReadsHitFile
<1>5. QED BY <1>2, <1>3, <1>4

-----------------------------------------------------------------------------
(* The theorems *)

(* A position that is somewhere stands for its offset as the chain has it *)
LEMMA AtStandsFor ==
    ASSUME IsChain(chain), NEW p \in Position, NEW o, Somewhere(chain, p, o)
    PROVE  StandsFor(p, o)
<1> DEFINE C == BytesPerCluster
           B == BytesPerSector
           S == SectorsPerCluster
<1>1. PICK k \in 1 .. Len(chain) : At(chain, p, o, k)
  BY DEF Somewhere
<1>2. /\ k \in Nat /\ k >= 1 /\ k <= Len(chain) /\ o \in Nat /\ C \in Nat \ {0} /\ B \in Nat \ {0} /\ S \in Nat \ {0}
      /\ p.cluster = chain[k] /\ chain[k] \in Int
  BY <1>1, AtType, ChainType, PositiveSizes DEF At
<1>3. CASE p.sector = S
  <2>1. o = k * C /\ p.byte = 0
    BY <1>1, <1>3, AtType DEF At
  <2> HIDE DEF C
  <2>2. o = k * C + 0 /\ 0 \in 0 .. C - 1 /\ o \in Int /\ k \in Int
    BY <1>2, <2>1, ProductGrows
  <2>3. o \div C = k /\ o % C = 0
    BY <1>2, <2>2, DivisionUnique
  <2>4. 0 < o
    <3>1. 0 < k => 0 * C + C <= k * C
      BY <1>2, ProductGrows
    <3>2. k * C \in Int
      BY <1>2, ProductGrows
    <3>3. QED BY <1>2, <2>1, <3>1, <3>2
  <2>5. p = [cluster |-> chain[k], sector |-> S, byte |-> 0]
    BY <1>2, <1>3, <2>1 DEF Position
  <2>6. QED BY <1>2, <2>3, <2>4, <2>5 DEF StandsFor, C
<1>4. CASE p.sector # S
  <2>1. p.sector < S
    BY <1>2, <1>4, PositionFields
  <2>2. PICK x \in Nat : x = p.sector * B /\ x + B <= C
    BY <1>1, <2>1, AtSector
  <2>3. PICK b \in Nat : b = p.byte /\ b < B
    BY <1>1, AtType
  <2>4. PICK d \in 0 .. C - 1 : d = x + b
    BY <1>2, <2>2, <2>3
  <2>5. (k - 1) * C \in Int
    <3>1. k - 1 \in Int
      BY <1>2
    <3>2. QED BY <1>2, <3>1, ProductGrows
  <2>6. o = (k - 1) * C + d
    <3>1. o = (k - 1) * C + x + b
      BY <1>1, <2>2, <2>3 DEF At
    <3>2. QED BY <2>2, <2>3, <2>4, <2>5, <3>1
  <2>7. o \div C < Len(chain) /\ chain[o \div C + 1] = chain[k] /\ o % C = d
    BY <1>1, <2>4, <2>6, PlaceInCluster
  <2>8. PICK a \in Int : a = (chain[k] - CLUSTER_FIRST) * C
    <3>1. chain[k] - CLUSTER_FIRST \in Int
      BY <1>2 DEF CLUSTER_FIRST
    <3>2. QED BY <1>2, <3>1, ProductGrows
  <2>9. Address(p.cluster, p.sector, p.byte) = a + x + b
    BY <1>2, <2>2, <2>3, <2>8 DEF Address
  <2>10. Address(chain[k], 0, 0) = a + 0 * B + 0 /\ 0 * B = 0
    BY <1>2, <2>8 DEF Address
  <2>11. PlaceOf(o) = a + d
    BY <2>7, <2>8, <2>10 DEF PlaceOf
  <2>12. a + x + b = a + d
    BY <2>2, <2>3, <2>4, <2>8
  <2>13. QED BY <2>1, <2>7, <2>9, <2>11, <2>12 DEF StandsFor, HasPlace
<1>5. QED BY <1>3, <1>4

(* What the invariant says between two calls *)
LEMMA InvAgrees ==
    ASSUME Inv, LostState, Exact
    PROVE  TypeOK /\ PositionAgrees /\ AppendAgrees /\ ChainFitsSize /\ ClosedFileIsFound /\ StopsOnlyWhenFull
<1>1. PositionAgrees
  <2>1. ASSUME Ready, chain # <<>>, file.currentPosition <= file.filesize
        PROVE  Somewhere(chain, file.rwPosition, file.currentPosition)
    <3>1. CASE file.append
      <4>1. At(chain, file.rwPosition, file.currentPosition, 1) /\ Len(chain) \in Nat /\ Len(chain) # 0
        BY <2>1, <3>1, ReadyFacts
      <4>2. 1 \in 1 .. Len(chain)
        BY <4>1
      <4>3. QED BY <4>1, <4>2 DEF Somewhere
    <3>2. CASE ~file.append
      BY <2>1, <3>2, ReadyFacts DEF PlainSettled
    <3>3. QED BY <3>1, <3>2
  <2>2. QED BY <2>1, ReadyFacts, AtStandsFor DEF PositionAgrees
<1>2. AppendAgrees
  BY ReadyFacts, AtStandsFor DEF AppendAgrees, AppendSettled
<1>3. ChainFitsSize
  <2>1. ASSUME Ready PROVE Len(chain) = ClustersFor(file.filesize)
    <3>1. Fits(Len(chain), file.filesize)
      BY <2>1, ReadyFacts DEF Filled, Fits
    <3>2. QED BY <2>1, <3>1, ReadyFacts, ClustersForFits
  <2>2. QED BY <2>1 DEF ChainFitsSize
<1>4. ClosedFileIsFound
  <2>1. ASSUME ~file.inUse PROVE entry.startCluster = StartCluster /\ ClustersFor(entry.filesize) <= Len(chain)
    <3>1. entry.startCluster = StartCluster /\ Fits(Len(chain), entry.filesize)
      BY <2>1 DEF Inv, ClosedState, Filled, Fits
    <3>2. entry.filesize \in Nat /\ Len(chain) \in Nat
      BY Types, ChainType, FileAssumption DEF Inv, FileTyped, Sizes
    <3>3. ClustersFor(entry.filesize) = Len(chain)
      BY <3>1, <3>2, ClustersForFits
    <3>4. QED BY <3>1, <3>2, <3>3
  <2>2. QED BY <2>1 DEF ClosedFileIsFound
<1>5. StopsOnlyWhenFull
  BY DEF Inv, PhaseState, StopsOnlyWhenFull, Taken
<1>6. TypeOK
  BY DEF Inv, FileTyped, LostState, TypeOK
<1>7. QED BY <1>1, <1>2, <1>3, <1>4, <1>5, <1>6

(* The invariant holds of every state that the calls of Setting lead to *)
LEMMA FileInvariant ==
    ASSUME Setting
    PROVE  Spec => [](Inv /\ LostState)
<1>1. Init => Inv /\ LostState
  BY InitInv DEF Setting, ReadSetting
<1>2. Inv /\ LostState /\ [Next]_vars => Inv' /\ LostState'
  BY NextInv DEF Setting
<1>3. QED BY <1>1, <1>2, PTL DEF Spec

(* The variables of an open file keep their types: no offset leaves the    *)
(* range of uint32_t, no position its cluster, and no cluster is linked    *)
(* twice (fatfile.c).                                                      *)
THEOREM FileTypes ==
    ASSUME Setting
    PROVE  Spec => []TypeOK
<1>1. Inv /\ LostState => TypeOK
  BY InvAgrees DEF Setting
<1>2. QED BY <1>1, FileInvariant, PTL

(* Every byte that _FAT_write_r and _FAT_file_extend_r put on the disc     *)
(* goes to the place that the chain gives to its offset, for sectors,      *)
(* clusters and transfers of any size, and whichever free clusters the     *)
(* file is given.                                                          *)
THEOREM FileWritesInPlace ==
    ASSUME Setting
    PROVE  Spec => []WritesHitFile
<1>1. Inv => WritesHitFile
  BY DEF Inv, TransfersRight
<1>2. QED BY <1>1, FileInvariant, PTL

(* Every byte that _FAT_read_r fetches comes from the place that the chain *)
(* gives to its offset, and none from behind the end of the file; also if  *)
(* transfers fail, and in a file that an earlier _FAT_write_r or           *)
(* _FAT_file_extend_r failed to extend or _FAT_syncToDisc to save, so long *)
(* as its chain holds the bytes that its entry says it has.                *)
THEOREM FileReadsInPlace ==
    ASSUME ReadSetting
    PROVE  Spec => []ReadsHitFile
<1>1. CASE Exact
  <2>1. Inv => ReadsHitFile
    BY DEF Inv, TransfersRight
  <2>2. Setting
    BY <1>1 DEF Setting, ReadSetting
  <2>3. QED BY <2>1, <2>2, FileInvariant, PTL
<1>2. CASE ~Exact
  <2>1. Init => ReadInvariant
    BY WeakInit
  <2>2. ReadInvariant /\ [Next]_vars => ReadInvariant'
    BY <1>2, WeakNext
  <2>3. ReadInvariant => ReadsHitFile
    BY WeakReads
  <2>4. QED BY <2>1, <2>2, <2>3, PTL DEF Spec
<1>3. QED BY <1>1, <1>2

(* The last sector of a write is erased behind the bytes written only      *)
(* where the file ends (_FAT_write_r, _FAT_cache_eraseWritePartialSector): *)
(* no byte of the file is lost.                                            *)
THEOREM FileEraseSpares ==
    ASSUME Setting
    PROVE  Spec => []EraseSpares
<1>1. Inv => EraseSpares
  BY DEF Inv, TransfersRight
<1>2. QED BY <1>1, FileInvariant, PTL

(* Between two calls the read/write pointer of an open file stands for its *)
(* current position, after any sequence of reads or writes, _FAT_seek_r,   *)
(* _FAT_ftruncate_r and _FAT_fsync_r.                                      *)
THEOREM FilePosition ==
    ASSUME Setting
    PROVE  Spec => []PositionAgrees
<1>1. Inv /\ LostState => PositionAgrees
  BY InvAgrees DEF Setting
<1>2. QED BY <1>1, FileInvariant, PTL

(* Between two calls the append pointer stands for the end of the file:    *)
(* _FAT_write_r, _FAT_file_extend_r and _FAT_ftruncate_r move the two      *)
(* together.                                                               *)
THEOREM FileAppendPosition ==
    ASSUME Setting
    PROVE  Spec => []AppendAgrees
<1>1. Inv /\ LostState => AppendAgrees
  BY InvAgrees DEF Setting
<1>2. QED BY <1>1, FileInvariant, PTL

(* Between two calls the file has the clusters that its bytes need and no  *)
(* others, for every size of sector and cluster: none is linked too early  *)
(* at the end of a cluster, and ftruncate drops none too many.             *)
THEOREM FileChainFitsSize ==
    ASSUME Setting
    PROVE  Spec => []ChainFitsSize
<1>1. Inv /\ LostState => ChainFitsSize
  BY InvAgrees DEF Setting
<1>2. QED BY <1>1, FileInvariant, PTL

(* The directory entry that _FAT_close_r and _FAT_fsync_r leave names the  *)
(* first cluster of the file and a size that its chain holds.  Setting     *)
(* leaves out a disc that fails while a file with changes is saved.        *)
THEOREM FileFoundAgain ==
    ASSUME Setting
    PROVE  Spec => []ClosedFileIsFound
<1>1. Inv /\ LostState => ClosedFileIsFound
  BY InvAgrees DEF Setting
<1>2. QED BY <1>1, FileInvariant, PTL

(* If no transfer fails, _FAT_read_r reads all bytes up to the end of the  *)
(* file that it is asked for, and _FAT_write_r stops before the bytes that *)
(* the greatest size of a file leaves it only when every cluster of the    *)
(* volume is taken.                                                        *)
THEOREM FileStopsOnlyWhenFull ==
    ASSUME Setting
    PROVE  Spec => []StopsOnlyWhenFull
<1>1. Inv /\ LostState => StopsOnlyWhenFull
  BY InvAgrees DEF Setting
<1>2. QED BY <1>1, FileInvariant, PTL
=============================================================================
