---------------------------- MODULE WcFileProofs ----------------------------
(***************************************************************************)
(* Theorems about reading with wcfat, for every chain and every size of    *)
(* blocks and clusters: the runs that fit into the FILE_STRUCT of an open  *)
(* file are the begin of its chain, a read moves the pointer by what was   *)
(* asked for, and a transfer that begins at its block, in a cluster whose  *)
(* neighbour comes next, takes the bytes of the file.                      *)
(*                                                                         *)
(* Build and Before are recursive functions.  That they are what their     *)
(* equations say, and what holds of them at every index, is shown by the   *)
(* least index at which it would fail (Least).                             *)
(***************************************************************************)
EXTENDS WcFileProps, TLAPS, NaturalsInduction, WellFoundedInduction

-----------------------------------------------------------------------------
(* Numbers                                                                 *)
(* A set of natural numbers that is not empty has a least one.             *)
LEMMA Least ==
    ASSUME NEW T \in SUBSET Nat, T # {}
    PROVE  \E x \in T : \A y \in T : x <= y
<1>1. PICK R : /\ \E x \in T : \A y \in T : ~(<<y, x>> \in R)
               /\ \A x, y \in Nat : x < y => <<x, y>> \in R
  <2>1. IsWellFoundedOn(OpToRel(<, Nat), Nat)
    BY NatLessThanWellFounded
  <2>2. \A x, y \in Nat : x < y => <<x, y>> \in OpToRel(<, Nat)
    BY Zenon DEF OpToRel
  <2>3. \E x \in T : \A y \in T : ~(<<y, x>> \in OpToRel(<, Nat))
    BY <2>1, WFMin, Zenon
  <2> QED  BY <2>2, <2>3, Zenon
<1>2. PICK x \in T : \A y \in T : ~(<<y, x>> \in R)
  BY <1>1
<1>3. ASSUME NEW y \in T PROVE x <= y
  <2>1. x \in Nat /\ y \in Nat
    OBVIOUS
  <2>2. ~(y < x)
    BY <1>1, <1>2, <2>1
  <2> QED  BY <2>1, <2>2
<1> QED  BY <1>3

(* What is a multiple and a rest has them for its quotient and remainder.  *)
LEMMA DivMod ==
    ASSUME NEW n \in Nat \ {0}, NEW q \in Nat, NEW r \in 0 .. n - 1
    PROVE  (q * n + r) \div n = q /\ (q * n + r) % n = r
OBVIOUS

(* A number is its quotient times the divisor, and its remainder.          *)
LEMMA Quotient ==
    ASSUME NEW n \in Nat \ {0}, NEW a \in Nat
    PROVE  /\ a \div n \in Nat /\ a % n \in 0 .. n - 1
           /\ a = (a \div n) * n + (a % n)
<1> DEFINE P(b) == \E q \in Nat, r \in 0 .. n - 1 : b = q * n + r
           T == {b \in Nat : ~P(b)}
<1>0. ASSUME NEW b \in Nat, b < n PROVE P(b)
  <2>1. b \in 0 .. n - 1 /\ 0 \in Nat /\ b = 0 * n + b
    BY <1>0
  <2> QED  BY <2>1
<1>1. ASSUME NEW b \in Nat, b >= n, P(b - n) PROVE P(b)
  <2>1. PICK q \in Nat, r \in 0 .. n - 1 : b - n = q * n + r
    BY <1>1
  <2>2. q + 1 \in Nat /\ b = (q + 1) * n + r
    BY <2>1
  <2> QED  BY <2>2
<1>2. P(a)
  <2> HIDE DEF P
  <2>1. SUFFICES ASSUME T # {} PROVE FALSE
    OBVIOUS
  <2>2. PICK b \in T : \A c \in T : b <= c
    BY <2>1, Least
  <2>a. b \in Nat /\ ~P(b)
    OBVIOUS
  <2>3. b >= n /\ b - n \in Nat
    BY <1>0, <2>a
  <2>4. b - n \notin T
    BY <2>2, <2>3
  <2>5. P(b - n)
    BY <2>3, <2>4
  <2>6. P(b)
    BY <1>1, <2>a, <2>3, <2>5
  <2> QED  BY <2>a, <2>6
<1>3. PICK q \in Nat, r \in 0 .. n - 1 : a = q * n + r
  BY <1>2
<1>4. a \div n = q /\ a % n = r
  BY <1>3, DivMod
<1> QED  BY <1>3, <1>4

(* The lesser of two numbers                                               *)
LEMMA LeastOfTwo ==
    ASSUME NEW a \in Int, NEW b \in Int
    PROVE  Min({a, b}) = IF a <= b THEN a ELSE b
BY DEF Min

-----------------------------------------------------------------------------
(* Runs of clusters                                                        *)
Run == [first : Clusters, count : Nat]

(* The constants are numbers.                                              *)
LEMMA Constants ==
    /\ total_clust \in Nat /\ total_clust > 0 /\ BlockSize \in Nat /\ BlockSize > 0
    /\ ClusterBlocks \in Nat /\ ClusterBlocks > 0 /\ EightBlocks \in Nat /\ EightBlocks > 0
    /\ MaxClusters \in Nat /\ MaxLen \in Nat /\ ChainInfos \in Nat /\ ChainInfos > 0
    /\ \A c \in Clusters : c \in Nat
<1>1. /\ total_clust \in Nat /\ total_clust # 0 /\ BlockSize \in Nat /\ BlockSize # 0
      /\ ClusterBlocks \in Nat /\ ClusterBlocks # 0 /\ EightBlocks \in Nat /\ EightBlocks # 0
      /\ MaxClusters \in Nat /\ MaxLen \in Nat /\ ChainInfos \in Nat /\ ChainInfos # 0
  BY WcAssumption
<1> QED  BY <1>1 DEF Clusters

(* A run that has grown                                                    *)
LEMMA GrownRun ==
    ASSUME NEW run \in Run
    PROVE  /\ [run EXCEPT !.count = @ + 1] \in Run
           /\ [run EXCEPT !.count = @ + 1].first = run.first
           /\ [run EXCEPT !.count = @ + 1].count = run.count + 1
BY DEF Run

(* o counts the clusters before each run                                   *)
Offsets(runs, o) ==
    /\ o \in [1 .. Len(runs) + 1 -> Nat]
    /\ o[1] = 0
    /\ \A r \in 1 .. Len(runs) : o[r + 1] = o[r] + runs[r].count + 1

(* The runs are the first n clusters of the chain, and no run could have   *)
(* been longer.                                                            *)
StandFor(runs, o, n) ==
    /\ runs \in Seq(Run) /\ Len(runs) >= 1
    /\ Offsets(runs, o)
    /\ o[Len(runs) + 1] = n
    /\ \A r \in 1 .. Len(runs) : \A i \in 0 .. runs[r].count : chain[o[r] + i + 1] = runs[r].first + i
    /\ \A r \in 1 .. Len(runs) - 1 : chain[o[r + 1] + 1] # chain[o[r + 1]] + 1

Stand(runs, n) == \E o : StandFor(runs, o, n)

(* A run by itself                                                         *)
LEMMA FirstRun ==
    ASSUME chain \in Seq(Clusters), Len(chain) >= 1
    PROVE  Stand(<<[first |-> chain[1], count |-> 0]>>, 1)
<1> DEFINE runs == <<[first |-> chain[1], count |-> 0]>>
           o == [r \in 1 .. 2 |-> r - 1]
<1>1. chain[1] \in Clusters /\ chain[1] \in Int
  BY Constants
<1>2. runs \in Seq(Run) /\ Len(runs) = 1 /\ runs[1].first = chain[1] /\ runs[1].count = 0
  BY <1>1 DEF Run
<1>3. o \in [1 .. 2 -> Nat] /\ o[1] = 0 /\ o[2] = 1
  OBVIOUS
<1> HIDE DEF runs, o
<1>4. Offsets(runs, o)
  BY <1>2, <1>3 DEF Offsets
<1>5. StandFor(runs, o, 1)
  BY <1>1, <1>2, <1>3, <1>4 DEF StandFor
<1> QED  BY <1>5 DEF Stand, runs

(* One more cluster                                                        *)
LEMMA ExtendedStands ==
    ASSUME chain \in Seq(Clusters), NEW n \in 1 .. Len(chain) - 1,
           NEW runs, Stand(runs, n)
    PROVE  Stand(Extended(runs, chain[n], chain[n + 1]), n + 1)
<1> DEFINE m == Len(runs)
           cur == chain[n]
           next == chain[n + 1]
<1>1. PICK o : StandFor(runs, o, n)
  BY DEF Stand
<1>2. /\ runs \in Seq(Run) /\ m \in Nat /\ m >= 1
      /\ o \in [1 .. m + 1 -> Nat] /\ o[1] = 0
      /\ \A r \in 1 .. m : o[r + 1] = o[r] + runs[r].count + 1
      /\ o[m + 1] = n
      /\ \A r \in 1 .. m : \A i \in 0 .. runs[r].count : chain[o[r] + i + 1] = runs[r].first + i
      /\ \A r \in 1 .. m - 1 : chain[o[r + 1] + 1] # chain[o[r + 1]] + 1
  BY <1>1 DEF StandFor, Offsets
<1>3. cur \in Clusters /\ next \in Clusters /\ cur \in Int /\ next \in Int
  BY Constants
<1>4. \A r \in 1 .. m : runs[r] \in Run /\ runs[r].count \in Nat /\ runs[r].first \in Int
  <2>1. \A r \in 1 .. m : runs[r] \in Run
    BY <1>2
  <2> QED  BY <2>1, Constants DEF Run
<1>5. CASE next - cur = 1
  <2> DEFINE R == [runs EXCEPT ![m].count = @ + 1]
             p == [o EXCEPT ![m + 1] = @ + 1]
  <2>1. /\ R \in Seq(Run) /\ Len(R) = m
        /\ \A r \in 1 .. m : R[r].first = runs[r].first
        /\ \A r \in 1 .. m - 1 : R[r].count = runs[r].count
        /\ R[m].count = runs[m].count + 1
    <3>1. [runs[m] EXCEPT !.count = @ + 1] \in Run
      BY <1>2, <1>4, GrownRun
    <3>2. R = [runs EXCEPT ![m] = [runs[m] EXCEPT !.count = @ + 1]]
      BY <1>2
    <3>3. m \in 1 .. m /\ Len(runs) = m
      BY <1>2
    <3>4. R \in Seq(Run) /\ Len(R) = m
      BY <1>2, <3>1, <3>2, <3>3
    <3>5. \A r \in 1 .. m : R[r] = IF r = m THEN [runs[m] EXCEPT !.count = @ + 1] ELSE runs[r]
      BY <1>2, <3>2, <3>3
    <3>6. [runs[m] EXCEPT !.count = @ + 1].first = runs[m].first
          /\ [runs[m] EXCEPT !.count = @ + 1].count = runs[m].count + 1
      BY <1>4, <3>3, GrownRun
    <3> QED  BY <1>2, <3>4, <3>5, <3>6
  <2>2. /\ p \in [1 .. m + 1 -> Nat] /\ p[m + 1] = n + 1
        /\ \A r \in 1 .. m : p[r] = o[r]
    BY <1>2
  <2> HIDE DEF R, p
  <2>3. Offsets(R, p)
    <3>1. \A r \in 1 .. m : p[r + 1] = p[r] + R[r].count + 1
      <4> SUFFICES ASSUME NEW r \in 1 .. m PROVE p[r + 1] = p[r] + R[r].count + 1
        OBVIOUS
      <4>1. CASE r = m
        BY <1>2, <1>4, <2>1, <2>2, <4>1
      <4>2. CASE r # m
        <5>1. r \in 1 .. m - 1 /\ r + 1 \in 1 .. m
          BY <1>2, <4>2
        <5> QED  BY <1>2, <2>1, <2>2, <5>1
      <4> QED  BY <4>1, <4>2
    <3> QED  BY <1>2, <2>1, <2>2, <3>1 DEF Offsets
  <2>4. ASSUME NEW r \in 1 .. m, NEW i \in 0 .. R[r].count
        PROVE  chain[p[r] + i + 1] = R[r].first + i
    <3>1. CASE i \in 0 .. runs[r].count
      BY <1>2, <2>1, <2>2, <3>1
    <3>2. CASE i \notin 0 .. runs[r].count
      <4>1. r = m /\ i = runs[m].count + 1
        <5>1. CASE r = m
          <6>1. runs[m].count \in Nat /\ R[m].count = runs[m].count + 1
            BY <1>2, <1>4, <2>1
          <6> QED  BY <3>2, <5>1, <6>1
        <5>2. CASE r # m
          <6>1. r \in 1 .. m - 1
            BY <1>2, <5>2
          <6> QED  BY <2>1, <3>2, <6>1
        <5> QED  BY <5>1, <5>2
      <4>2. p[r] + i + 1 = n + 1
        <5>1. p[r] = o[m] /\ o[m] \in Nat /\ runs[m].count \in Nat /\ n = o[m] + runs[m].count + 1
          BY <1>2, <1>4, <2>2, <4>1
        <5>2. \A a, c \in Nat : a + (c + 1) + 1 = (a + c + 1) + 1
          OBVIOUS
        <5>3. p[r] + i + 1 = o[m] + (runs[m].count + 1) + 1
          BY <4>1, <5>1, Zenon
        <5> QED  BY <5>1, <5>2, <5>3
      <4>3. cur = runs[m].first + runs[m].count
        <5>1. runs[m].count \in 0 .. runs[m].count /\ m \in 1 .. m
          BY <1>2, <1>4
        <5>2. o[m] + runs[m].count + 1 = n
          BY <1>2
        <5> QED  BY <1>2, <5>1, <5>2
      <4>4. R[r].first = runs[m].first /\ runs[m].first \in Int /\ runs[m].count \in Int
        BY <1>2, <1>4, <2>1, <4>1
      <4>5. R[r].first + i = cur + 1
        BY <4>1, <4>3, <4>4
      <4> QED  BY <1>3, <1>5, <4>2, <4>5
    <3> QED  BY <3>1, <3>2
  <2>5. \A r \in 1 .. m - 1 : chain[p[r + 1] + 1] # chain[p[r + 1]] + 1
    <3>1. \A r \in 1 .. m - 1 : r + 1 \in 1 .. m
      BY <1>2
    <3> QED  BY <1>2, <2>2, <3>1
  <2>6. StandFor(R, p, n + 1)
    BY <1>2, <2>1, <2>2, <2>3, <2>4, <2>5 DEF StandFor
  <2>7. Extended(runs, cur, next) = R
    BY <1>5 DEF Extended, R
  <2> QED  BY <2>6, <2>7 DEF Stand
<1>6. CASE next - cur # 1
  <2> DEFINE new == [first |-> next, count |-> 0]
             R == Append(runs, new)
             p == [r \in 1 .. m + 2 |-> IF r <= m + 1 THEN o[r] ELSE n + 1]
  <2>0. new \in Run /\ new.first = next /\ new.count = 0
    BY <1>3 DEF Run
  <2> HIDE DEF new
  <2>1. R \in Seq(Run) /\ Len(R) = m + 1 /\ R[m + 1] = new /\ \A r \in 1 .. m : R[r] = runs[r]
    BY <1>2, <2>0
  <2>2. /\ p \in [1 .. m + 2 -> Nat] /\ p[m + 2] = n + 1
        /\ \A r \in 1 .. m + 1 : p[r] = o[r]
    BY <1>2
  <2> HIDE DEF R, p
  <2>3. Offsets(R, p)
    <3>1. \A r \in 1 .. m + 1 : p[r + 1] = p[r] + R[r].count + 1
      <4> SUFFICES ASSUME NEW r \in 1 .. m + 1 PROVE p[r + 1] = p[r] + R[r].count + 1
        OBVIOUS
      <4>1. CASE r = m + 1
        BY <1>2, <2>0, <2>1, <2>2, <4>1
      <4>2. CASE r # m + 1
        <5>1. r \in 1 .. m /\ r + 1 \in 1 .. m + 1
          BY <1>2, <4>2
        <5> QED  BY <1>2, <2>1, <2>2, <5>1
      <4> QED  BY <4>1, <4>2
    <3> QED  BY <1>2, <2>1, <2>2, <3>1 DEF Offsets
  <2>4. ASSUME NEW r \in 1 .. m + 1, NEW i \in 0 .. R[r].count
        PROVE  chain[p[r] + i + 1] = R[r].first + i
    <3>1. CASE r \in 1 .. m
      BY <1>2, <2>1, <2>2, <3>1
    <3>2. CASE r = m + 1
      <4>1. i = 0 /\ p[r] = n /\ R[r].first = next
        BY <1>2, <2>0, <2>1, <2>2, <3>2
      <4> QED  BY <1>3, <4>1
    <3> QED  BY <3>1, <3>2
  <2>5. \A r \in 1 .. m : chain[p[r + 1] + 1] # chain[p[r + 1]] + 1
    <3> SUFFICES ASSUME NEW r \in 1 .. m PROVE chain[p[r + 1] + 1] # chain[p[r + 1]] + 1
      OBVIOUS
    <3>1. r + 1 \in 1 .. m + 1 /\ p[r + 1] = o[r + 1]
      BY <1>2, <2>2
    <3>2. CASE r = m
      BY <1>2, <1>3, <1>6, <3>1, <3>2
    <3>3. CASE r # m
      <4>1. r \in 1 .. m - 1
        BY <1>2, <3>3
      <4> QED  BY <1>2, <3>1, <4>1
    <3> QED  BY <3>2, <3>3
  <2>6. StandFor(R, p, n + 1)
    BY <1>2, <2>1, <2>2, <2>3, <2>4, <2>5 DEF StandFor
  <2>7. Extended(runs, cur, next) = R
    BY <1>6 DEF Extended, R, new
  <2> QED  BY <2>6, <2>7 DEF Stand
<1> QED  BY <1>5, <1>6

(* Where the chain is first broken                                         *)
LEMMA WhereBroken ==
    ASSUME chain \in Seq(Clusters), Len(chain) >= 1
    PROVE  /\ FirstBroken \in 2 .. Len(chain) + 1
           /\ \A k \in 2 .. Len(chain) : k < FirstBroken => ~IsBroken(chain[k - 1], chain[k])
           /\ FirstBroken <= Len(chain) => IsBroken(chain[FirstBroken - 1], chain[FirstBroken])
<1> DEFINE broken == {k \in 2 .. Len(chain) : IsBroken(chain[k - 1], chain[k])}
<1>0. Len(chain) \in Nat
  OBVIOUS
<1>1. CASE broken = {}
  <2>1. FirstBroken = Len(chain) + 1
    BY <1>1 DEF FirstBroken
  <2>2. \A k \in 2 .. Len(chain) : ~IsBroken(chain[k - 1], chain[k])
    BY <1>1
  <2> QED  BY <1>0, <2>1, <2>2
<1>2. CASE broken # {}
  <2>1. FirstBroken = Min(broken)
    BY <1>2 DEF FirstBroken
  <2>2. broken \in SUBSET Nat
    BY <1>0
  <2> HIDE DEF broken
  <2>3. \E x \in broken : \A y \in broken : x <= y
    BY <1>2, <2>2, Least
  <2>4. FirstBroken \in broken /\ \A y \in broken : FirstBroken <= y
    BY <2>1, <2>3 DEF Min
  <2>5. FirstBroken \in 2 .. Len(chain) /\ IsBroken(chain[FirstBroken - 1], chain[FirstBroken])
    BY <2>4 DEF broken
  <2>6. ASSUME NEW k \in 2 .. Len(chain), k < FirstBroken PROVE ~IsBroken(chain[k - 1], chain[k])
    <3>1. k \notin broken
      BY <1>0, <2>4, <2>5, <2>6
    <3> QED  BY <3>1 DEF broken
  <2> QED  BY <1>0, <2>5, <2>6
<1> QED  BY <1>1, <1>2

(* What one link makes of what is built                                    *)
Linked(so, k) ==
    IF so.broken \/ IsBroken(chain[k - 1], GetNextCluster(k - 1)) THEN [so EXCEPT !.broken = TRUE]
    ELSE [so EXCEPT !.runs = Extended(so.runs, chain[k - 1], GetNextCluster(k - 1))]

OneRun == [broken |-> FALSE, runs |-> <<[first |-> chain[1], count |-> 0]>>]

Builds(g, m) == g = [k \in 1 .. m |-> IF k = 1 THEN OneRun ELSE Linked(g[k - 1], k)]

(* Build is what its definition says.                                      *)
LEMMA BuildIsBuilt ==
    ASSUME NEW n \in Nat, Len(chain) = n
    PROVE  Builds(Build, n)
<1> DEFINE P(m) == \E g : Builds(g, m)
           T == {m \in Nat : ~P(m)}
<1>1. P(0)
  <2>1. PICK g : g = [k \in 1 .. 0 |-> 0]
    OBVIOUS
  <2>2. 1 .. 0 = {}
    OBVIOUS
  <2>3. g = [k \in 1 .. 0 |-> IF k = 1 THEN OneRun ELSE Linked(g[k - 1], k)]
    BY <2>1, <2>2
  <2> QED  BY <2>3 DEF Builds
<1>2. ASSUME NEW m \in Nat, P(m) PROVE P(m + 1)
  <2>1. PICK g : Builds(g, m)
    BY <1>2
  <2> DEFINE h == [k \in 1 .. m + 1 |-> IF k <= m THEN g[k] ELSE IF k = 1 THEN OneRun ELSE Linked(g[m], k)]
  <2>2. \A k \in 1 .. m : g[k] = IF k = 1 THEN OneRun ELSE Linked(g[k - 1], k)
    BY <2>1 DEF Builds
  <2>3. \A k \in 1 .. m + 1 : h[k] = IF k <= m THEN g[k] ELSE IF k = 1 THEN OneRun ELSE Linked(g[m], k)
    OBVIOUS
  <2>4. h = [k \in 1 .. m + 1 |-> h[k]]
    OBVIOUS
  <2> HIDE DEF h
  <2>5. ASSUME NEW k \in 1 .. m + 1 PROVE h[k] = IF k = 1 THEN OneRun ELSE Linked(h[k - 1], k)
    <3>1. CASE k = 1
      BY <2>2, <2>3, <3>1
    <3>2. CASE k # 1
      <4>1. k - 1 \in 1 .. m /\ k - 1 \in 1 .. m + 1 /\ k - 1 <= m
        BY <3>2
      <4>2. h[k - 1] = g[k - 1]
        BY <2>3, <4>1
      <4>3. CASE k <= m
        <5>1. k \in 1 .. m
          BY <4>3
        <5> QED  BY <2>2, <2>3, <3>2, <4>2, <4>3, <5>1
      <4>4. CASE ~(k <= m)
        <5>1. k - 1 = m
          BY <4>4
        <5> QED  BY <2>3, <3>2, <4>2, <4>4, <5>1
      <4> QED  BY <4>3, <4>4
    <3> QED  BY <3>1, <3>2
  <2>6. h = [k \in 1 .. m + 1 |-> IF k = 1 THEN OneRun ELSE Linked(h[k - 1], k)]
    BY <2>4, <2>5
  <2> QED  BY <2>6 DEF Builds
<1>3. P(n)
  <2> HIDE DEF P
  <2>1. SUFFICES ASSUME T # {} PROVE FALSE
    OBVIOUS
  <2>2. PICK b \in T : \A c \in T : b <= c
    BY <2>1, Least
  <2>3. b \in Nat /\ ~P(b)
    OBVIOUS
  <2>4. b # 0 /\ b - 1 \in Nat
    BY <1>1, <2>3
  <2>5. b - 1 \notin T
    BY <2>2, <2>4
  <2>6. P(b - 1)
    BY <2>4, <2>5
  <2>7. P((b - 1) + 1)
    BY <1>2, <2>4, <2>6
  <2>8. (b - 1) + 1 = b
    BY <2>3
  <2> QED  BY <2>3, <2>7, <2>8
<1>4. PICK g : Builds(g, n)
  BY <1>3
<1>5. Build = CHOOSE f : f = [k \in 1 .. n |-> IF k = 1 THEN OneRun ELSE Linked(f[k - 1], k)]
  BY Zenon DEF Build, OneRun, Linked
<1>6. g = [k \in 1 .. n |-> IF k = 1 THEN OneRun ELSE Linked(g[k - 1], k)]
  BY <1>4 DEF Builds
<1>7. Build = [k \in 1 .. n |-> IF k = 1 THEN OneRun ELSE Linked(Build[k - 1], k)]
  BY <1>5, <1>6, Zenon
<1> QED  BY <1>7 DEF Builds

(* What is built stands for the chain, as far as it is not broken.         *)
LEMMA BuiltStands ==
    ASSUME chain \in Seq(Clusters), Len(chain) >= 1
    PROVE  Stand(BuildClusterChain, FirstBroken - 1)
<1> DEFINE n == Len(chain)
           fb == FirstBroken
           F == Build
           Q(k) == /\ F[k] \in [broken : BOOLEAN, runs : Seq(Run)]
                   /\ F[k].broken = (k >= fb)
                   /\ Stand(F[k].runs, IF k >= fb THEN fb - 1 ELSE k)
           T == {k \in 1 .. n : ~Q(k)}
<1>1. n \in Nat /\ n >= 1
  OBVIOUS
<1>2. Builds(F, n)
  BY <1>1, BuildIsBuilt
<1>3. F[1] = OneRun /\ \A k \in 2 .. n : F[k] = Linked(F[k - 1], k)
  <2>1. \A k \in 1 .. n : F[k] = IF k = 1 THEN OneRun ELSE Linked(F[k - 1], k)
    BY <1>2 DEF Builds
  <2>2. 1 \in 1 .. n /\ \A k \in 2 .. n : k \in 1 .. n /\ k # 1
    BY <1>1
  <2> QED  BY <2>1, <2>2
<1>4. /\ fb \in 2 .. n + 1
      /\ \A k \in 2 .. n : k < fb => ~IsBroken(chain[k - 1], chain[k])
      /\ fb <= n => IsBroken(chain[fb - 1], chain[fb])
  BY WhereBroken
<1> HIDE DEF fb, F
<1>5. Q(1)
  <2>1. Stand(<<[first |-> chain[1], count |-> 0]>>, 1)
    BY FirstRun
  <2>2. <<[first |-> chain[1], count |-> 0]>> \in Seq(Run)
    BY <2>1 DEF Stand, StandFor
  <2>3. F[1] \in [broken : BOOLEAN, runs : Seq(Run)] /\ ~F[1].broken
        /\ F[1].runs = <<[first |-> chain[1], count |-> 0]>>
    BY <1>3, <2>2 DEF OneRun
  <2>4. ~(1 >= fb)
    BY <1>1, <1>4
  <2> QED  BY <2>1, <2>3, <2>4
<1>6. ASSUME NEW k \in 2 .. n, Q(k - 1) PROVE Q(k)
  <2> DEFINE so == F[k - 1]
  <2>1. /\ so \in [broken : BOOLEAN, runs : Seq(Run)]
        /\ so.broken = (k - 1 >= fb)
        /\ Stand(so.runs, IF k - 1 >= fb THEN fb - 1 ELSE k - 1)
    BY <1>6
  <2>2. F[k] = Linked(so, k)
    BY <1>3
  <2> HIDE DEF so
  <2>3. GetNextCluster(k - 1) = chain[k]
    <3>1. k - 1 < Len(chain) /\ (k - 1) + 1 = k
      BY <1>1
    <3> QED  BY <3>1 DEF GetNextCluster
  <2>4. k - 1 \in 1 .. n - 1 /\ (k - 1) + 1 = k
    BY <1>1
  <2>5. CASE k >= fb
    <3>1. so.broken \/ IsBroken(chain[k - 1], chain[k])
      <4>1. CASE k = fb
        <5>1. fb <= n
          BY <1>1, <4>1
        <5> QED  BY <1>4, <4>1, <5>1
      <4>2. CASE k # fb
        <5>1. k - 1 >= fb
          BY <1>4, <2>5, <4>2
        <5> QED  BY <2>1, <5>1
      <4> QED  BY <4>1, <4>2
    <3>2. F[k] = [so EXCEPT !.broken = TRUE]
      BY <2>2, <2>3, <3>1 DEF Linked
    <3>3. F[k] \in [broken : BOOLEAN, runs : Seq(Run)] /\ F[k].broken = TRUE /\ F[k].runs = so.runs
      BY <2>1, <3>2
    <3>4. (IF k - 1 >= fb THEN fb - 1 ELSE k - 1) = fb - 1
      BY <1>1, <1>4, <2>5
    <3> QED  BY <2>1, <2>5, <3>3, <3>4
  <2>6. CASE ~(k >= fb)
    <3>1. k < fb /\ ~(k - 1 >= fb)
      BY <1>1, <1>4, <2>6
    <3>2. ~so.broken /\ ~IsBroken(chain[k - 1], chain[k])
      BY <1>4, <2>1, <3>1
    <3> DEFINE R == Extended(so.runs, chain[k - 1], chain[k])
    <3>3. F[k] = [so EXCEPT !.runs = R]
      BY <2>2, <2>3, <3>2 DEF Linked
    <3>4. Stand(R, (k - 1) + 1)
      <4>1. Stand(so.runs, k - 1)
        BY <2>1, <3>1
      <4>2. Stand(Extended(so.runs, chain[k - 1], chain[(k - 1) + 1]), (k - 1) + 1)
        BY <2>4, <4>1, ExtendedStands
      <4> QED  BY <2>4, <4>2
    <3> HIDE DEF R
    <3>5. Stand(R, k) /\ R \in Seq(Run)
      BY <2>4, <3>4 DEF Stand, StandFor
    <3>6. F[k] \in [broken : BOOLEAN, runs : Seq(Run)] /\ F[k].broken = FALSE /\ F[k].runs = R
      BY <2>1, <3>2, <3>3, <3>5
    <3> QED  BY <2>6, <3>5, <3>6
  <2> QED  BY <2>5, <2>6
<1>7. Q(n)
  <2> HIDE DEF Q
  <2>1. SUFFICES ASSUME T # {} PROVE FALSE
    BY <1>1
  <2>a. T \in SUBSET Nat
    BY <1>1
  <2>2. PICK b \in T : \A c \in T : b <= c
    BY <2>1, <2>a, Least
  <2>3. b \in 1 .. n /\ ~Q(b)
    OBVIOUS
  <2>4. b \in 2 .. n /\ b - 1 \in 1 .. n /\ ~(b <= b - 1)
    BY <1>1, <1>5, <2>3
  <2>5. b - 1 \notin T
    BY <2>2, <2>4
  <2>6. Q(b - 1)
    BY <2>4, <2>5
  <2> QED  BY <1>6, <2>3, <2>4, <2>6
<1>8. (IF n >= fb THEN fb - 1 ELSE n) = fb - 1
  BY <1>1, <1>4
<1>9. BuildClusterChain = F[n].runs
  BY DEF BuildClusterChain, F
<1>10. Stand(F[n].runs, fb - 1)
  BY <1>7, <1>8
<1> QED  BY <1>9, <1>10 DEF fb

(* The offsets of runs are what Before says.                               *)
LEMMA BeforeIsOffsets ==
    ASSUME fs.runs \in Seq(Run), NEW o, Offsets(fs.runs, o)
    PROVE  Before = o
<1> DEFINE m == Len(fs.runs)
           S(f) == [r \in 1 .. m + 1 |-> IF r = 1 THEN 0 ELSE f[r - 1] + fs.runs[r - 1].count + 1]
<1>1. m \in Nat
  OBVIOUS
<1>2. o = S(o)
  <2>1. /\ o \in [1 .. m + 1 -> Nat] /\ o[1] = 0
        /\ \A r \in 1 .. m : o[r + 1] = o[r] + fs.runs[r].count + 1
    BY DEF Offsets
  <2>2. ASSUME NEW r \in 1 .. m + 1, r # 1 PROVE o[r] = o[r - 1] + fs.runs[r - 1].count + 1
    <3>1. r - 1 \in 1 .. m /\ (r - 1) + 1 = r
      BY <1>1, <2>2
    <3> QED  BY <2>1, <3>1
  <2>3. o = [r \in 1 .. m + 1 |-> o[r]]
    BY <2>1
  <2>4. \A r \in 1 .. m + 1 : o[r] = IF r = 1 THEN 0 ELSE o[r - 1] + fs.runs[r - 1].count + 1
    BY <2>1, <2>2
  <2> QED  BY <2>3, <2>4
<1>3. Before = CHOOSE f : f = S(f)
  BY Zenon DEF Before
<1> DEFINE B == CHOOSE f : f = S(f)
<1>4. B = S(B)
  <2> HIDE DEF S
  <2> QED  BY <1>2, Zenon
<1> HIDE DEF B
<1> DEFINE T == {r \in 1 .. m + 1 : B[r] # o[r]}
<1>5. T = {}
  <2>0. \A r \in 1 .. m + 1 : /\ B[r] = IF r = 1 THEN 0 ELSE B[r - 1] + fs.runs[r - 1].count + 1
                              /\ o[r] = IF r = 1 THEN 0 ELSE o[r - 1] + fs.runs[r - 1].count + 1
    <3>1. \A r \in 1 .. m + 1 : S(B)[r] = IF r = 1 THEN 0 ELSE B[r - 1] + fs.runs[r - 1].count + 1
      OBVIOUS
    <3>2. \A r \in 1 .. m + 1 : S(o)[r] = IF r = 1 THEN 0 ELSE o[r - 1] + fs.runs[r - 1].count + 1
      OBVIOUS
    <3> HIDE DEF S
    <3> QED  BY <1>2, <1>4, <3>1, <3>2
  <2>1. SUFFICES ASSUME T # {} PROVE FALSE
    OBVIOUS
  <2>a. T \in SUBSET Nat
    BY <1>1
  <2>2. PICK b \in T : \A c \in T : b <= c
    BY <2>1, <2>a, Least
  <2>3. b \in 1 .. m + 1 /\ B[b] # o[b]
    OBVIOUS
  <2>4. b # 1 /\ b - 1 \in 1 .. m + 1 /\ ~(b <= b - 1)
    BY <1>1, <2>0, <2>3
  <2>5. B[b - 1] = o[b - 1]
    BY <2>2, <2>4
  <2> QED  BY <2>0, <2>3, <2>4, <2>5
<1>6. Before = B
  BY <1>3 DEF B
<1>7. B = [r \in 1 .. m + 1 |-> B[r]]
  BY <1>4
<1>8. o = [r \in 1 .. m + 1 |-> o[r]]
  BY <1>2
<1>9. \A r \in 1 .. m + 1 : B[r] = o[r]
  BY <1>5
<1>10. B = o
  BY <1>7, <1>8, <1>9
<1> QED  BY <1>6, <1>10

-----------------------------------------------------------------------------
(* Looking up a position                                                   *)

(* Runs that come later begin later.                                       *)
LEMMA OffsetsGrow ==
    ASSUME NEW runs \in Seq(Run), NEW o, Offsets(runs, o),
           NEW r \in 1 .. Len(runs) + 1, NEW q \in 1 .. r - 1
    PROVE  o[q + 1] <= o[r]
<1> DEFINE m == Len(runs)
           T == {s \in 1 .. m + 1 : s > q /\ ~(o[q + 1] <= o[s])}
<1>1. m \in Nat /\ q \in Nat
  OBVIOUS
<1>2. /\ o \in [1 .. m + 1 -> Nat]
      /\ \A s \in 1 .. m : o[s + 1] = o[s] + runs[s].count + 1
      /\ \A s \in 1 .. m : runs[s].count \in Nat
  <2>1. \A s \in 1 .. m : runs[s] \in Run
    OBVIOUS
  <2>2. \A s \in 1 .. m : runs[s].count \in Nat
    BY <2>1 DEF Run
  <2> QED  BY <2>2 DEF Offsets
<1>b. r \in 1 .. m + 1 /\ q \in 1 .. r - 1
  OBVIOUS
<1> HIDE DEF m
<1>3. T \in SUBSET Nat
  BY <1>1
<1>4. T = {}
  <2>1. SUFFICES ASSUME T # {} PROVE FALSE
    OBVIOUS
  <2>2. PICK s \in T : \A c \in T : s <= c
    BY <2>1, <1>3, Least
  <2>3. s \in 1 .. m + 1 /\ s > q /\ ~(o[q + 1] <= o[s]) /\ s \in Nat
    BY <1>1
  <2>a. o[s] \in Nat
    BY <1>2, <2>3
  <2>4. s # q + 1
    BY <2>a, <2>3
  <2>5. s - 1 \in 1 .. m /\ s - 1 \in 1 .. m + 1 /\ s - 1 > q /\ (s - 1) + 1 = s /\ ~(s <= s - 1)
    BY <1>1, <2>3, <2>4
  <2>6. s - 1 \notin T
    BY <2>2, <2>5
  <2>7. o[q + 1] <= o[s - 1]
    BY <2>5, <2>6
  <2>8. o[s] = o[s - 1] + runs[s - 1].count + 1 /\ runs[s - 1].count \in Nat /\ o[s - 1] \in Nat
    BY <1>2, <2>5
  <2>9. o[q + 1] \in Nat
    <3>1. q + 1 \in 1 .. m + 1
      BY <1>1, <1>b
    <3> QED  BY <1>2, <3>1
  <2> QED  BY <2>3, <2>7, <2>8, <2>9
<1>5. r > q /\ r \in 1 .. m + 1
  BY <1>1, <1>b
<1> QED  BY <1>1, <1>b, <1>4, <1>5

(* The runs stand for n clusters: all that are followed, or as many as     *)
(* there was room for.                                                     *)
StandUpTo(runs, n) ==
    /\ Stand(runs, n)
    /\ n \in 1 .. FirstBroken - 1
    /\ n + 1 < FirstBroken => Len(runs) = ChainInfos /\ chain[n + 1] # chain[n] + 1

RunsStand == \E n : StandUpTo(fs.runs, n)

(* What there is room for stands for as many clusters as it has.           *)
LEMMA KeptStands ==
    ASSUME chain \in Seq(Clusters), Len(chain) >= 1,
           NEW runs, Stand(runs, FirstBroken - 1)
    PROVE  \E n : StandUpTo(Kept(runs), n)
<1> DEFINE m == Len(runs)
           fb == FirstBroken
           k == Min({m, ChainInfos})
           R == Kept(runs)
<1>1. PICK o : StandFor(runs, o, fb - 1)
  BY DEF Stand
<1>2. fb \in Nat /\ fb >= 2 /\ ChainInfos \in Nat /\ ChainInfos > 0
  BY WhereBroken, Constants
<1>a. R = SubSeq(runs, 1, k)
  BY DEF Kept
<1> HIDE DEF fb, R
<1>3. /\ runs \in Seq(Run) /\ m \in Nat /\ m >= 1
      /\ o \in [1 .. m + 1 -> Nat] /\ o[1] = 0
      /\ \A r \in 1 .. m : o[r + 1] = o[r] + runs[r].count + 1
      /\ o[m + 1] = fb - 1
      /\ \A r \in 1 .. m : \A i \in 0 .. runs[r].count : chain[o[r] + i + 1] = runs[r].first + i
      /\ \A r \in 1 .. m - 1 : chain[o[r + 1] + 1] # chain[o[r + 1]] + 1
  BY <1>1 DEF StandFor, Offsets
<1>4. k = IF m <= ChainInfos THEN m ELSE ChainInfos
  <2>1. m \in Int /\ ChainInfos \in Int
    BY <1>2, <1>3
  <2> HIDE DEF m
  <2> QED  BY <2>1, LeastOfTwo
<1>5. k \in 1 .. m /\ k <= ChainInfos /\ (k < m => k = ChainInfos)
  BY <1>2, <1>3, <1>4
<1> HIDE DEF k, m
<1>6. R \in Seq(Run) /\ Len(R) = k /\ \A r \in 1 .. k : R[r] = runs[r]
  <2>1. k \in Nat /\ k <= Len(runs)
    BY <1>3, <1>5 DEF m
  <2>2. R = [r \in 1 .. k |-> runs[r]]
    BY <1>a, <1>3, <2>1
  <2>3. \A r \in 1 .. k : runs[r] \in Run
    BY <1>3, <2>1
  <2> QED  BY <2>1, <2>2, <2>3
<1> DEFINE p == [r \in 1 .. k + 1 |-> o[r]]
<1>7. p \in [1 .. k + 1 -> Nat] /\ \A r \in 1 .. k + 1 : p[r] = o[r]
  <2>1. \A r \in 1 .. k + 1 : r \in 1 .. m + 1
    BY <1>3, <1>5
  <2> QED  BY <1>3, <2>1
<1> HIDE DEF p
<1>b. \A r \in 1 .. k : r \in 1 .. m /\ r \in 1 .. k + 1 /\ r + 1 \in 1 .. k + 1
  BY <1>3, <1>5
<1>c. 1 \in 1 .. k + 1 /\ k + 1 \in 1 .. k + 1 /\ k \in 1 .. k /\ k \in Nat
  BY <1>3, <1>5
<1>8. Offsets(R, p)
  <2>1. p[1] = 0
    BY <1>3, <1>7, <1>c
  <2>2. \A r \in 1 .. k : p[r + 1] = p[r] + R[r].count + 1
    BY <1>3, <1>6, <1>7, <1>b, Zenon
  <2> QED  BY <1>6, <1>7, <2>1, <2>2 DEF Offsets
<1>9. Stand(R, o[k + 1])
  <2>1. ASSUME NEW r \in 1 .. k, NEW i \in 0 .. R[r].count
        PROVE  chain[p[r] + i + 1] = R[r].first + i
    <3>1. r \in 1 .. m /\ R[r] = runs[r] /\ p[r] = o[r]
      BY <1>6, <1>7, <1>b
    <3>2. i \in 0 .. runs[r].count
      BY <3>1
    <3>3. chain[o[r] + i + 1] = runs[r].first + i
      BY <1>3, <3>1, <3>2
    <3> QED  BY <3>1, <3>3
  <2>2. \A r \in 1 .. k - 1 : chain[p[r + 1] + 1] # chain[p[r + 1]] + 1
    <3>1. \A r \in 1 .. k - 1 : r \in 1 .. m - 1 /\ r + 1 \in 1 .. k + 1
      BY <1>3, <1>5
    <3> QED  BY <1>3, <1>7, <3>1, Zenon
  <2>3. p[k + 1] = o[k + 1] /\ Len(R) >= 1
    BY <1>5, <1>6, <1>7, <1>c
  <2> QED  BY <1>6, <1>8, <2>1, <2>2, <2>3 DEF Stand, StandFor
<1>10. o[k + 1] \in 1 .. fb - 1
  <2>1. o[k + 1] = o[k] + runs[k].count + 1 /\ o[k] \in Nat /\ o[k + 1] \in Nat
    <3>1. k \in 1 .. m + 1 /\ k + 1 \in 1 .. m + 1
      BY <1>3, <1>5
    <3> QED  BY <1>3, <1>5, <3>1
  <2>2. runs[k].count \in Nat
    <3>1. runs[k] \in Run
      BY <1>3, <1>5 DEF m
    <3> QED  BY <3>1 DEF Run
  <2>3. o[k + 1] <= o[m + 1]
    <3>1. m + 1 \in 1 .. Len(runs) + 1 /\ k \in 1 .. (m + 1) - 1
      BY <1>3, <1>5 DEF m
    <3>2. Offsets(runs, o)
      BY <1>1 DEF StandFor
    <3> QED  BY <1>3, <3>1, <3>2, OffsetsGrow
  <2> QED  BY <1>2, <1>3, <2>1, <2>2, <2>3
<1>11. ASSUME o[k + 1] + 1 < fb PROVE Len(R) = ChainInfos /\ chain[o[k + 1] + 1] # chain[o[k + 1]] + 1
  <2>1. k # m
    BY <1>2, <1>3, <1>11
  <2>2. k \in 1 .. m - 1 /\ k = ChainInfos
    BY <1>2, <1>3, <1>5, <2>1
  <2> QED  BY <1>3, <1>6, <2>2
<1> QED  BY <1>9, <1>10, <1>11 DEF StandUpTo, R, fb

(* What Before says of the runs of an open file                            *)
LEMMA BeforeRuns ==
    ASSUME RunsStand
    PROVE  /\ StandFor(fs.runs, Before, ClustersKept)
           /\ StandUpTo(fs.runs, ClustersKept)
<1>1. PICK n : StandUpTo(fs.runs, n)
  BY DEF RunsStand
<1>2. PICK o : StandFor(fs.runs, o, n)
  BY <1>1 DEF StandUpTo, Stand
<1>3. fs.runs \in Seq(Run) /\ Offsets(fs.runs, o) /\ o[Len(fs.runs) + 1] = n
  BY <1>2 DEF StandFor
<1>4. Before = o
  BY <1>3, BeforeIsOffsets
<1>5. ClustersKept = n
  BY <1>3, <1>4, Zenon DEF ClustersKept
<1> QED  BY <1>1, <1>2, <1>4, <1>5

(* The lookup, at a cluster whose neighbour comes next in the file: it     *)
(* finds that cluster, and how many after it are adjacent.                 *)
LEMMA FoundInRun ==
    ASSUME chain \in Seq(Clusters), Len(chain) >= 1, RunsStand, Order \in Nat,
           Order + 2 <= ClustersKept, chain[Order + 2] = chain[Order + 1] + 1,
           NEW at \in IterateFile
    PROVE  /\ at.remain \in Nat
           /\ Order + 1 + at.remain <= Len(chain)
           /\ \A j \in 0 .. at.remain : chain[Order + 1 + j] = at.cluster + j
<1> DEFINE m == Len(fs.runs)
           k == Order + 1
           n == ClustersKept
           o == Before
<1>1. /\ fs.runs \in Seq(Run) /\ m \in Nat /\ m >= 1
      /\ Offsets(fs.runs, o)
      /\ o \in [1 .. m + 1 -> Nat] /\ o[1] = 0
      /\ \A r \in 1 .. m : o[r + 1] = o[r] + fs.runs[r].count + 1
      /\ o[m + 1] = n
      /\ \A r \in 1 .. m : \A i \in 0 .. fs.runs[r].count : chain[o[r] + i + 1] = fs.runs[r].first + i
      /\ \A r \in 1 .. m - 1 : chain[o[r + 1] + 1] # chain[o[r + 1]] + 1
  <2> DEFINE runs == fs.runs
  <2>1. StandFor(runs, o, n)
    BY BeforeRuns
  <2> HIDE DEF o, n, runs
  <2>2. /\ runs \in Seq(Run) /\ Len(runs) >= 1
        /\ Offsets(runs, o)
        /\ o[Len(runs) + 1] = n
        /\ \A r \in 1 .. Len(runs) : \A i \in 0 .. runs[r].count : chain[o[r] + i + 1] = runs[r].first + i
        /\ \A r \in 1 .. Len(runs) - 1 : chain[o[r + 1] + 1] # chain[o[r + 1]] + 1
    BY <2>1, Zenon DEF StandFor
  <2>3. /\ o \in [1 .. Len(runs) + 1 -> Nat] /\ o[1] = 0
        /\ \A r \in 1 .. Len(runs) : o[r + 1] = o[r] + runs[r].count + 1
    BY <2>2, Zenon DEF Offsets
  <2>4. Len(runs) \in Nat
    BY <2>2
  <2> QED  BY <2>2, <2>3, <2>4, Zenon DEF runs
<1>2. \A r \in 1 .. m : fs.runs[r].count \in Nat /\ fs.runs[r].first \in Int
  <2>1. \A r \in 1 .. m : fs.runs[r] \in Run
    BY <1>1
  <2>2. \A run \in Run : run.count \in Nat /\ run.first \in Int
    BY Constants DEF Run
  <2> QED  BY <2>1, <2>2, Zenon
<1>3. n \in Nat /\ n <= Len(chain) /\ k < n /\ k \in Nat /\ k >= 1 /\ Len(chain) \in Nat
  <2>1. FirstBroken \in 2 .. Len(chain) + 1 /\ n \in 1 .. FirstBroken - 1
    BY WhereBroken, BeforeRuns DEF StandUpTo
  <2> HIDE DEF n
  <2>2. n \in Nat /\ n <= Len(chain) /\ Len(chain) \in Nat
    BY <2>1
  <2>3. Order + 2 <= n
    BY DEF n
  <2> QED  BY <2>2, <2>3
<1>a. DOMAIN fs.runs = 1 .. m
  BY <1>1
<1>b. Order \in Nat /\ k = Order + 1 /\ k + 1 = Order + 2 /\ chain[k + 1] = chain[k] + 1
  <2>1. Order + 2 = (Order + 1) + 1
    OBVIOUS
  <2> QED  BY <2>1
<1>c. Len(fs.runs) = m /\ fs.runs \in Seq(Run) /\ Offsets(fs.runs, o)
  BY <1>1
<1> HIDE DEF o, m, k, n
<1> DEFINE T == {r \in 1 .. m : k <= o[r + 1]}
<1>4. PICK r \in T : \A s \in T : r <= s
  <2>1. m \in 1 .. m /\ k <= o[m + 1]
    BY <1>1, <1>3
  <2>2. T # {} /\ T \in SUBSET Nat
    <3>1. 1 .. m \subseteq Nat
      BY <1>1
    <3> QED  BY <2>1, <3>1
  <2> QED  BY <2>2, Least
<1>5. r \in 1 .. m /\ r \in Nat /\ k <= o[r + 1] /\ o[r] \in Nat /\ o[r + 1] \in Nat
  <2>1. r \in 1 .. m /\ k <= o[r + 1] /\ m \in Nat
    BY <1>1
  <2>2. r \in Nat /\ r \in 1 .. m + 1 /\ r + 1 \in 1 .. m + 1
    BY <2>1
  <2>3. o[r] \in Nat /\ o[r + 1] \in Nat
    BY <1>1, <2>2
  <2> QED  BY <2>1, <2>2, <2>3
<1>6. o[r] < k
  <2>1. CASE r = 1
    BY <1>1, <1>3, <2>1
  <2>2. CASE r # 1
    <3>1. r - 1 \in 1 .. m /\ (r - 1) + 1 = r /\ ~(r <= r - 1)
      BY <1>1, <1>5, <2>2
    <3>2. r - 1 \notin T
      BY <1>4, <3>1
    <3>3. ~(k <= o[r])
      BY <3>1, <3>2
    <3> QED  BY <1>3, <1>5, <3>3
  <2> QED  BY <2>1, <2>2
<1>7. k # o[r + 1]
  <2>1. SUFFICES ASSUME k = o[r + 1] PROVE FALSE
    OBVIOUS
  <2>2. r \in 1 .. m - 1
    BY <1>1, <1>3, <1>5, <2>1
  <2>3. chain[k + 1] # chain[k] + 1
    BY <1>1, <2>1, <2>2
  <2> QED  BY <1>b, <2>3
<1> DEFINE count == fs.runs[r].count
           first == fs.runs[r].first
           left == Order - o[r]
<1>8. count \in Nat /\ first \in Int /\ left \in 0 .. count - 1
  <2>1. count \in Nat /\ first \in Int
    BY <1>2, <1>5
  <2>2. o[r + 1] = o[r] + count + 1
    BY <1>1, <1>5
  <2> HIDE DEF count, first
  <2>3. k \in Nat /\ k = Order + 1 /\ k < o[r + 1]
    BY <1>3, <1>b, <1>5, <1>7
  <2>4. left \in 0 .. count - 1
    BY <1>b, <1>5, <1>6, <2>1, <2>2, <2>3
  <2> QED  BY <2>1, <2>4
<1>9. \A q \in 1 .. r - 1 : Order - o[q] > fs.runs[q].count
  <2> SUFFICES ASSUME NEW q \in 1 .. r - 1 PROVE Order - o[q] > fs.runs[q].count
    OBVIOUS
  <2>1. q \in 1 .. m /\ r \in 1 .. m + 1
    BY <1>1, <1>5
  <2>2. o[q + 1] <= o[r]
    BY <1>c, <2>1, OffsetsGrow
  <2>3. o[q + 1] = o[q] + fs.runs[q].count + 1 /\ fs.runs[q].count \in Nat
    BY <1>1, <1>2, <2>1
  <2>4. q \in 1 .. m + 1
    BY <1>1, <2>1
  <2>5. o[q] \in Nat
    BY <1>1, <2>4
  <2>6. \A O, a, b, c, d \in Int : b = a + c + 1 /\ b <= d /\ d < O + 1 => O - a > c
    OBVIOUS
  <2>7. o[q + 1] \in Int /\ o[q] \in Int /\ fs.runs[q].count \in Int /\ o[r] \in Int /\ Order \in Int
    BY <1>b, <1>5, <2>3, <2>5
  <2>8. o[r] < Order + 1
    BY <1>b, <1>6, Zenon
  <2> QED  BY <2>2, <2>3, <2>6, <2>7, <2>8, Zenon
<1>10. RunsFound = {r}
  <2>1. RunsFound = {s \in 1 .. m : Order - o[s] < fs.runs[s].count
                                    /\ \A q \in 1 .. s - 1 : Order - o[q] > fs.runs[q].count}
    BY <1>a DEF RunsFound, o
  <2>2. r \in RunsFound
    <3>1. Order - o[r] < fs.runs[r].count
      BY <1>8
    <3> QED  BY <1>5, <1>9, <2>1, <3>1
  <2>3. ASSUME NEW s \in RunsFound PROVE s = r
    <3>1. /\ s \in 1 .. m /\ Order - o[s] < fs.runs[s].count
          /\ \A q \in 1 .. s - 1 : Order - o[q] > fs.runs[q].count
      BY <2>1
    <3>2. fs.runs[s].count \in Nat /\ o[s] \in Nat /\ s \in Nat
      <4>1. fs.runs[s].count \in Nat
        BY <1>2, <3>1
      <4>2. s \in Nat /\ s \in 1 .. m + 1
        BY <1>1, <3>1
      <4> QED  BY <1>1, <4>1, <4>2
    <3>3. ~(s < r)
      <4>1. SUFFICES ASSUME s < r PROVE FALSE
        OBVIOUS
      <4>2. s \in 1 .. r - 1
        BY <1>5, <3>1, <3>2, <4>1
      <4>3. Order - o[s] > fs.runs[s].count
        BY <1>9, <4>2
      <4> QED  BY <1>b, <3>1, <3>2, <4>3
    <3>4. ~(r < s)
      <4>1. SUFFICES ASSUME r < s PROVE FALSE
        OBVIOUS
      <4>2. r \in 1 .. s - 1
        BY <1>5, <3>1, <3>2, <4>1
      <4>3. left > count
        BY <3>1, <4>2
      <4> HIDE DEF left, count
      <4> QED  BY <1>8, <4>3
    <3> QED  BY <1>5, <3>2, <3>3, <3>4
  <2> QED  BY <2>2, <2>3
<1>11. at = [cluster |-> ClusterInRun(r), remain |-> count - left]
  BY <1>10 DEF IterateFile, o
<1>12. at.remain = count - left /\ at.cluster = first + Order - o[r]
  BY <1>11 DEF ClusterInRun, o
<1>13. at.remain \in Nat /\ at.cluster = first + left
  <2>1. first + Order - o[r] = first + (Order - o[r])
    <3> HIDE DEF first
    <3> QED  BY <1>b, <1>5, <1>8
  <2>2. at.cluster = first + left
    BY <1>12, <2>1
  <2> HIDE DEF first, left, count
  <2> QED  BY <1>8, <1>12, <2>2
<1>14. k + at.remain <= n
  <2>1. o[r + 1] = o[r] + count + 1
    BY <1>1, <1>5
  <2>2. o[r + 1] <= o[m + 1]
    <3>1. m + 1 \in 1 .. Len(fs.runs) + 1 /\ r \in 1 .. (m + 1) - 1
      BY <1>1, <1>5, <1>c
    <3> QED  BY <1>c, <3>1, OffsetsGrow
  <2>3. left = Order - o[r] /\ at.remain = count - left /\ o[m + 1] = n
    BY <1>1, <1>12
  <2>4. \A O, c, a, b, e \in Int : b = a + c + 1 /\ b <= e => (O + 1) + (c - (O - a)) <= e
    OBVIOUS
  <2> HIDE DEF left, count, first, T
  <2>5. Order \in Int /\ count \in Int /\ o[r] \in Int /\ o[r + 1] \in Int /\ n \in Int
    BY <1>b, <1>3, <1>5, <1>8
  <2>6. (Order + 1) + (count - (Order - o[r])) <= n
    BY <2>1, <2>2, <2>3, <2>4, <2>5
  <2> QED  BY <1>b, <2>3, <2>6
<1>15. ASSUME NEW j \in 0 .. at.remain PROVE chain[k + j] = at.cluster + j
  <2>1. left + j \in 0 .. count /\ o[r] + (left + j) + 1 = k + j
    <3>1. left = Order - o[r] /\ at.remain = count - left
      BY <1>12
    <3>2. \A O, a, l \in Int : l = O - a => a + (l + j) + 1 = (O + 1) + j
      <4>1. j \in Int
        OBVIOUS
      <4> QED  BY <4>1
    <3>a. j \in 0 .. at.remain
      OBVIOUS
    <3> HIDE DEF left, count, first, T
    <3>3. Order \in Int /\ o[r] \in Int /\ left \in Int
      BY <1>b, <1>5, <1>8
    <3>4. o[r] + (left + j) + 1 = k + j
      BY <1>b, <3>1, <3>2, <3>3
    <3>5. left + j \in 0 .. count
      <4>1. \A l, c \in Int : \A i \in 0 .. c - l : l >= 0 => l + i \in 0 .. c
        OBVIOUS
      <4>2. left \in Int /\ left >= 0 /\ count \in Int
        BY <1>8
      <4>3. j \in 0 .. count - left
        BY <3>1, <3>a, Zenon
      <4> QED  BY <4>1, <4>2, <4>3
    <3> QED  BY <3>4, <3>5
  <2>2. chain[o[r] + (left + j) + 1] = first + (left + j)
    BY <1>1, <1>5, <2>1
  <2>3. first + (left + j) = at.cluster + j
    <3> HIDE DEF left, count, first
    <3> QED  BY <1>8, <1>13
  <2> QED  BY <2>1, <2>2, <2>3
<1>16. k + at.remain <= Len(chain)
  BY <1>3, <1>13, <1>14
<1> QED  BY <1>b, <1>13, <1>15, <1>16

(* Whatever the lookup finds, some cluster is found and more than none     *)
(* remain.                                                                 *)
LEMMA FoundSome ==
    ASSUME RunsStand, Order \in Nat, NEW at \in IterateFile
    PROVE  at.cluster \in Int /\ at.remain \in Nat \ {0}
<1>1. /\ fs.runs \in Seq(Run)
      /\ Before \in [1 .. Len(fs.runs) + 1 -> Nat]
  BY BeforeRuns DEF StandFor, Offsets
<1>2. CASE RunsFound # {}
  <2>1. PICK r \in RunsFound : at = [cluster |-> ClusterInRun(r),
                                     remain |-> fs.runs[r].count - (Order - Before[r])]
    BY <1>2 DEF IterateFile
  <2>2. r \in 1 .. Len(fs.runs) /\ Order - Before[r] < fs.runs[r].count
    BY <1>1 DEF RunsFound
  <2>3. fs.runs[r] \in Run
    BY <1>1, <2>2
  <2>4. fs.runs[r].count \in Nat /\ fs.runs[r].first \in Int
    BY <2>3, Constants DEF Run
  <2>5. Before[r] \in Nat
    BY <1>1, <2>2
  <2>6. at.cluster = fs.runs[r].first + Order - Before[r]
        /\ at.remain = fs.runs[r].count - (Order - Before[r])
    BY <2>1 DEF ClusterInRun
  <2> QED  BY <2>2, <2>4, <2>5, <2>6
<1>3. CASE RunsFound = {}
  <2>1. at \in [cluster : Clusters, remain : 1 .. MaxClusters]
    BY <1>3 DEF IterateFile
  <2> QED  BY <2>1, Constants
<1> QED  BY <1>2, <1>3

-----------------------------------------------------------------------------
(* Where bytes are                                                         *)

(* Blocks and places in a block make up the place in a cluster.            *)
LEMMA BlockPlaces ==
    ASSUME NEW B \in Nat \ {0}, NEW C \in Nat \ {0}, NEW p \in Nat
    PROVE  /\ C * B \in Nat \ {0}
           /\ p % (C * B) = ((p \div B) % C) * B + (p % B)
           /\ p \div (C * B) = (p \div B) \div C
<1> DEFINE Q == p \div B
           i == p % B
           A == Q \div C
           b == Q % C
<1>1. Q \in Nat /\ i \in 0 .. B - 1 /\ p = Q * B + i
  BY Quotient
<1>2. A \in Nat /\ b \in 0 .. C - 1 /\ Q = A * C + b
  BY <1>1, Quotient
<1> HIDE DEF Q, i, A, b
<1>3. C * B \in Nat \ {0} /\ b * B \in Nat /\ A \in Nat
  BY <1>2
<1>4. b * B <= (C - 1) * B
  BY <1>2
<1>5. (C - 1) * B = C * B - B
  OBVIOUS
<1>6. b * B + i \in 0 .. C * B - 1
  BY <1>1, <1>3, <1>4, <1>5
<1>7. (A * C + b) * B = A * (C * B) + b * B
  BY <1>2
<1>8. p = A * (C * B) + (b * B + i)
  BY <1>1, <1>2, <1>3, <1>7
<1>9. p \div (C * B) = A /\ p % (C * B) = b * B + i
  BY <1>3, <1>6, <1>8, DivMod
<1> QED  BY <1>3, <1>9 DEF Q, i, A, b

(* A sector count times the bytes in it                                    *)
LEMMA SectorBytes ==
    ASSUME NEW B \in Nat, NEW C \in Nat, NEW c \in Int, NEW b \in Nat
    PROVE  (c * C + b) * B = c * (C * B) + b * B
OBVIOUS

(* A transfer of adjacent clusters takes the bytes of the file: it begins  *)
(* in cluster k, and j of the clusters after it are adjacent.              *)
LEMMA TransferHits ==
    ASSUME NEW p \in Nat, NEW c \in Int, NEW remain \in Nat, NEW size \in Nat,
           \A j \in 0 .. remain : chain[(p \div ClusterSize) + 1 + j] = c + j,
           (p % ClusterSize) + size <= (remain + 1) * ClusterSize
    PROVE  HitsFile([pos |-> p, size |-> size,
                     sector |-> (c - 2) * ClusterBlocks + ((p \div BlockSize) % ClusterBlocks)])
<1> DEFINE S == ClusterSize
           w == p % S
           Q == p \div S
           sector == (c - 2) * ClusterBlocks + ((p \div BlockSize) % ClusterBlocks)
           io == [pos |-> p, size |-> size, sector |-> sector]
<1>1. /\ BlockSize \in Nat \ {0} /\ ClusterBlocks \in Nat \ {0}
      /\ S = ClusterBlocks * BlockSize /\ S \in Nat \ {0}
  BY Constants, BlockPlaces DEF ClusterSize
<1>2. w = ((p \div BlockSize) % ClusterBlocks) * BlockSize + (p % BlockSize)
  BY <1>1, BlockPlaces
<1>3. Q \in Nat /\ w \in 0 .. S - 1 /\ p = Q * S + w
  <2>1. p \div S \in Nat /\ p % S \in 0 .. S - 1 /\ p = (p \div S) * S + (p % S)
    BY <1>1, Quotient
  <2> QED  BY <2>1
<1>4. sector * BlockSize + (p % BlockSize) = (c - 2) * S + w
  <2> DEFINE b == (p \div BlockSize) % ClusterBlocks
             i == p % BlockSize
  <2>1. p \div BlockSize \in Nat /\ i \in Nat
    <3>1. p \div BlockSize \in Nat /\ p % BlockSize \in 0 .. BlockSize - 1
      BY <1>1, Quotient
    <3> QED  BY <1>1, <3>1
  <2>2. b \in Nat
    <3>1. (p \div BlockSize) % ClusterBlocks \in 0 .. ClusterBlocks - 1
      BY <1>1, <2>1, Quotient
    <3> QED  BY <1>1, <3>1
  <2>3. sector = (c - 2) * ClusterBlocks + b /\ w = b * BlockSize + i
    BY <1>2
  <2> HIDE DEF b, i, sector, w, S
  <2>4. c - 2 \in Int
    OBVIOUS
  <2>5. ((c - 2) * ClusterBlocks + b) * BlockSize = (c - 2) * S + b * BlockSize
    BY <1>1, <2>2, <2>4, SectorBytes
  <2>6. (c - 2) * S \in Int /\ b * BlockSize \in Int
    BY <1>1, <2>2, <2>4
  <2>7. sector * BlockSize = (c - 2) * S + b * BlockSize
    BY <2>3, <2>5
  <2>8. sector * BlockSize + i = (c - 2) * S + (b * BlockSize + i)
    BY <2>1, <2>6, <2>7
  <2> QED  BY <2>3, <2>8 DEF i
<1>5. w + size <= (remain + 1) * S
  OBVIOUS
<1>6. \A j \in 0 .. remain : chain[Q + 1 + j] = c + j
  OBVIOUS
<1> HIDE DEF S, w, Q, sector
<1>7. ASSUME NEW o \in 0 .. size - 1
      PROVE  sector * BlockSize + (p % BlockSize) + o = PlaceOf(p + o)
  <2> DEFINE j == (w + o) \div S
             v == (w + o) % S
  <2>0. w + o \in Nat /\ o \in Nat /\ w \in Nat
    BY <1>1, <1>3
  <2>1. j \in Nat /\ v \in 0 .. S - 1 /\ w + o = j * S + v
    BY <1>1, <2>0, Quotient
  <2> HIDE DEF j, v
  <2>2. j <= remain
    <3>1. SUFFICES ASSUME j >= remain + 1 PROVE FALSE
      BY <2>1
    <3>2. (remain + 1) * S <= j * S
      BY <1>1, <2>1, <3>1
    <3>3. j * S <= w + o /\ w + o < w + size
      BY <1>1, <2>0, <2>1
    <3>4. (remain + 1) * S \in Int /\ j * S \in Int
      BY <1>1, <2>1
    <3> QED  BY <1>5, <2>0, <3>2, <3>3, <3>4
  <2>3. p + o = (Q + j) * S + v
    <3>1. (Q + j) * S = Q * S + j * S /\ Q * S \in Int /\ j * S \in Int
      BY <1>1, <1>3, <2>1
    <3> QED  BY <1>1, <1>3, <2>0, <2>1, <3>1
  <2>4. (p + o) \div S = Q + j /\ (p + o) % S = v
    <3>1. Q + j \in Nat
      BY <1>3, <2>1
    <3>2. S \in Nat \ {0} /\ v \in 0 .. S - 1
      BY <1>1, <2>1
    <3>3. ((Q + j) * S + v) \div S = Q + j /\ ((Q + j) * S + v) % S = v
      BY <3>1, <3>2, DivMod, Zenon
    <3> QED  BY <2>3, <3>3, Zenon
  <2>5. chain[(Q + j) + 1] = c + j
    <3>1. j \in 0 .. remain /\ Q + 1 + j = (Q + j) + 1
      BY <1>3, <2>1, <2>2
    <3> QED  BY <1>6, <3>1
  <2>6. PlaceOf(p + o) = ((c + j) - 2) * S + v
    BY <2>4, <2>5 DEF PlaceOf, S
  <2>7. ((c + j) - 2) * S = (c - 2) * S + j * S
    BY <1>1, <2>1
  <2>8. (c - 2) * S \in Int /\ j * S \in Int
    BY <1>1, <2>1
  <2> QED  BY <1>1, <1>4, <2>0, <2>1, <2>6, <2>7, <2>8
<1>8. io.pos = p /\ io.size = size /\ io.sector = sector
  OBVIOUS
<1> HIDE DEF io
<1>9. HitsFile(io)
  BY <1>7, <1>8 DEF HitsFile
<1> QED  BY <1>9 DEF io, sector

-----------------------------------------------------------------------------
(* The invariant                                                           *)
Io == [pos : Nat, size : Nat, sector : Int]

TypeInv ==
    /\ chain \in Seq(Clusters) /\ Len(chain) >= 1
    /\ fs \in [open : BOOLEAN, ptr : Nat, filesize : Nat, runs : Seq(Run)]
    /\ call \in [pc : {"idle", "read"}, from : Nat, asked : Nat, len : Nat, io : Io]

FileInv == fs.open => fs.ptr <= fs.filesize /\ RunsStand

(* What is left of a read ends where the read has to end.                  *)
ReadInv ==
    call.pc = "read" =>
        fs.open /\ fs.ptr + call.len = Min({fs.filesize, call.from + call.asked})

Inv == TypeInv /\ FileInv /\ ReadInv

(* The bytes of a cluster                                                  *)
LEMMA ClusterBytes == ClusterSize \in Nat \ {0} /\ ClusterSize = ClusterBlocks * BlockSize
BY Constants, BlockPlaces DEF ClusterSize

(* The invariant holds at first.                                           *)
LEMMA InitInv == Init => Inv
<1> SUFFICES ASSUME Init PROVE Inv
  OBVIOUS
<1>1. PICK n \in 1 .. MaxClusters : chain \in [1 .. n -> Clusters]
  BY DEF Init
<1>2. chain \in Seq(Clusters) /\ Len(chain) >= 1
  <2>1. n \in Nat /\ n >= 1
    BY <1>1, Constants
  <2> QED  BY <1>1, <2>1
<1>3. fs \in [open : BOOLEAN, ptr : Nat, filesize : Nat, runs : Seq(Run)] /\ ~fs.open
  BY DEF Init, Closed
<1>4. call \in [pc : {"idle", "read"}, from : Nat, asked : Nat, len : Nat, io : Io] /\ call.pc # "read"
  BY DEF Init, Idle, NoIo, Io
<1> QED  BY <1>2, <1>3, <1>4 DEF Inv, TypeInv, FileInv, ReadInv

(* The chain of a file stays, and what is said of it.                      *)
LEMMA ChainStays ==
    ASSUME chain' = chain
    PROVE  /\ FirstBroken' = FirstBroken
           /\ \A runs, n : Stand(runs, n) => Stand(runs, n)'
<1>1. FirstBroken' = FirstBroken
  BY DEF FirstBroken, IsBroken
<1>2. ASSUME NEW runs, NEW n, Stand(runs, n) PROVE Stand(runs, n)'
  BY <1>2 DEF Stand, StandFor, Offsets
<1> QED  BY <1>1, <1>2

(* What runs stand for they stand for when the chain has stayed.           *)
LEMMA StandUpToStays ==
    ASSUME chain' = chain, NEW runs, NEW n, StandUpTo(runs, n), fs'.runs = runs
    PROVE  RunsStand'
<1>1. FirstBroken' = FirstBroken
  BY ChainStays
<1>2. Stand(runs, n) /\ n \in 1 .. FirstBroken - 1
      /\ (n + 1 < FirstBroken => Len(runs) = ChainInfos /\ chain[n + 1] # chain[n] + 1)
  BY DEF StandUpTo
<1>3. PICK o : StandFor(runs, o, n)
  BY <1>2 DEF Stand
<1>4. StandFor(fs.runs, o, n)'
  BY <1>3 DEF StandFor, Offsets
<1>5. Stand(fs.runs, n)'
  BY <1>4 DEF Stand
<1>6. StandUpTo(fs.runs, n)'
  BY <1>1, <1>2, <1>5 DEF StandUpTo
<1> QED  BY <1>6 DEF RunsStand

(* The runs of the file stand as they did.                                 *)
LEMMA RunsStay ==
    ASSUME chain' = chain, fs'.runs = fs.runs, RunsStand
    PROVE  RunsStand'
<1>1. PICK n : StandUpTo(fs.runs, n)
  BY DEF RunsStand
<1> DEFINE runs == fs.runs
<1>2. StandUpTo(runs, n) /\ fs'.runs = runs
  BY <1>1
<1> QED  BY <1>1, StandUpToStays

(* Opening builds runs that stand for the chain.                           *)
LEMMA OpenInv == ASSUME Inv, Open PROVE Inv'
<1>1. /\ call.pc = "idle" /\ chain' = chain /\ call' = call
      /\ \E left \in 0 .. ClusterSize - 1 :
           fs' = [open |-> TRUE, ptr |-> 0, filesize |-> Len(chain) * ClusterSize - left,
                  runs |-> Kept(BuildClusterChain)]
  BY DEF Open
<1>2. PICK left \in 0 .. ClusterSize - 1 :
        fs' = [open |-> TRUE, ptr |-> 0, filesize |-> Len(chain) * ClusterSize - left,
               runs |-> Kept(BuildClusterChain)]
  BY <1>1
<1>3. chain \in Seq(Clusters) /\ Len(chain) >= 1 /\ Len(chain) \in Nat
  BY DEF Inv, TypeInv
<1>4. PICK n : StandUpTo(Kept(BuildClusterChain), n)
  BY <1>3, BuiltStands, KeptStands
<1>5. Kept(BuildClusterChain) \in Seq(Run)
  BY <1>4 DEF StandUpTo, Stand, StandFor
<1>6. Len(chain) * ClusterSize - left \in Nat
  <2>1. ClusterSize \in Nat
    BY ClusterBytes
  <2>2. Len(chain) * ClusterSize >= 1 * ClusterSize
    BY <1>3, <2>1
  <2>3. Len(chain) * ClusterSize \in Nat
    BY <1>3, <2>1
  <2> QED  BY <2>1, <2>2, <2>3
<1>7. fs' \in [open : BOOLEAN, ptr : Nat, filesize : Nat, runs : Seq(Run)]
      /\ fs'.ptr <= fs'.filesize /\ fs'.runs = Kept(BuildClusterChain)
  BY <1>2, <1>5, <1>6
<1>8. RunsStand'
  BY <1>1, <1>4, <1>7, StandUpToStays
<1> QED  BY <1>1, <1>3, <1>7, <1>8 DEF Inv, TypeInv, FileInv, ReadInv

(* Seeking stays in the file.                                              *)
LEMMA SeekInv ==
    ASSUME Inv, NEW pos, NEW whence, Seek(pos, whence)
    PROVE  Inv'
<1>1. /\ call.pc = "idle" /\ fs.open /\ chain' = chain /\ call' = call
      /\ SeekTo(pos, whence) \in 0 .. fs.filesize
      /\ fs' = [fs EXCEPT !.ptr = SeekTo(pos, whence)]
  BY DEF Seek, IsInFile
<1>2. fs \in [open : BOOLEAN, ptr : Nat, filesize : Nat, runs : Seq(Run)] /\ RunsStand
  BY <1>1 DEF Inv, TypeInv, FileInv
<1> DEFINE to == SeekTo(pos, whence)
<1> HIDE DEF to
<1>3. to \in 0 .. fs.filesize /\ fs' = [fs EXCEPT !.ptr = to]
  BY <1>1 DEF to
<1>4. to \in Nat /\ to <= fs.filesize
  BY <1>2, <1>3
<1>5. fs' \in [open : BOOLEAN, ptr : Nat, filesize : Nat, runs : Seq(Run)]
      /\ fs'.ptr <= fs'.filesize /\ fs'.runs = fs.runs
  BY <1>2, <1>3, <1>4
<1>6. RunsStand'
  BY <1>1, <1>2, <1>5, RunsStay
<1> QED  BY <1>1, <1>5, <1>6 DEF Inv, TypeInv, FileInv, ReadInv

(* A read is begun with no more than the file has.                         *)
LEMMA StartReadInv ==
    ASSUME Inv, NEW len \in Nat, StartRead(len)
    PROVE  Inv'
<1>1. /\ fs.open /\ chain' = chain /\ fs' = fs
      /\ call' = [pc |-> "read", from |-> fs.ptr, asked |-> len,
                  len |-> Min({fs.filesize - fs.ptr, len}), io |-> NoIo]
  BY DEF StartRead
<1>2. /\ fs \in [open : BOOLEAN, ptr : Nat, filesize : Nat, runs : Seq(Run)] /\ RunsStand
      /\ fs.ptr \in Nat /\ fs.filesize \in Nat /\ fs.ptr <= fs.filesize
  BY <1>1 DEF Inv, TypeInv, FileInv
<1>3. Min({fs.filesize - fs.ptr, len}) = IF fs.filesize - fs.ptr <= len THEN fs.filesize - fs.ptr ELSE len
  <2>1. fs.filesize - fs.ptr \in Int /\ len \in Int
    BY <1>2
  <2> QED  BY <2>1, LeastOfTwo
<1>4. Min({fs.filesize, fs.ptr + len}) = IF fs.filesize <= fs.ptr + len THEN fs.filesize ELSE fs.ptr + len
  <2>1. fs.ptr + len \in Int /\ fs.filesize \in Int
    BY <1>2
  <2> QED  BY <2>1, LeastOfTwo
<1> DEFINE l == Min({fs.filesize - fs.ptr, len})
           e == Min({fs.filesize, fs.ptr + len})
<1>5. l \in Nat /\ fs.ptr + l = e
  BY <1>2, <1>3, <1>4
<1>6. call'.pc = "read" /\ call'.from = fs.ptr /\ call'.asked = len /\ call'.len = l
  BY <1>1
<1>7. call' \in [pc : {"idle", "read"}, from : Nat, asked : Nat, len : Nat, io : Io]
  <2> HIDE DEF l
  <2>1. NoIo \in Io
    BY DEF NoIo, Io
  <2>2. call' = [pc |-> "read", from |-> fs.ptr, asked |-> len, len |-> l, io |-> NoIo]
    BY <1>1 DEF l
  <2> QED  BY <1>2, <1>5, <2>1, <2>2
<1>8. RunsStand'
  BY <1>1, <1>2, RunsStay
<1>9. fs'.ptr + call'.len = Min({fs'.filesize, call'.from + call'.asked})
  BY <1>1, <1>5, <1>6
<1>10. TypeInv'
  BY <1>1, <1>7 DEF Inv, TypeInv
<1> QED  BY <1>1, <1>2, <1>8, <1>9, <1>10 DEF Inv, FileInv, ReadInv

(* A read ends.                                                            *)
LEMMA EndReadInv == ASSUME Inv, EndRead PROVE Inv'
<1>1. chain' = chain /\ fs' = fs /\ call' = Idle
  BY DEF EndRead
<1>2. call' \in [pc : {"idle", "read"}, from : Nat, asked : Nat, len : Nat, io : Io] /\ call'.pc # "read"
  BY <1>1 DEF Idle, NoIo, Io
<1>3. RunsStand => RunsStand'
  BY <1>1, RunsStay
<1> QED  BY <1>1, <1>2, <1>3 DEF Inv, TypeInv, FileInv, ReadInv

(* A transfer takes the read on by its size.                               *)
LEMMA TransferInv ==
    ASSUME Inv, call.pc = "read", NEW size \in Nat, size <= call.len,
           NEW sector \in Int, Transfer(size, sector), chain' = chain
    PROVE  Inv'
<1>1. /\ fs' = [fs EXCEPT !.ptr = @ + size]
      /\ call' = [call EXCEPT !.len = @ - size,
                              !.io = [pos |-> fs.ptr, size |-> size, sector |-> sector]]
  BY DEF Transfer
<1>2. /\ fs \in [open : BOOLEAN, ptr : Nat, filesize : Nat, runs : Seq(Run)] /\ RunsStand /\ fs.open
      /\ call \in [pc : {"idle", "read"}, from : Nat, asked : Nat, len : Nat, io : Io]
      /\ fs.ptr + call.len = Min({fs.filesize, call.from + call.asked})
      /\ fs.ptr <= fs.filesize
  BY DEF Inv, TypeInv, FileInv, ReadInv
<1>3. /\ fs.ptr \in Nat /\ fs.filesize \in Nat /\ call.len \in Nat
      /\ call.from \in Nat /\ call.asked \in Nat
  BY <1>2
<1>4. fs.ptr + call.len <= fs.filesize
  <2>1. call.from + call.asked \in Int /\ fs.filesize \in Int
    BY <1>3
  <2>2. Min({fs.filesize, call.from + call.asked}) =
          IF fs.filesize <= call.from + call.asked THEN fs.filesize ELSE call.from + call.asked
    BY <2>1, LeastOfTwo
  <2> QED  BY <1>2, <1>3, <2>2
<1>5. /\ fs'.ptr = fs.ptr + size /\ fs'.filesize = fs.filesize /\ fs'.runs = fs.runs
      /\ fs' \in [open : BOOLEAN, ptr : Nat, filesize : Nat, runs : Seq(Run)]
  BY <1>1, <1>2, <1>3
<1>6. [pos |-> fs.ptr, size |-> size, sector |-> sector] \in Io
  BY <1>3 DEF Io
<1>7. /\ call'.len = call.len - size /\ call'.from = call.from /\ call'.asked = call.asked
      /\ call' \in [pc : {"idle", "read"}, from : Nat, asked : Nat, len : Nat, io : Io]
  <2> DEFINE io == [pos |-> fs.ptr, size |-> size, sector |-> sector]
  <2>1. io \in Io /\ call' = [call EXCEPT !.len = call.len - size, !.io = io]
    BY <1>1, <1>2, <1>6
  <2> HIDE DEF io
  <2>2. call.len - size \in Nat
    BY <1>3
  <2> QED  BY <1>2, <2>1, <2>2
<1>8. fs'.ptr + call'.len = fs.ptr + call.len
  BY <1>3, <1>5, <1>7
<1>9. fs'.ptr <= fs'.filesize
  BY <1>3, <1>4, <1>5
<1>10. RunsStand'
  BY <1>2, <1>5, RunsStay
<1>11. TypeInv'
  BY <1>5, <1>7 DEF Inv, TypeInv
<1>12. fs'.open = fs.open
  BY <1>1, <1>2
<1>13. ReadInv'
  BY <1>2, <1>5, <1>7, <1>8, <1>12 DEF ReadInv
<1> QED  BY <1>9, <1>10, <1>11, <1>13 DEF Inv, FileInv

-----------------------------------------------------------------------------
(* The transfers                                                           *)

(* What a transfer finds at its position                                   *)
LEMMA AtPosition ==
    ASSUME Inv, call.pc = "read", NEW at \in IterateFile
    PROVE  /\ fs.open /\ RunsStand /\ Order \in Nat
           /\ at.cluster \in Int /\ at.remain \in Nat \ {0}
           /\ fs.ptr \in Nat /\ call.len \in Nat
           /\ fs.ptr \div BlockSize \in Nat
           /\ InBlock \in 0 .. BlockSize - 1
           /\ (fs.ptr \div BlockSize) % EightBlocks \in 0 .. EightBlocks - 1
           /\ CurSector(at) \in Int
<1>1. fs.open /\ RunsStand /\ fs.ptr \in Nat /\ call.len \in Nat
  BY DEF Inv, TypeInv, FileInv, ReadInv
<1>2. Order \in Nat
  BY <1>1, ClusterBytes, Quotient DEF Order
<1>3. at.cluster \in Int /\ at.remain \in Nat \ {0}
  BY <1>1, <1>2, FoundSome
<1>4. /\ BlockSize \in Nat \ {0} /\ ClusterBlocks \in Nat /\ EightBlocks \in Nat \ {0}
  BY Constants
<1>5. fs.ptr \div BlockSize \in Nat /\ fs.ptr % BlockSize \in 0 .. BlockSize - 1
  BY <1>1, <1>4, Quotient
<1>6. (fs.ptr \div BlockSize) % EightBlocks \in 0 .. EightBlocks - 1
  BY <1>4, <1>5, Quotient
<1> DEFINE b == (fs.ptr \div BlockSize) % EightBlocks
<1>7. b \in Int
  BY <1>4, <1>6
<1>8. (at.cluster - 2) * ClusterBlocks \in Int
  BY <1>3, <1>4
<1>9. CurSector(at) = (at.cluster - 2) * ClusterBlocks + b
  BY DEF CurSector
<1> HIDE DEF b
<1>10. CurSector(at) \in Int
  BY <1>7, <1>8, <1>9
<1> QED  BY <1>1, <1>2, <1>3, <1>5, <1>6, <1>10 DEF InBlock

(* What AdjacentReadsHitFile asks of a transfer                            *)
BeginsWell(io) ==
    LET k == (io.pos \div ClusterSize) + 1
    IN  /\ k + 1 <= ClustersKept /\ chain[k + 1] = chain[k] + 1
        /\ IsItsBlock(io.pos \div BlockSize)
        /\ EightBlocks <= ClusterBlocks \/ IsAdjacent(io)

(* The last cluster of bytes that lie one behind the other: those between  *)
(* are adjacent too, and it has the last of the bytes.                     *)
LEMMA AdjacentClusters ==
    ASSUME NEW p \in Nat, NEW size \in Nat \ {0}, NEW sector,
           IsAdjacent([pos |-> p, size |-> size, sector |-> sector])
    PROVE  \E e \in Nat :
             /\ \A j \in 0 .. e : chain[(p \div ClusterSize) + 1 + j] = chain[(p \div ClusterSize) + 1] + j
             /\ (p % ClusterSize) + size <= (e + 1) * ClusterSize
<1> DEFINE S == ClusterSize
           Q == p \div S
           w == p % S
           e == (w + size - 1) \div S
           v == (w + size - 1) % S
           io == [pos |-> p, size |-> size, sector |-> sector]
<1>1. S \in Nat \ {0}
  BY ClusterBytes
<1>2. Q \in Nat /\ w \in 0 .. S - 1 /\ p = Q * S + w
  <2>1. p \div S \in Nat /\ p % S \in 0 .. S - 1 /\ p = (p \div S) * S + (p % S)
    BY <1>1, Quotient
  <2> QED  BY <2>1
<1>a. io.pos = p /\ io.size = size /\ IsAdjacent(io)
  OBVIOUS
<1> HIDE DEF S, Q, w, io
<1>3. e \in Nat /\ v \in 0 .. S - 1 /\ w + size - 1 = e * S + v
  <2>1. w + size - 1 \in Nat
    BY <1>1, <1>2
  <2> DEFINE u == w + size - 1
  <2> HIDE DEF u
  <2>2. u \in Nat
    BY <2>1 DEF u
  <2>3. u \div S \in Nat /\ u % S \in 0 .. S - 1 /\ u = (u \div S) * S + (u % S)
    BY <1>1, <2>2, Quotient
  <2> QED  BY <2>3 DEF u
<1> HIDE DEF e, v
<1>4. w + size <= (e + 1) * S
  <2>1. (e + 1) * S = e * S + S /\ e * S \in Int
    BY <1>1, <1>3
  <2> QED  BY <1>1, <1>2, <1>3, <2>1
<1>5. p \div S = Q
  BY DEF Q
<1>6. ASSUME NEW j \in 0 .. e PROVE chain[Q + 1 + j] = chain[Q + 1] + j
  <2>1. CASE j = 0
    <3>1. chain[Q + 1] = chain[Q + 1] + (((p + 0) \div S) + 1 - (Q + 1))
      <4>1. 0 \in 0 .. size - 1
        OBVIOUS
      <4>2. chain[((p + 0) \div S) + 1] = chain[((p + 0) \div S) + 1] + ((((p + 0) \div S) + 1) - (((p + 0) \div S) + 1))
        BY <1>a, <4>1, Zenon DEF IsAdjacent, S
      <4>3. p + 0 = p
        OBVIOUS
      <4> QED  BY <1>2, <1>5, <4>2, <4>3
    <3>2. p + 0 = p
      OBVIOUS
    <3>3. ((p + 0) \div S) + 1 - (Q + 1) = 0
      BY <1>2, <1>5, <3>2
    <3> QED  BY <1>2, <2>1, <3>1, <3>3
  <2>2. CASE j # 0
    <3> DEFINE o == j * S - w
    <3>1. o \in 0 .. size - 1
      <4>1. j \in Nat /\ 1 <= j /\ j <= e
        BY <1>3, <2>2
      <4>2. S <= j * S /\ j * S <= e * S /\ j * S \in Nat /\ e * S \in Nat
        BY <1>1, <1>3, <4>1
      <4> QED  BY <1>1, <1>2, <1>3, <4>2
    <3>2. p + o = (Q + j) * S + 0
      <4>1. (Q + j) * S = Q * S + j * S /\ Q * S \in Int /\ j * S \in Int
        BY <1>1, <1>2
      <4> QED  BY <1>1, <1>2, <4>1
    <3> HIDE DEF o
    <3>3. (p + o) \div S = Q + j
      <4>1. Q + j \in Nat /\ 0 \in 0 .. S - 1
        BY <1>1, <1>2
      <4>2. ((Q + j) * S + 0) \div S = Q + j
        BY <1>1, <4>1, DivMod
      <4> QED  BY <3>2, <4>2, Zenon
    <3>4. chain[((p + o) \div S) + 1]
            = chain[((p + 0) \div S) + 1] + ((((p + o) \div S) + 1) - (((p + 0) \div S) + 1))
      BY <1>a, <3>1, Zenon DEF IsAdjacent, S
    <3>5. p + 0 = p
      OBVIOUS
    <3>6. chain[(Q + j) + 1] = chain[Q + 1] + (((Q + j) + 1) - (Q + 1))
      BY <1>5, <3>3, <3>4, <3>5, Zenon
    <3>7. (Q + j) + 1 = Q + 1 + j /\ ((Q + j) + 1) - (Q + 1) = j
      BY <1>2
    <3> QED  BY <3>6, <3>7
  <2> QED  BY <2>1, <2>2
<1> QED  BY <1>3, <1>4, <1>6 DEF S, Q, w

(* A transfer that does not go beyond the clusters found to be adjacent,   *)
(* in clusters of eight blocks or more                                     *)
LEMMA TransferAdjacent ==
    ASSUME Inv, call.pc = "read", NEW at \in IterateFile,
           NEW size \in Nat, Transfer(size, CurSector(at)), chain' = chain,
           (EightBlocks <= ClusterBlocks /\ IsItsBlock(fs.ptr \div BlockSize))
             => (fs.ptr % ClusterSize) + size <= (at.remain + 1) * ClusterSize
    PROVE  AdjacentReadsHitFile'
<1> DEFINE io == [pos |-> fs.ptr, size |-> size, sector |-> CurSector(at)]
           k == Order + 1
<1>1. /\ fs.open /\ RunsStand /\ Order \in Nat /\ fs.ptr \in Nat
      /\ at.cluster \in Int /\ at.remain \in Nat
      /\ chain \in Seq(Clusters) /\ Len(chain) >= 1
  BY AtPosition DEF Inv, TypeInv
<1>2. call'.io = io /\ fs'.runs = fs.runs
  <2>1. call' = [call EXCEPT !.len = @ - size, !.io = io] /\ fs' = [fs EXCEPT !.ptr = @ + size]
    BY DEF Transfer
  <2>2. call \in [pc : {"idle", "read"}, from : Nat, asked : Nat, len : Nat, io : Io]
        /\ fs \in [open : BOOLEAN, ptr : Nat, filesize : Nat, runs : Seq(Run)]
    BY DEF Inv, TypeInv
  <2> HIDE DEF io
  <2> QED  BY <2>1, <2>2
<1>a. io.pos = fs.ptr /\ io.size = size
  OBVIOUS
<1>3. ASSUME BeginsWell(io) PROVE HitsFile(io)
  <2>1. /\ k + 1 <= ClustersKept /\ chain[k + 1] = chain[k] + 1
        /\ IsItsBlock(fs.ptr \div BlockSize)
        /\ EightBlocks <= ClusterBlocks \/ IsAdjacent(io)
    BY <1>3 DEF BeginsWell, Order
  <2>2. k + 1 = Order + 2
    BY <1>1
  <2>3. /\ Order + 2 <= ClustersKept /\ chain[Order + 2] = chain[Order + 1] + 1
    BY <2>1, <2>2
  <2>4. \A j \in 0 .. at.remain : chain[Order + 1 + j] = at.cluster + j
    BY <1>1, <2>3, FoundInRun
  <2>5. io = [pos |-> fs.ptr, size |-> size,
              sector |-> (at.cluster - 2) * ClusterBlocks + ((fs.ptr \div BlockSize) % ClusterBlocks)]
    BY <2>1 DEF CurSector, IsItsBlock
  <2>6. ASSUME NEW e \in Nat,
               \A j \in 0 .. e : chain[(fs.ptr \div ClusterSize) + 1 + j] = at.cluster + j,
               (fs.ptr % ClusterSize) + size <= (e + 1) * ClusterSize
        PROVE  HitsFile(io)
    <3>1. HitsFile([pos |-> fs.ptr, size |-> size,
                    sector |-> (at.cluster - 2) * ClusterBlocks + ((fs.ptr \div BlockSize) % ClusterBlocks)])
      BY <1>1, <2>6, TransferHits
    <3> QED  BY <2>5, <3>1, Zenon
  <2>7. CASE EightBlocks <= ClusterBlocks
    <3>1. \A j \in 0 .. at.remain : chain[(fs.ptr \div ClusterSize) + 1 + j] = at.cluster + j
      BY <2>4 DEF Order
    <3>2. (fs.ptr % ClusterSize) + size <= (at.remain + 1) * ClusterSize
      BY <2>1, <2>7
    <3> QED  BY <1>1, <2>6, <3>1, <3>2
  <2>8. CASE IsAdjacent(io) /\ size # 0
    <3>1. PICK e \in Nat :
            /\ \A j \in 0 .. e : chain[(fs.ptr \div ClusterSize) + 1 + j] = chain[(fs.ptr \div ClusterSize) + 1] + j
            /\ (fs.ptr % ClusterSize) + size <= (e + 1) * ClusterSize
      BY <1>1, <2>8, AdjacentClusters
    <3>2. chain[Order + 1] = at.cluster
      <4>1. 0 \in 0 .. at.remain /\ Order + 1 + 0 = Order + 1 /\ at.cluster + 0 = at.cluster
        BY <1>1
      <4> QED  BY <2>4, <4>1
    <3>3. chain[(fs.ptr \div ClusterSize) + 1] = at.cluster
      BY <3>2 DEF Order
    <3> QED  BY <2>6, <3>1, <3>3
  <2>9. CASE size = 0
    <3>1. 0 .. size - 1 = {}
      BY <2>9
    <3> QED  BY <3>1, <1>a DEF HitsFile
  <2> QED  BY <2>1, <2>7, <2>8, <2>9
<1> HIDE DEF io, k
<1>5. ClustersKept' = ClustersKept
  BY <1>2 DEF ClustersKept, Before
<1>6. ASSUME HitsFile(io) PROVE HitsFile(call.io)'
  BY <1>2, <1>6 DEF HitsFile, PlaceOf
<1>7. ASSUME BeginsWell(call.io)' PROVE BeginsWell(io)
  BY <1>2, <1>5, <1>7 DEF BeginsWell, IsItsBlock, IsAdjacent
<1>8. AdjacentReadsHitFile' = (BeginsWell(call.io)' => HitsFile(call.io)')
  BY DEF AdjacentReadsHitFile, BeginsWell
<1> QED  BY <1>3, <1>6, <1>7, <1>8

(* What is in a cluster before the position, if it is at its block         *)
LEMMA InCluster ==
    ASSUME Inv, call.pc = "read", NEW at \in IterateFile, IsItsBlock(fs.ptr \div BlockSize)
    PROVE  /\ fs.ptr % ClusterSize =
                ((fs.ptr \div BlockSize) % EightBlocks) * BlockSize + InBlock
           /\ (((fs.ptr \div BlockSize) % EightBlocks) + 1) * BlockSize <= ClusterSize
           /\ ClusterSize <= (at.remain + 1) * ClusterSize
<1> DEFINE b == (fs.ptr \div BlockSize) % EightBlocks
<1>1. /\ fs.ptr \in Nat /\ at.remain \in Nat /\ fs.ptr \div BlockSize \in Nat
  BY AtPosition
<1>2. /\ BlockSize \in Nat \ {0} /\ ClusterBlocks \in Nat \ {0}
      /\ ClusterSize = ClusterBlocks * BlockSize /\ ClusterSize \in Nat
  BY Constants, ClusterBytes
<1>3. fs.ptr % (ClusterBlocks * BlockSize)
        = ((fs.ptr \div BlockSize) % ClusterBlocks) * BlockSize + (fs.ptr % BlockSize)
  BY <1>1, <1>2, BlockPlaces
<1>a. b = (fs.ptr \div BlockSize) % ClusterBlocks
  BY DEF IsItsBlock
<1>b. b \in 0 .. ClusterBlocks - 1
  BY <1>1, <1>2, <1>a, Quotient
<1>4. fs.ptr % ClusterSize = b * BlockSize + InBlock
  BY <1>2, <1>3, <1>a DEF InBlock
<1> HIDE DEF b
<1>5. (b + 1) * BlockSize <= ClusterBlocks * BlockSize
  <2>1. b + 1 \in Nat /\ b + 1 <= ClusterBlocks
    BY <1>2, <1>b
  <2> QED  BY <1>2, <2>1
<1>6. 1 * ClusterSize <= (at.remain + 1) * ClusterSize
  <2>1. at.remain + 1 \in Nat /\ 1 <= at.remain + 1
    BY <1>1
  <2> QED  BY <1>2, <2>1
<1> QED  BY <1>2, <1>4, <1>5, <1>6 DEF b

(* Inside a block                                                          *)
LEMMA PrologStep ==
    ASSUME Inv, Prolog
    PROVE  Inv' /\ AdjacentReadsHitFile'
<1>1. /\ call.pc = "read" /\ call.len > 0 /\ chain' = chain
      /\ \E at \in IterateFile :
           Transfer(Min({call.len, BlockSize - InBlock}), CurSector(at))
  BY DEF Prolog
<1>2. PICK at \in IterateFile : Transfer(Min({call.len, BlockSize - InBlock}), CurSector(at))
  BY <1>1
<1> DEFINE size == Min({call.len, BlockSize - InBlock})
<1>3. /\ call.len \in Nat /\ InBlock \in 0 .. BlockSize - 1 /\ CurSector(at) \in Int
      /\ BlockSize \in Nat
      /\ (fs.ptr \div BlockSize) % EightBlocks \in 0 .. EightBlocks - 1 /\ EightBlocks \in Nat
  BY <1>1, AtPosition, Constants
<1>4. size \in Nat /\ size <= call.len /\ size <= BlockSize - InBlock
  <2>1. call.len \in Int /\ BlockSize - InBlock \in Int
    BY <1>3
  <2>2. size = IF call.len <= BlockSize - InBlock THEN call.len ELSE BlockSize - InBlock
    BY <2>1, LeastOfTwo
  <2> HIDE DEF size
  <2> QED  BY <1>3, <2>2
<1>5. Transfer(size, CurSector(at))
  BY <1>2
<1> HIDE DEF size
<1>6. Inv'
  BY <1>1, <1>3, <1>4, <1>5, TransferInv
<1>7. ASSUME IsItsBlock(fs.ptr \div BlockSize)
      PROVE  (fs.ptr % ClusterSize) + size <= (at.remain + 1) * ClusterSize
  <2> DEFINE b == (fs.ptr \div BlockSize) % EightBlocks
  <2>1. /\ fs.ptr % ClusterSize = b * BlockSize + InBlock
        /\ (b + 1) * BlockSize <= ClusterSize
        /\ ClusterSize <= (at.remain + 1) * ClusterSize
    BY <1>1, <1>7, InCluster
  <2>2. b \in Nat
    BY <1>3
  <2> HIDE DEF b
  <2>3. b * BlockSize \in Nat /\ (b + 1) * BlockSize = b * BlockSize + BlockSize
    BY <1>3, <2>2
  <2>4. at.remain \in Nat /\ ClusterSize \in Nat
    BY <1>1, AtPosition, ClusterBytes
  <2>5. (at.remain + 1) * ClusterSize \in Nat
    BY <2>4
  <2> QED  BY <1>3, <1>4, <2>1, <2>3, <2>4, <2>5
<1>8. AdjacentReadsHitFile'
  BY <1>1, <1>4, <1>5, <1>7, TransferAdjacent
<1> QED  BY <1>6, <1>8

(* Whole blocks                                                            *)
LEMMA ReadBlocksStep ==
    ASSUME Inv, ReadBlocks
    PROVE  Inv' /\ AdjacentReadsHitFile'
<1>1. /\ call.pc = "read" /\ InBlock = 0 /\ call.len >= BlockSize /\ chain' = chain
      /\ \E at \in IterateFile : Transfer(BlocksToRead(at) * BlockSize, CurSector(at))
  BY DEF ReadBlocks
<1>2. PICK at \in IterateFile : Transfer(BlocksToRead(at) * BlockSize, CurSector(at))
  BY <1>1
<1> DEFINE blocks == BlocksToRead(at)
           b == (fs.ptr \div BlockSize) % EightBlocks
           adjacent == at.remain * EightBlocks + (EightBlocks - b)
           asked == call.len \div BlockSize
<1>3. /\ call.len \in Nat /\ CurSector(at) \in Int /\ at.remain \in Nat
      /\ b \in 0 .. EightBlocks - 1
      /\ BlockSize \in Nat \ {0} /\ EightBlocks \in Nat \ {0}
  BY <1>1, AtPosition, Constants
<1>4. asked \in Nat /\ asked * BlockSize <= call.len
  <2>1. /\ asked \in Nat /\ call.len % BlockSize \in 0 .. BlockSize - 1
        /\ call.len = asked * BlockSize + (call.len % BlockSize)
    BY <1>3, Quotient
  <2> HIDE DEF asked
  <2>2. asked * BlockSize \in Nat
    BY <1>3, <2>1
  <2> QED  BY <1>3, <2>1, <2>2
<1>5. blocks = Min({adjacent, asked})
  BY DEF BlocksToRead
<1>a. adjacent = at.remain * EightBlocks + (EightBlocks - b)
  OBVIOUS
<1> HIDE DEF blocks, b, asked, adjacent
<1>6. adjacent \in Nat
  <2>1. at.remain * EightBlocks \in Nat
    BY <1>3
  <2> QED  BY <1>3, <1>a, <2>1
<1>7. blocks \in Nat /\ blocks <= asked /\ blocks <= adjacent
  <2>1. blocks = IF adjacent <= asked THEN adjacent ELSE asked
    BY <1>4, <1>5, <1>6, LeastOfTwo
  <2> QED  BY <1>4, <1>6, <2>1
<1>8. blocks * BlockSize \in Nat /\ blocks * BlockSize <= call.len
  <2>1. blocks * BlockSize <= asked * BlockSize
    BY <1>3, <1>4, <1>7
  <2>2. blocks * BlockSize \in Nat /\ asked * BlockSize \in Nat
    BY <1>3, <1>4, <1>7
  <2> QED  BY <1>3, <1>4, <2>1, <2>2
<1>9. Transfer(blocks * BlockSize, CurSector(at))
  BY <1>2 DEF blocks
<1>10. Inv'
  <2> DEFINE size == blocks * BlockSize
  <2>1. size \in Nat /\ size <= call.len /\ Transfer(size, CurSector(at))
    BY <1>8, <1>9
  <2> HIDE DEF size
  <2> QED  BY <1>1, <1>3, <2>1, TransferInv
<1>11. ASSUME EightBlocks <= ClusterBlocks, IsItsBlock(fs.ptr \div BlockSize)
       PROVE  (fs.ptr % ClusterSize) + blocks * BlockSize <= (at.remain + 1) * ClusterSize
  <2>1. /\ fs.ptr % ClusterSize = b * BlockSize + InBlock /\ InBlock = 0
        /\ ClusterSize = ClusterBlocks * BlockSize
    BY <1>1, <1>11, InCluster, ClusterBytes DEF b
  <2>2. b \in Nat /\ ClusterBlocks \in Nat
    BY <1>3, Constants
  <2>3. b + blocks <= (at.remain + 1) * ClusterBlocks
    <3>1. b + blocks <= at.remain * EightBlocks + EightBlocks /\ at.remain * EightBlocks \in Nat
      BY <1>3, <1>6, <1>7, <1>a, <2>2
    <3>2. at.remain * EightBlocks <= at.remain * ClusterBlocks
      BY <1>3, <1>11, <2>2
    <3>3. (at.remain + 1) * ClusterBlocks = at.remain * ClusterBlocks + ClusterBlocks
          /\ at.remain * ClusterBlocks \in Nat
      BY <1>3, <2>2
    <3> QED  BY <1>3, <1>7, <1>11, <2>2, <3>1, <3>2, <3>3
  <2> DEFINE total == (at.remain + 1) * ClusterBlocks
  <2>4. total \in Nat
    BY <1>3, <2>2
  <2>5. total * BlockSize = (at.remain + 1) * ClusterSize
    BY <1>3, <2>1, <2>2
  <2>6. b + blocks <= total
    BY <2>3
  <2> HIDE DEF total
  <2>7. (b + blocks) * BlockSize <= total * BlockSize
    BY <1>3, <1>7, <2>2, <2>4, <2>6
  <2>8. (b + blocks) * BlockSize = b * BlockSize + blocks * BlockSize
        /\ b * BlockSize \in Nat /\ blocks * BlockSize \in Nat
    BY <1>3, <1>7, <2>2
  <2> QED  BY <2>1, <2>5, <2>7, <2>8
<1>12. AdjacentReadsHitFile'
  <2> DEFINE size == blocks * BlockSize
  <2>1. /\ size \in Nat /\ Transfer(size, CurSector(at))
        /\ (EightBlocks <= ClusterBlocks /\ IsItsBlock(fs.ptr \div BlockSize))
             => (fs.ptr % ClusterSize) + size <= (at.remain + 1) * ClusterSize
    BY <1>8, <1>9, <1>11
  <2> HIDE DEF size
  <2> QED  BY <1>1, <2>1, TransferAdjacent
<1> QED  BY <1>10, <1>12

(* The rest                                                                *)
LEMMA EpilogStep ==
    ASSUME Inv, Epilog
    PROVE  Inv' /\ AdjacentReadsHitFile'
<1>1. /\ call.pc = "read" /\ InBlock = 0 /\ call.len \in 1 .. BlockSize - 1 /\ chain' = chain
      /\ \E at \in IterateFile : Transfer(call.len, CurSector(at))
  BY DEF Epilog, EpilogSize
<1>2. PICK at \in IterateFile : Transfer(call.len, CurSector(at))
  BY <1>1
<1> DEFINE size == call.len
<1>3. /\ size \in Nat /\ CurSector(at) \in Int /\ BlockSize \in Nat /\ size <= BlockSize
      /\ (fs.ptr \div BlockSize) % EightBlocks \in 0 .. EightBlocks - 1 /\ EightBlocks \in Nat
  BY <1>1, AtPosition, Constants
<1>4. size <= call.len
  BY <1>3
<1>5. Transfer(size, CurSector(at))
  BY <1>2
<1> HIDE DEF size
<1>6. Inv'
  BY <1>1, <1>3, <1>4, <1>5, TransferInv
<1>7. ASSUME IsItsBlock(fs.ptr \div BlockSize)
      PROVE  (fs.ptr % ClusterSize) + size <= (at.remain + 1) * ClusterSize
  <2> DEFINE b == (fs.ptr \div BlockSize) % EightBlocks
  <2>1. /\ fs.ptr % ClusterSize = b * BlockSize + InBlock
        /\ (b + 1) * BlockSize <= ClusterSize
        /\ ClusterSize <= (at.remain + 1) * ClusterSize
    BY <1>1, <1>7, InCluster
  <2>2. b \in Nat
    BY <1>3
  <2> HIDE DEF b
  <2>3. b * BlockSize \in Nat /\ (b + 1) * BlockSize = b * BlockSize + BlockSize
    BY <1>3, <2>2
  <2>4. at.remain \in Nat /\ ClusterSize \in Nat
    BY <1>1, AtPosition, ClusterBytes
  <2>5. (at.remain + 1) * ClusterSize \in Nat
    BY <2>4
  <2> QED  BY <1>1, <1>3, <2>1, <2>3, <2>4, <2>5
<1>8. AdjacentReadsHitFile'
  BY <1>1, <1>3, <1>5, <1>7, TransferAdjacent
<1> QED  BY <1>6, <1>8

-----------------------------------------------------------------------------
(* The steps that transfer nothing                                         *)
Moves ==
    \/ Open
    \/ \E pos \in -MaxLen .. MaxClusters * ClusterSize, whence \in {"set", "cur", "end"} : Seek(pos, whence)
    \/ \E len \in 0 .. MaxLen : StartRead(len)
    \/ EndRead

(* They keep the invariant.                                                *)
LEMMA MovesInv == ASSUME Inv, Moves PROVE Inv'
<1>1. CASE Open
  BY <1>1, OpenInv
<1>2. ASSUME NEW pos \in -MaxLen .. MaxClusters * ClusterSize, NEW whence \in {"set", "cur", "end"},
             Seek(pos, whence)
      PROVE  Inv'
  BY <1>2, SeekInv
<1>3. ASSUME NEW len \in 0 .. MaxLen, StartRead(len) PROVE Inv'
  <2>1. len \in Nat
    BY Constants
  <2> QED  BY <1>3, <2>1, StartReadInv
<1>4. CASE EndRead
  BY <1>4, EndReadInv
<1> QED  BY <1>1, <1>2, <1>3, <1>4 DEF Moves

(* So does a step that changes nothing.                                    *)
LEMMA StaysInv == ASSUME Inv, UNCHANGED vars PROVE Inv'
<1>1. chain' = chain /\ fs' = fs /\ call' = call
  BY DEF vars
<1>2. RunsStand => RunsStand'
  BY <1>1, RunsStay
<1> QED  BY <1>1, <1>2 DEF Inv, TypeInv, FileInv, ReadInv

(* Every step keeps the invariant.                                         *)
LEMMA NextInv == ASSUME Inv, [Next]_vars PROVE Inv'
<1>1. CASE Moves
  BY <1>1, MovesInv
<1>2. CASE Prolog
  BY <1>2, PrologStep
<1>3. CASE ReadBlocks
  BY <1>3, ReadBlocksStep
<1>4. CASE Epilog
  BY <1>4, EpilogStep
<1>5. CASE UNCHANGED vars
  BY <1>5, StaysInv
<1> QED  BY <1>1, <1>2, <1>3, <1>4, <1>5 DEF Next, Moves

(* The invariant holds always.                                             *)
THEOREM InvHolds == Spec => []Inv
<1>1. Inv /\ [Next]_vars => Inv'
  BY NextInv
<1> QED  BY InitInv, <1>1, PTL DEF Spec

(* What Before says is what the runs need.                                 *)
LEMMA InvExpands == Inv => RunsExpandToChain
<1> SUFFICES ASSUME Inv, fs.open PROVE RunsExpandToChain
  BY DEF RunsExpandToChain
<1>1. StandFor(fs.runs, Before, ClustersKept) /\ StandUpTo(fs.runs, ClustersKept)
  BY BeforeRuns DEF Inv, FileInv
<1>2. fs.runs \in Seq(Run) /\ DOMAIN fs.runs = 1 .. Len(fs.runs)
  BY <1>1 DEF StandFor
<1>3. ClustersKept < FirstBroken
  <2>1. FirstBroken \in Nat /\ ClustersKept \in 1 .. FirstBroken - 1
    BY <1>1, WhereBroken DEF StandUpTo, Inv, TypeInv
  <2> QED  BY <2>1
<1> QED  BY <1>1, <1>2, <1>3 DEF StandFor, StandUpTo, RunsExpandToChain

(* The runs of an open file stand for its chain of clusters, as far as the *)
(* chain is followed (wcfat.c:646) and the FILE_STRUCT has room            *)
(* (wcfat.c:692).                                                          *)
THEOREM RunsAreTheChain == Spec => []RunsExpandToChain
BY InvHolds, InvExpands, PTL

(* A read has moved the pointer by what was asked for, or to the end of    *)
(* the file (wcfat.c:817).                                                 *)
THEOREM ReadsAdvance == Spec => []ReadAdvances
<1>1. Inv => ReadAdvances
  <2> SUFFICES ASSUME Inv, call.pc = "read", call.len <= 0
               PROVE  fs.ptr = Min({fs.filesize, call.from + call.asked})
    BY DEF ReadAdvances
  <2>1. /\ fs.ptr \in Nat /\ call.len \in Nat
        /\ fs.ptr + call.len = Min({fs.filesize, call.from + call.asked})
    BY DEF Inv, TypeInv, ReadInv
  <2>2. fs.ptr + call.len = fs.ptr
    BY <2>1
  <2> QED  BY <2>1, <2>2
<1> QED  BY InvHolds, <1>1, PTL

(* No transfer takes nothing that is wrong.                                *)
LEMMA NothingHits == ASSUME call.io = NoIo PROVE AdjacentReadsHitFile
<1>1. call.io.size = 0 /\ 0 .. 0 - 1 = {}
  BY DEF NoIo
<1> QED  BY <1>1 DEF AdjacentReadsHitFile, HitsFile

(* A transfer that is over took what it took.                              *)
LEMMA HitsStay ==
    ASSUME AdjacentReadsHitFile, chain' = chain, call'.io = call.io, fs'.runs = fs.runs
    PROVE  AdjacentReadsHitFile'
<1>1. ClustersKept' = ClustersKept
  BY DEF ClustersKept, Before
<1>2. HitsFile(call.io) => HitsFile(call.io)'
  BY DEF HitsFile, PlaceOf
<1>3. BeginsWell(call.io)' => BeginsWell(call.io)
  BY <1>1 DEF BeginsWell, IsItsBlock, IsAdjacent
<1>4. AdjacentReadsHitFile = (BeginsWell(call.io) => HitsFile(call.io))
      /\ AdjacentReadsHitFile' = (BeginsWell(call.io)' => HitsFile(call.io)')
  BY DEF AdjacentReadsHitFile, BeginsWell
<1> QED  BY <1>2, <1>3, <1>4

(* The same, of the state that comes next                                  *)
LEMMA NothingHitsNext == ASSUME call'.io = NoIo PROVE AdjacentReadsHitFile'
<1>1. call'.io.size = 0 /\ 0 .. 0 - 1 = {}
  BY DEF NoIo
<1> QED  BY <1>1 DEF AdjacentReadsHitFile, HitsFile

(* No transfer is remembered between two reads.                            *)
IdleInv == call.pc = "idle" => call.io = NoIo

LEMMA IdleHolds == Spec => []IdleInv
<1>1. Init => IdleInv
  BY DEF Init, Idle, IdleInv
<1>2. Inv /\ IdleInv /\ [Next]_vars => IdleInv'
  <2> SUFFICES ASSUME Inv, IdleInv, [Next]_vars PROVE IdleInv'
    OBVIOUS
  <2>1. CASE \/ Open \/ UNCHANGED vars
             \/ \E pos \in -MaxLen .. MaxClusters * ClusterSize, whence \in {"set", "cur", "end"} : Seek(pos, whence)
    <3>1. call' = call
      BY <2>1 DEF Open, Seek, vars
    <3> QED  BY <3>1 DEF IdleInv
  <2>2. CASE \E len \in 0 .. MaxLen : StartRead(len)
    BY <2>2 DEF StartRead, IdleInv
  <2>3. CASE EndRead
    BY <2>3 DEF EndRead, Idle, IdleInv
  <2>4. CASE Prolog \/ ReadBlocks \/ Epilog
    <3>1. call.pc = "read" /\ \E size, sector : Transfer(size, sector)
      BY <2>4 DEF Prolog, ReadBlocks, Epilog
    <3>2. call'.pc = "read"
      BY <3>1 DEF Transfer, Inv, TypeInv
    <3> QED  BY <3>2 DEF IdleInv
  <2> QED  BY <2>1, <2>2, <2>3, <2>4 DEF Next
<1> QED  BY InvHolds, <1>1, <1>2, PTL DEF Spec

(* A transfer that begins in a cluster whose neighbour comes next, at its  *)
(* block, takes the bytes of the file and never goes over the next jump,   *)
(* whatever the size of the clusters (wcfat.c:759, wcfat.c:897).           *)
THEOREM AdjacentReadsAreRight == Spec => []AdjacentReadsHitFile
<1>1. Init => AdjacentReadsHitFile
  <2> SUFFICES ASSUME Init PROVE AdjacentReadsHitFile
    OBVIOUS
  <2>1. call.io = NoIo
    BY DEF Init, Idle
  <2> QED  BY <2>1, NothingHits
<1>2. Inv /\ IdleInv /\ AdjacentReadsHitFile /\ [Next]_vars => AdjacentReadsHitFile'
  <2> SUFFICES ASSUME Inv, IdleInv, AdjacentReadsHitFile, [Next]_vars PROVE AdjacentReadsHitFile'
    OBVIOUS
  <2>1. CASE Open
    <3>1. call'.io = NoIo
      BY <2>1 DEF Open, IdleInv
    <3> QED  BY <3>1, NothingHitsNext
  <2>2. CASE \E pos \in -MaxLen .. MaxClusters * ClusterSize, whence \in {"set", "cur", "end"} : Seek(pos, whence)
    <3>1. chain' = chain /\ call' = call /\ fs'.runs = fs.runs
      BY <2>2 DEF Seek, Inv, TypeInv
    <3> QED  BY <3>1, HitsStay
  <2>3. CASE \E len \in 0 .. MaxLen : StartRead(len)
    <3>1. call'.io = NoIo
      BY <2>3 DEF StartRead
    <3> QED  BY <3>1, NothingHitsNext
  <2>4. CASE EndRead
    <3>1. call'.io = NoIo
      BY <2>4 DEF EndRead, Idle
    <3> QED  BY <3>1, NothingHitsNext
  <2>5. CASE Prolog
    BY <2>5, PrologStep
  <2>6. CASE ReadBlocks
    BY <2>6, ReadBlocksStep
  <2>7. CASE Epilog
    BY <2>7, EpilogStep
  <2>8. CASE UNCHANGED vars
    <3>1. chain' = chain /\ call' = call /\ fs'.runs = fs.runs
      BY <2>8 DEF vars
    <3> QED  BY <3>1, HitsStay
  <2> QED  BY <2>1, <2>2, <2>3, <2>4, <2>5, <2>6, <2>7, <2>8 DEF Next
<1> QED  BY InvHolds, IdleHolds, <1>1, <1>2, PTL DEF Spec
=============================================================================
