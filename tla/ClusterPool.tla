---------------------------- MODULE ClusterPool -----------------------------
(***************************************************************************)
(* What the allocation table promises the rest of libfat: every file owns  *)
(* a sequence of clusters, no cluster is owned twice, a file grows by a    *)
(* cluster that nobody owns, is refused one only when there is none left,  *)
(* and keeps the front part of its clusters when it is cut.                *)
(*                                                                         *)
(* There is no table, no search and no link here.  FatTable is shown to    *)
(* implement this specification.                                           *)
(***************************************************************************)
EXTENDS Integers, Sequences

CONSTANTS Files, Clusters, NoAnswer, Error

VARIABLES
    chains,  \* the clusters of each file, in order
    answer   \* what the last call returned, NoAnswer if it returns nothing

poolVars == <<chains, answer>>

ClustersOf(f) == {chains[f][i] : i \in DOMAIN chains[f]}

Owned == UNION {ClustersOf(f) : f \in Files}

OwnedOnce ==
    \A f, g \in Files : \A i \in DOMAIN chains[f], j \in DOMAIN chains[g] :
        chains[f][i] = chains[g][j] => f = g /\ i = j

PoolInit ==
    /\ chains \in [Files -> Seq(Clusters)]
    /\ OwnedOnce
    /\ answer = NoAnswer

Grow(f) == \E c \in Clusters \ Owned :
    /\ chains' = [chains EXCEPT ![f] = Append(@, c)]
    /\ answer' = c

(* A file that is to grow in the middle is told what follows there *)
Follow(f) ==
    /\ answer' \in {chains[f][i + 1] : i \in 1 .. Len(chains[f]) - 1}
    /\ UNCHANGED chains

Refuse ==
    /\ Owned = Clusters
    /\ answer' = Error
    /\ UNCHANGED chains

Cut(f) == \E n \in 0 .. Len(chains[f]) :
    /\ chains' = [chains EXCEPT ![f] = SubSeq(@, 1, n)]
    /\ answer' = NoAnswer

Quiet == answer' = NoAnswer /\ UNCHANGED chains

PoolNext == Refuse \/ Quiet \/ \E f \in Files : Grow(f) \/ Follow(f) \/ Cut(f)

PoolSpec == PoolInit /\ [][PoolNext]_poolVars
=============================================================================
