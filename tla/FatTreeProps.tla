---------------------------- MODULE FatTreeProps ----------------------------
(***************************************************************************)
(* The properties of the tree of directories.                              *)
(***************************************************************************)
EXTENDS FatTree

(* The tree that the entries make, the dot entries left out *)

Kids(c) == {e \in Listed(c) : e.name \notin {".", ".."}}

(* The root and the directories at most n levels below it *)
DirsTo[n \in 0 .. Cardinality(Areas)] ==
    {rootDirCluster} \cup
    IF n = 0 THEN {} ELSE UNION {{e.cluster : e \in {k \in Kids(c) : k.dir}} : c \in DirsTo[n - 1]}

LiveDirs == DirsTo[Cardinality(Areas)]

(* What a file holds: its writer knows better than its entry *)
Holds(e) ==
    LET writers == {h \in Handles : files[h].inUse /\ files[h].write /\ files[h].at = e.at}
    IN  IF writers = {} THEN e.cluster ELSE files[CHOOSE h \in writers : TRUE].startCluster

RowsOf(d) == {[dir |-> d, name |-> e.name, isDir |-> e.dir, node |-> Holds(e)] : e \in Kids(d)}

Rows == UNION {RowsOf(d) : d \in LiveDirs}

(* The root has one name in the tree, whatever its cluster is *)
Node(c) == IF c = rootDirCluster THEN RootCluster ELSE c

NamedRows == {[r EXCEPT !.dir = Node(r.dir)] : r \in Rows}

Promise ==
    INSTANCE FileTree WITH
        AllNames <- Names, AllNodes <- DataClusters, Root <- RootCluster, Nothing <- CLUSTER_FREE,
        rows <- NamedRows, current <- Node(cwdCluster)

-----------------------------------------------------------------------------
(* The path calls implement a tree of files and directories: rmdir only    *)
(* takes empty directories, names stay unique, a new directory or file     *)
(* gets clusters of its own, a rename moves one entry, and neither fsync   *)
(* nor close nor a change of attributes alters what the tree holds         *)
(* (fatdir.c, fatfile.c).                                                  *)
ImplementsFileTree == Promise!FTSpec

(* Every allocated cluster belongs to exactly one chain: of a directory of *)
(* the tree, of a file (by its writer's start cluster, if it has one), or  *)
(* it is one that a failed mkdir left allocated (fatdir.c:447).            *)
OneOwner ==
    LET heads == {rootDirCluster} \cup {r.node : r \in Rows}
    IN  /\ \A c, d \in heads : c # d => ChainSet(c) \cap ChainSet(d) = {}
        /\ \A r, s \in Rows : r.node = s.node => r = s \/ r.node = CLUSTER_FREE
        /\ \A c \in Clusters : fat[c] # CLUSTER_FREE <=> c \in lost \cup UNION {ChainSet(d) : d \in heads}
        /\ lost \cap UNION {ChainSet(d) : d \in heads} = {}

(* An open file's slot still is the entry of that file while other calls   *)
(* grow directories, reuse the gaps of removed entries and move files: it  *)
(* is a file's entry of the tree, whose cluster is the handle's unless     *)
(* that has changes to write back (fatfile.c:351, fatdir.c:190).           *)
HandlesKeepTheirEntry ==
    \A h \in Handles : files[h].inUse =>
        \E d \in LiveDirs : \E e \in Kids(d) :
            /\ e.at = files[h].at
            /\ ~e.dir
            /\ (files[h].write /\ files[h].modified) \/ e.cluster = files[h].startCluster

(* The parent in the tree; the root is its own *)
ParentOf(d) == IF d = rootDirCluster THEN {d} ELSE {c \in LiveDirs : \E e \in Kids(c) : e.dir /\ e.cluster = d}

(* What a name means in directory d of the tree, directories as <<cluster, 0>> *)
StepInTree(d, n) ==
    CASE n = "."  -> {<<d, 0>>}
      [] n = ".." -> {<<c, 0>> : c \in ParentOf(d)}
      [] OTHER    -> {IF e.dir THEN <<e.cluster, 0>> ELSE e.at : e \in {k \in Kids(d) : k.name = n}}

(* What a path means in the tree *)
MeansInTree(p) ==
    LET reach[i \in 0 .. Len(p.parts)] ==
            IF i = 0 THEN {<<IF p.abs THEN rootDirCluster ELSE cwdCluster, 0>>}
            ELSE UNION {StepInTree(x[1], p.parts[i]) : x \in {y \in reach[i - 1] : y[2] = 0}}
    IN  reach[Len(p.parts)]

AgreesOn(p) == {IF e.dir THEN <<Place(e.cluster), 0>> ELSE e.at : e \in Target(p)} = MeansInTree(p)

(* The paths that WalkAgrees is about *)
WalkPaths ==
    LET part == Names \cup {".", ".."}
    IN  [abs : BOOLEAN, parts : {<<n>> : n \in part} \cup {<<n, m>> : n, m \in part}]

(* A path leads where the tree says, from the root and from the current    *)
(* directory, although ".." is an entry that every directory has of its    *)
(* own, which the root lacks and which names the root by cluster 0         *)
(* (directory.c:530).                                                      *)
WalkAgrees == \A p \in WalkPaths : AgreesOn(p)
=============================================================================
