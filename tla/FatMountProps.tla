--------------------------- MODULE FatMountProps ----------------------------
(***************************************************************************)
(* The properties of mounting and of the lists of open files.              *)
(***************************************************************************)
EXTENDS FatMount

OpenFiles(p) == {h \in Handles : file[h].inUse /\ file[h].partition = p}

(* s is the list of the open files of p, from its first file on: as many   *)
(* as are counted, each once, linked in both directions.                   *)
ListOf(p, s) ==
    LET n == partition[p].openFileCount
    IN  /\ \A i, j \in 1 .. n : s[i] = s[j] => i = j
        /\ \A h \in Handles : h \in OpenFiles(p) <=> \E i \in 1 .. n : s[i] = h
        /\ partition[p].firstOpenFile = IF n = 0 THEN None ELSE s[1]
        /\ \A i \in 1 .. n :
             /\ file[s[i]].nextOpenFile = IF i = n THEN None ELSE s[i + 1]
             /\ file[s[i]].prevOpenFile = IF i = 1 THEN None ELSE s[i - 1]

(* The list of a partition has each of its open files once, in both        *)
(* directions, and their number, whichever files are opened and closed in  *)
(* whatever order by several threads (fatfile.c:320, fatfile.c:406).       *)
OpenListExact ==
    \A p \in Partitions : partition[p].mounted =>
        /\ partition[p].openFileCount \in Nat
        /\ \E s \in [1 .. partition[p].openFileCount -> Handles] : ListOf(p, s)

(* Unmounting tries to write back what every open file has not written     *)
(* yet, as fat.h promises (fat.h:93, partition.c:325): no file that is     *)
(* still modified goes with its partition, except one whose sync the disc  *)
(* failed, which nobody is told of.                                        *)
UnmountSavesChanges ==
    \A h \in Handles : file[h].inUse /\ file[h].modified => partition[file[h].partition].mounted

(* Every call returns: each path through a call gives the lock back, and   *)
(* the walk of the destructor ends.                                        *)
CallsReturn == \A t \in Threads : (thread[t].pc # "idle") ~> (thread[t].pc = "idle")
=============================================================================
