------------------------------- MODULE MCTree -------------------------------
(***************************************************************************)
(* Two names, and the paths of one or two parts that differ in where they  *)
(* start and in how they come to a directory.                              *)
(***************************************************************************)
EXTENDS FatTreeProps, TLC

MCPath(abs, parts) == [abs |-> abs, parts |-> parts]

MCCallPaths ==
    {MCPath(FALSE, <<n>>) : n \in Names \cup {".."}} \cup {MCPath(TRUE, <<n, m>>) : n, m \in Names}

MCSymmetry == Permutations(Names) \cup Permutations(DataClusters) \cup Permutations(Handles)
=============================================================================
