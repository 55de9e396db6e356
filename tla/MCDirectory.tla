---------------------------- MODULE MCDirectory -----------------------------
(***************************************************************************)
(* A small directory: names of one and of two parts that share the tails   *)
(* of base B, the short name B~1 that takes one of those tails, a name     *)
(* that differs from its alias in case only, and the same name padded.     *)
(* All aliases of base A have the same checksum, which B has too.          *)
(***************************************************************************)
EXTENDS FatDirectoryProps, TLC

CONSTANTS long, longer, mixed, padded

MCCallNames   == {<<"B", 1>>, long, longer, mixed, padded}
MCFileSymmetry == Permutations(Files)
MCLongNames   == {long, longer, mixed}
MCBaseOf      == long :> "B" @@ longer :> "B" @@ mixed :> "A"
MCParts       == long :> 1 @@ longer :> 2 @@ mixed :> 1
MCUnpadded    == padded :> mixed
MCCheckSum    == [a \in {"A", "B"} \X (0 .. MAX_NUMERIC_TAIL) |-> IF a[1] = "A" THEN 1 ELSE 1 + a[2]]
=============================================================================
