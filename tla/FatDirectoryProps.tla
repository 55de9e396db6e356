------------------------- MODULE FatDirectoryProps --------------------------
(***************************************************************************)
(* What makes a directory right (FatDirectory), and its refinement of      *)
(* NameTable.                                                              *)
(***************************************************************************)
EXTENDS FatDirectory

(* The directory is whole clusters of slots, and the listing has its       *)
(* position in it.                                                         *)
TypeOK ==
    /\ dir \in Seq(Slot) /\ Len(dir) % SlotsPerCluster = 0
    /\ spare \in 0 .. MaxSpare
    /\ iter.inUse \in BOOLEAN /\ iter.validEntry \in BOOLEAN
    /\ iter.file \in Files \cup {NoFile} /\ iter.dataEnd \in 0 .. Len(dir)
    /\ DOMAIN iter.given \subseteq Files /\ iter.given \in [DOMAIN iter.given -> 0 .. 2]
    /\ call.name \in Names \cup {NoName} /\ call.old \in Names \cup {NoName}
    /\ call.errno \in {"none", "ENOSPC", "EIO"}

(* No name means two files: neither the names that were asked for nor the  *)
(* aliases that addEntry makes up collide, in any mixture and any case.    *)
NamesAreUnambiguous ==
    LET entries == Entries
    IN  \A n \in Names : \A d, e \in entries : Matches(d, n) /\ Matches(e, n) => d = e

(* An entry is refused only when the name cannot be had, or when nowhere   *)
(* in the directory there is a gap for it, nor room for it and a new end   *)
(* behind the last file, and no cluster is free.                           *)
Unused(i) == dir[i].kind \in {"free", "gone", "last"}

RefusedOnlyWithoutRoom ==
    call.errno = "ENOSPC" =>
       LET n    == Stripped(call.name)
           size == EntrySize(n)
       IN  \/ EntryExists(n)
           \/ AliasFor(n) = {}
           \/ /\ spare = 0
              /\ \A g \in 1 .. Len(dir) - size : \E i \in g .. g + size : ~Unused(i)
              /\ \A g \in 1 .. Len(dir) - size + 1 : \E i \in g .. g + size - 1 : ~IsFree(i)

(* unlink and rename report EIO for a removal that has been done only when *)
(* the entry is in the last slot of the directory; in a directory that     *)
(* libfat has filled none ever is, since it leaves a slot for the end.     *)
RemovalsSucceed == call.errno # "EIO"

(* Whatever is created, removed or renamed while a program lists the       *)
(* directory, a file that keeps its entry is given once at most, and once  *)
(* the listing is at its end it has been given (fatdir.c:625).             *)
ListedExactlyOnce ==
    \A f \in DOMAIN iter.given :
        /\ iter.given[f] <= 1
        /\ iter.inUse /\ ~iter.validEntry => iter.given[f] = 1

(* The directory is a table of names: whatever gaps the entries are put    *)
(* into and whatever slots removed ones leave behind, a scan finds exactly *)
(* the files that were created, each under its own name.                   *)
Table == INSTANCE NameTable WITH
    AllNames  <- CallNames,
    AllAliases <- Aliases,
    AllFiles  <- Files,
    SameName  <- LAMBDA n, m : Folded(n) = Folded(m),
    AsWritten <- Stripped,
    NoneAsked <- NoName,
    table     <- {[filename |-> e.filename, alias |-> e.alias, file |-> e.file] : e \in Entries},
    request   <- call

ImplementsNameTable == Table!NTSpec
=============================================================================
