------------------------------ MODULE FileTree ------------------------------
(***************************************************************************)
(* What a volume promises to the programs that use it: a tree.  Every row  *)
(* is a file or a directory with a name in a directory; what it holds (its *)
(* node: the identity of a directory, the contents of a file) is its own.  *)
(* A call changes one row, a directory goes only when nothing is in it,    *)
(* and the current directory is one of the tree.                           *)
(*                                                                         *)
(* Each action is given the rows that the step takes away and those that   *)
(* it adds.                                                                *)
(***************************************************************************)
CONSTANTS AllNames, AllNodes, Root, Nothing   \* Nothing: what an empty file holds

VARIABLES rows, current

Directories == {Root} \cup {r.node : r \in {s \in rows : s.isDir}}

IsNewName(r) ==
    /\ r.dir \in Directories
    /\ r.name \in AllNames
    /\ \A s \in rows : ~(s.dir = r.dir /\ s.name = r.name)

IsUnused(node) == node \in AllNodes /\ \A s \in rows : s.node # node

FTInit == rows = {} /\ current = Root

Create(gone, added) ==
    /\ gone = {}
    /\ \E r \in added :
         /\ added = {r}
         /\ IsNewName(r)
         /\ IF r.isDir THEN IsUnused(r.node) ELSE r.node = Nothing

Remove(gone, added) ==
    /\ added = {}
    /\ \E r \in gone :
         /\ gone = {r}
         /\ r.isDir => r.node # current /\ \A s \in rows : s.dir # r.node

Move(gone, added) ==
    \E r \in gone, s \in added :
        /\ gone = {r} /\ added = {s}
        /\ IsNewName(s)
        /\ s.isDir = r.isDir /\ s.node = r.node

(* A file gets contents or loses them *)
Write(gone, added) ==
    \E r \in gone, s \in added :
        /\ gone = {r} /\ added = {s}
        /\ ~r.isDir
        /\ s = [r EXCEPT !.node = s.node]
        /\ IF r.node = Nothing THEN IsUnused(s.node) ELSE s.node = Nothing

ChangeDirectory == UNCHANGED rows /\ current' \in Directories

FTNext ==
    \/ /\ UNCHANGED current
       /\ \E gone \in {rows \ rows'}, added \in {rows' \ rows} :
            \/ Create(gone, added)
            \/ Remove(gone, added)
            \/ Move(gone, added)
            \/ Write(gone, added)
    \/ ChangeDirectory

FTSpec == FTInit /\ [][FTNext]_<<rows, current>>
=============================================================================
