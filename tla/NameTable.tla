----------------------------- MODULE NameTable ------------------------------
(***************************************************************************)
(* What a directory promises to those who create, remove and rename files  *)
(* in it: a table of names.  No two files of it can be meant by one name,  *)
(* a call changes the file it names and no other, and one that fails       *)
(* changes none.                                                           *)
(***************************************************************************)
CONSTANTS
    AllNames,       \* the names files are asked for
    AllAliases,     \* the aliases files can have besides
    AllFiles,
    NoneAsked,      \* no name
    SameName(_, _), \* are the two names equal but for upper and lower case?
    AsWritten(_)    \* the name that is stored for a name

VARIABLES
    table,          \* the files, each with its name and its alias
    request         \* the last call: op, the old name, the name, errno

Means(n, row) == SameName(n, row.filename) \/ SameName(n, row.alias)

Meant(n) == {row \in table : Means(n, row)}

Asks(op, old, n, errno) == request' = [op |-> op, old |-> old, name |-> n, errno |-> errno]

NTInit ==
    /\ table = {}
    /\ request = [op |-> "none", old |-> NoneAsked, name |-> NoneAsked, errno |-> "none"]

(* The row that a step adds: it has the name as written and an alias, and  *)
(* neither of them means a file of the table yet.                          *)
NewRow(row, n, f) ==
    /\ row = [filename |-> AsWritten(n), alias |-> row.alias, file |-> f]
    /\ row.alias \in AllAliases
    /\ Meant(row.alias) = {} /\ Meant(row.filename) = {}

Enter(n) ==
    /\ Asks("create", NoneAsked, n, "none")
    /\ Meant(n) = {}
    /\ \E row \in table' \ table :
         /\ row.file \in AllFiles \ {r.file : r \in table}
         /\ NewRow(row, n, row.file)
         /\ table' = table \cup {row}

Delete(n) ==
    /\ Asks("unlink", n, NoneAsked, "none")
    /\ \E row \in Meant(n) : table' = table \ {row}

Replace(old, new) ==
    /\ Asks("rename", old, new, "none")
    /\ \E gone \in Meant(old), row \in table' \ table :
         /\ NewRow(row, new, gone.file)
         /\ table' = (table \ {gone}) \cup {row}

Refuse(op, old, n) ==
    /\ Asks(op, old, n, "ENOSPC")
    /\ UNCHANGED table

NTNext ==
    \/ \E n \in AllNames : Enter(n) \/ Delete(n) \/ Refuse("create", NoneAsked, n)
    \/ \E old, new \in AllNames : Replace(old, new) \/ Refuse("rename", old, new)

NTSpec == NTInit /\ [][NTNext]_<<table, request>>
=============================================================================
