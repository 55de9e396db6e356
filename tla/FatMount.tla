------------------------------ MODULE FatMount ------------------------------
(***************************************************************************)
(* Mounting and unmounting (source/libfat.c, source/partition.c) while     *)
(* other threads open, use and close files: the device table, the          *)
(* partitions in memory, their locks (source/lock.c) and their lists of    *)
(* open files (source/fatfile.c).                                          *)
(*                                                                         *)
(* A call finds its partition first, by the device table or by the handle, *)
(* and waits for its lock then; what it does under the lock is one step.   *)
(* Unmounting takes the device out of the table, walks the list of open    *)
(* files under the lock and frees the partition.  What is in the files and *)
(* directories is FatFile and FatTree, the cache and the FSinfo sector are *)
(* FatCache and FatTable.  The disc may fail while a file is synced.       *)
(***************************************************************************)
EXTENDS Integers, FiniteSets

CONSTANTS
    Threads,
    Names,        \* names of devices, none of which is another one and a digit
    Handles,      \* FILE_STRUCTs
    Partitions,   \* bound: the partitions there is memory for
    STD_MAX,      \* the slots of the device table are 3 .. STD_MAX - 1
    None

ASSUME MountAssumption ==
    /\ STD_MAX \in Nat
    /\ Cardinality(Names) <= STD_MAX - 3
    /\ None \notin Threads \cup Names \cup Handles \cup Partitions

VARIABLES
    devoptab,     \* the partition in each slot, None is "stdnull"
    partition,    \* the PARTITION structs
    file,         \* the FILE_STRUCTs
    thread        \* the call each thread is in

vars == <<devoptab, partition, file, thread>>

Slots == 3 .. STD_MAX - 1

NotMounted == [mounted |-> FALSE, name |-> None, owner |-> None, firstOpenFile |-> None, openFileCount |-> 0]

(* failed is no field of the code: the destructor has tried to sync the    *)
(* file, and could not.                                                    *)
Unopened == [inUse |-> FALSE, modified |-> FALSE, failed |-> FALSE, partition |-> None,
             nextOpenFile |-> None, prevOpenFile |-> None]

Idle == [op |-> "none", pc |-> "idle", partition |-> None, file |-> None]

Init ==
    /\ devoptab = [s \in Slots |-> None]
    /\ partition = [p \in Partitions |-> NotMounted]
    /\ file = [h \in Handles |-> Unopened]
    /\ thread = [t \in Threads |-> Idle]

-----------------------------------------------------------------------------
(* The device table (external: testbench/iosupport.c stands in for it) *)

FindDevice(n) == {s \in Slots : devoptab[s] # None /\ partition[devoptab[s]].name = n}

FreeSlot == CHOOSE s \in Slots : devoptab[s] = None /\ \A r \in Slots : r < s => devoptab[r] # None

(* What a program has to see to: it does not use a partition while it is   *)
(* being unmounted or after that, uses a handle in one thread at a time,   *)
(* and mounts and unmounts in one thread at a time.                        *)
Calls(p) == {t \in Threads : thread[t].partition = p}

Leaving(p) == \E t \in Calls(p) : thread[t].op = "unmount"

InTransit == \E t \in Threads : thread[t].op \in {"mount", "unmount"}

InUse(h) == file[h].inUse /\ partition[file[h].partition].mounted

Busy(h) == \E t \in Threads : thread[t].file = h

-----------------------------------------------------------------------------
(* fatMount: a name that is mounted already is left alone.  The memory may *)
(* be that of a partition that was freed, whose handles nobody uses.       *)
Mount(t, n) ==
    /\ thread[t].pc = "idle" /\ ~InTransit
    /\ FindDevice(n) = {}
    /\ \E p \in Partitions :
         /\ ~partition[p].mounted
         /\ partition' = [partition EXCEPT ![p] = [NotMounted EXCEPT !.mounted = TRUE, !.name = n]]
         /\ thread' = [thread EXCEPT ![t] = [op |-> "mount", pc |-> "add", partition |-> p, file |-> None]]
         /\ file' = [h \in Handles |-> IF file[h].partition = p THEN Unopened ELSE file[h]]
    /\ UNCHANGED devoptab

(* AddDevice *)
AddDevice(t) ==
    /\ thread[t].pc = "add"
    /\ devoptab' = [devoptab EXCEPT ![FreeSlot] = thread[t].partition]
    /\ thread' = [thread EXCEPT ![t] = Idle]
    /\ UNCHANGED <<partition, file>>

(* fatUnmount: the device leaves the table before its partition is closed *)
Unmount(t, n) ==
    /\ thread[t].pc = "idle" /\ ~InTransit
    /\ \E s \in FindDevice(n) :
         /\ Calls(devoptab[s]) = {}
         /\ devoptab' = [devoptab EXCEPT ![s] = None]
         /\ thread' = [thread EXCEPT ![t] = [op |-> "unmount", pc |-> "lock",
                                             partition |-> devoptab[s], file |-> None]]
    /\ UNCHANGED <<partition, file>>

-----------------------------------------------------------------------------
(* The calls on files, up to the lock *)

(* _FAT_partition_getPartitionFromPath; a handle is free for another file  *)
(* when it has been closed, or its partition is gone.                      *)
StartOpen(t, h, n) ==
    /\ thread[t].pc = "idle" /\ ~Busy(h) /\ ~InUse(h)
    /\ \E s \in FindDevice(n) :
         /\ ~Leaving(devoptab[s])
         /\ thread' = [thread EXCEPT ![t] = [op |-> "open", pc |-> "lock", partition |-> devoptab[s], file |-> h]]
    /\ file' = [file EXCEPT ![h] = Unopened]
    /\ UNCHANGED <<devoptab, partition>>

(* write, ftruncate, fsync, read, seek and close look at inUse and take    *)
(* the partition from the handle.                                          *)
StartFileCall(t, h, op) ==
    /\ thread[t].pc = "idle" /\ ~Busy(h) /\ InUse(h)
    /\ ~Leaving(file[h].partition)
    /\ thread' = [thread EXCEPT ![t] = [op |-> op, pc |-> "lock", partition |-> file[h].partition, file |-> h]]
    /\ UNCHANGED <<devoptab, partition, file>>

(* _FAT_lock *)
Lock(t) ==
    /\ thread[t].pc = "lock"
    /\ partition[thread[t].partition].owner = None
    /\ partition' = [partition EXCEPT ![thread[t].partition].owner = t]
    /\ thread' = [thread EXCEPT ![t].pc = "locked"]
    /\ UNCHANGED <<devoptab, file>>

-----------------------------------------------------------------------------
(* The calls on files, under the lock *)

InCall(t, op) == thread[t].pc = "locked" /\ thread[t].op = op

(* Mutant: the lock is kept *)
UnlockedNot(part) == part

(* _FAT_unlock *)
Unlocked(part) == [part EXCEPT !.owner = None]

Return(t) == thread' = [thread EXCEPT ![t] = Idle]

(* Mutant: the file that was first does not learn of the new one *)
InsertedForward(p, h, modified) ==
    [file EXCEPT ![h] = [inUse |-> TRUE, modified |-> modified, failed |-> FALSE, partition |-> p,
                         nextOpenFile |-> partition[p].firstOpenFile, prevOpenFile |-> None]]

(* The new file comes first in the list.  If it was created or cut its     *)
(* entry is to be written.                                                 *)
Inserted(p, h, modified) ==
    LET first == partition[p].firstOpenFile
    IN  [g \in Handles |->
            IF g = h THEN [inUse |-> TRUE, modified |-> modified, failed |-> FALSE, partition |-> p,
                           nextOpenFile |-> first, prevOpenFile |-> None]
            ELSE IF g = first THEN [file[g] EXCEPT !.prevOpenFile = h]
            ELSE file[g]]

Open(t) ==
    LET p == thread[t].partition
        h == thread[t].file
    IN  /\ InCall(t, "open")
        /\ \E modified \in BOOLEAN : file' = Inserted(p, h, modified)
        /\ partition' = [partition EXCEPT ![p] =
               Unlocked([partition[p] EXCEPT !.firstOpenFile = h, !.openFileCount = @ + 1])]
        /\ Return(t)
        /\ UNCHANGED devoptab

(* An error of any call (ENOENT, EISDIR, ENOSPC and so on): it unlocks *)
Fails(t) ==
    LET p == thread[t].partition
    IN  /\ InCall(t, "open") \/ InCall(t, "write")
        /\ partition' = [partition EXCEPT ![p] = Unlocked(@)]
        /\ Return(t)
        /\ UNCHANGED <<devoptab, file>>

Write(t) ==
    LET p == thread[t].partition
    IN  /\ InCall(t, "write")
        /\ file' = [file EXCEPT ![thread[t].file].modified = TRUE]
        /\ partition' = [partition EXCEPT ![p] = Unlocked(@)]
        /\ Return(t)
        /\ UNCHANGED devoptab

(* _FAT_syncToDisc.  The flag says no more than the code does: it is       *)
(* cleared even if the sector of the entry could not be loaded.            *)
Synced(h) == [file EXCEPT ![h].modified = FALSE]

(* _FAT_fsync_r: if the cache cannot be flushed the file stays modified *)
Fsync(t) ==
    LET p == thread[t].partition
    IN  /\ InCall(t, "fsync")
        /\ file' \in {Synced(thread[t].file), file}
        /\ partition' = [partition EXCEPT ![p] = Unlocked(@)]
        /\ Return(t)
        /\ UNCHANGED devoptab

(* Mutant: the file before is left pointing at the closed one *)
RemovedBackward(h) ==
    [g \in Handles |->
        IF g = h THEN Unopened
        ELSE IF g = file[h].nextOpenFile THEN [file[g] EXCEPT !.prevOpenFile = file[h].prevOpenFile]
        ELSE file[g]]

(* Its neighbours in the list are linked to each other.  The links of the  *)
(* closed file stay in memory, where nothing reads them: they are forgotten. *)
Removed(h) ==
    [g \in Handles |->
        IF g = h THEN Unopened
        ELSE IF g = file[h].nextOpenFile THEN [file[g] EXCEPT !.prevOpenFile = file[h].prevOpenFile]
        ELSE IF g = file[h].prevOpenFile THEN [file[g] EXCEPT !.nextOpenFile = file[h].nextOpenFile]
        ELSE file[g]]

(* _FAT_close_r: whether the sync failed or not, the file is given up *)
Close(t) ==
    LET p == thread[t].partition
        h == thread[t].file
    IN  /\ InCall(t, "close")
        /\ file' = Removed(h)
        /\ partition' = [partition EXCEPT ![p] =
               Unlocked([partition[p] EXCEPT !.openFileCount = @ - 1,
                                             !.firstOpenFile = IF file[h].prevOpenFile = None
                                                               THEN file[h].nextOpenFile ELSE @])]
        /\ Return(t)
        /\ UNCHANGED devoptab

-----------------------------------------------------------------------------
(* _FAT_partition_destructor *)

(* nextFile is kept in the field file of the thread *)
StartSync(t) ==
    /\ InCall(t, "unmount")
    /\ thread' = [thread EXCEPT ![t].pc = "sync", ![t].file = partition[thread[t].partition].firstOpenFile]
    /\ UNCHANGED <<devoptab, partition, file>>

(* A sync that fails is not looked at: the walk goes on *)
SyncNext(t) ==
    LET h == thread[t].file
    IN  /\ thread[t].pc = "sync" /\ h # None
        /\ \/ file' = Synced(h)
           \/ file[h].modified /\ file' = [file EXCEPT ![h].failed = TRUE]
        /\ thread' = [thread EXCEPT ![t].file = file[h].nextOpenFile]
        /\ UNCHANGED <<devoptab, partition>>

(* The walk has done what it can for the file *)
Walked(h) == file[h].failed \/ ~file[h].modified

(* FSinfo, the cache, the lock and the memory; with the partition goes all *)
(* that a handle was good for, if the walk has come to it.                 *)
Destroy(t) ==
    /\ thread[t].pc = "sync" /\ thread[t].file = None
    /\ partition' = [partition EXCEPT ![thread[t].partition] = NotMounted]
    /\ file' = [h \in Handles |->
                   IF file[h].partition = thread[t].partition /\ Walked(h) THEN Unopened ELSE file[h]]
    /\ Return(t)
    /\ UNCHANGED devoptab

-----------------------------------------------------------------------------
(* What a thread does once it is in a call *)
Progress(t) ==
    \/ AddDevice(t) \/ Open(t) \/ Fails(t) \/ Write(t) \/ Fsync(t) \/ Close(t)
    \/ StartSync(t) \/ SyncNext(t) \/ Destroy(t)

Begin(t) ==
    \/ \E n \in Names : Mount(t, n) \/ Unmount(t, n)
    \/ \E h \in Handles, n \in Names : StartOpen(t, h, n)
    \/ \E h \in Handles, op \in {"write", "fsync", "close"} : StartFileCall(t, h, op)

Next == \E t \in Threads : Begin(t) \/ Lock(t) \/ Progress(t)

Spec == Init /\ [][Next]_vars

(* A thread that holds a lock is scheduled again, and the mutex hands the  *)
(* lock on to those who wait for it.                                       *)
FairSpec == Spec /\ \A t \in Threads : WF_vars(Progress(t)) /\ SF_vars(Lock(t))
=============================================================================
