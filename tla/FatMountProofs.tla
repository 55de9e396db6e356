--------------------------- MODULE FatMountProofs ---------------------------
(***************************************************************************)
(* Proofs about FatMount: the lists of open files stay exact and           *)
(* unmounting saves what they hold, for any number of threads, handles,    *)
(* partitions and devices.                                                 *)
(***************************************************************************)
EXTENDS FatMountProps, TLAPS

Ops == {"none", "mount", "unmount", "open", "write", "fsync", "close"}

OnFile == {"write", "fsync", "close"}

Partition == [mounted : BOOLEAN, name : Names \cup {None}, owner : Threads \cup {None},
              firstOpenFile : Handles \cup {None}, openFileCount : Int]

FileStruct == [inUse : BOOLEAN, modified : BOOLEAN, failed : BOOLEAN, partition : Partitions \cup {None},
               nextOpenFile : Handles \cup {None}, prevOpenFile : Handles \cup {None}]

Call == [op : Ops, pc : {"idle", "add", "lock", "locked", "sync"},
         partition : Partitions \cup {None}, file : Handles \cup {None}]

(* The types of the four variables *)
TypeOK ==
    /\ devoptab \in [Slots -> Partitions \cup {None}]
    /\ partition \in [Partitions -> Partition]
    /\ file \in [Handles -> FileStruct]
    /\ thread \in [Threads -> Call]

(* What the fields of a thread say of the call it is in.  Its partition is *)
(* mounted until it destroys it itself.                                    *)
CallState ==
    \A t \in Threads :
        /\ thread[t].pc = "idle" => thread[t] = Idle
        /\ thread[t].pc # "idle" => thread[t].partition \in Partitions /\ partition[thread[t].partition].mounted
        /\ thread[t].pc = "add" <=> thread[t].op = "mount"
        /\ thread[t].pc = "sync" => thread[t].op = "unmount"
        /\ thread[t].op = "none" => thread[t].pc = "idle"
        /\ thread[t].op = "mount" => thread[t].file = None
        /\ thread[t].op = "unmount" /\ thread[t].pc # "sync" => thread[t].file = None

(* The file of a call: a new one is nobody's yet, any other is open on the *)
(* partition of the call; no other call has it.                            *)
FileState ==
    \A t \in Threads :
        /\ thread[t].op = "open" => thread[t].file \in Handles /\ file[thread[t].file] = Unopened
        /\ thread[t].op \in OnFile => thread[t].file \in OpenFiles(thread[t].partition)
        /\ \A u \in Threads : thread[t].file = thread[u].file => t = u \/ thread[t].file = None

(* An open file is on a partition that is mounted *)
OpenState == \A h \in Handles : file[h].inUse => file[h].partition \in Partitions /\ partition[file[h].partition].mounted

(* The lock keeps one thread at a time in a partition *)
LockState ==
    \A t \in Threads, p \in Partitions :
        partition[p].owner = t <=> thread[t].partition = p /\ thread[t].pc \in {"locked", "sync"}

(* A device is in the table while its partition is mounted, in one slot;   *)
(* it is not yet there while it is mounted, and no longer while it is      *)
(* unmounted.  One thread does either at a time.                           *)
DeviceState ==
    /\ \A s \in Slots : devoptab[s] # None => partition[devoptab[s]].mounted
    /\ \A r, s \in Slots : devoptab[r] = devoptab[s] => r = s \/ devoptab[r] = None
    /\ \A t \in Threads : thread[t].op \in {"mount", "unmount"} =>
         /\ \A s \in Slots : devoptab[s] # thread[t].partition
         /\ \A u \in Threads : thread[u].op \in {"mount", "unmount"} => t = u

(* Whoever unmounts has the partition for itself *)
UnmountAlone ==
    \A t, u \in Threads : thread[t].op = "unmount" /\ thread[u].partition = thread[t].partition => t = u

(* The destructor is at place i of the list and what comes before it has   *)
(* been written, as far as the disc let it.                                *)
SyncedTo(t, s, i) ==
    LET n == partition[thread[t].partition].openFileCount
    IN  /\ thread[t].file = IF i = n + 1 THEN None ELSE s[i]
        /\ \A j \in 1 .. n : j < i => Walked(s[j])

Walking(t, s) ==
    LET p == thread[t].partition
    IN  ListOf(p, s) /\ \E i \in 1 .. partition[p].openFileCount + 1 : SyncedTo(t, s, i)

WalkState ==
    \A t \in Threads : thread[t].pc = "sync" =>
        \E s \in [1 .. partition[thread[t].partition].openFileCount -> Handles] : Walking(t, s)

CallInv == TypeOK /\ CallState /\ FileState /\ OpenState /\ LockState /\ DeviceState /\ UnmountAlone

Inv == CallInv /\ OpenListExact /\ WalkState
-----------------------------------------------------------------------------
(* The records a variable starts with are of its type *)
LEMMA InitialTypes == NotMounted \in Partition /\ Unopened \in FileStruct /\ Idle \in Call
<1>1. NotMounted \in Partition
  BY DEF NotMounted, Partition
<1>2. Unopened \in FileStruct
  BY DEF Unopened, FileStruct
<1>3. Idle \in Call
  BY DEF Idle, Call, Ops
<1>4. QED BY <1>1, <1>2, <1>3

(* Facts about the lists *)

(* A step leaves the list of p and the links of its files alone *)
SameList(p) ==
    /\ partition'[p].firstOpenFile = partition[p].firstOpenFile
    /\ partition'[p].openFileCount = partition[p].openFileCount
    /\ \A h \in Handles : h \in OpenFiles(p)' <=> h \in OpenFiles(p)
    /\ \A h \in OpenFiles(p) :
         /\ file'[h].nextOpenFile = file[h].nextOpenFile
         /\ file'[h].prevOpenFile = file[h].prevOpenFile

(* An open file of one partition is not one of another *)
LEMMA OpenOnce ==
    ASSUME NEW p, NEW q, NEW h, h \in OpenFiles(p), h \in OpenFiles(q)
    PROVE  p = q
BY DEF OpenFiles

(* The files of a list are the open files of its partition *)
LEMMA ListMembers ==
    ASSUME TypeOK, NEW p \in Partitions, partition[p].openFileCount \in Nat,
           NEW s \in [1 .. partition[p].openFileCount -> Handles], ListOf(p, s)
    PROVE  /\ \A i \in 1 .. partition[p].openFileCount : s[i] \in OpenFiles(p)
           /\ partition[p].firstOpenFile # None => partition[p].firstOpenFile \in OpenFiles(p)
<1>1. \A i \in 1 .. partition[p].openFileCount : s[i] \in OpenFiles(p)
  BY DEF ListOf
<1>2. partition[p].firstOpenFile # None => partition[p].firstOpenFile \in OpenFiles(p)
  BY <1>1 DEF ListOf
<1>3. QED BY <1>1, <1>2

(* A list that a step leaves alone is a list afterwards *)
LEMMA ListKept ==
    ASSUME NEW p \in Partitions, SameList(p), partition[p].openFileCount \in Nat,
           NEW s \in [1 .. partition[p].openFileCount -> Handles], ListOf(p, s)
    PROVE  ListOf(p, s)'
<1> DEFINE n == partition[p].openFileCount
<1>1. \A i \in 1 .. n : s[i] \in OpenFiles(p)
  BY DEF ListOf
<1>2. partition'[p].openFileCount = n
  BY DEF SameList
<1>3. \A i, j \in 1 .. n : s[i] = s[j] => i = j
  BY DEF ListOf
<1>4. \A h \in Handles : h \in OpenFiles(p)' <=> \E i \in 1 .. n : s[i] = h
  BY DEF ListOf, SameList
<1>5. partition'[p].firstOpenFile = IF n = 0 THEN None ELSE s[1]
  BY DEF ListOf, SameList
<1>6. \A i \in 1 .. n :
         /\ file'[s[i]].nextOpenFile = IF i = n THEN None ELSE s[i + 1]
         /\ file'[s[i]].prevOpenFile = IF i = 1 THEN None ELSE s[i - 1]
  BY <1>1 DEF ListOf, SameList
<1>7. QED BY <1>2, <1>3, <1>4, <1>5, <1>6 DEF ListOf

(* Its partition has an exact list then *)
LEMMA ListPreserved ==
    ASSUME OpenListExact, NEW p \in Partitions, partition[p].mounted, SameList(p)
    PROVE  /\ partition'[p].openFileCount \in Nat
           /\ \E s \in [1 .. partition'[p].openFileCount -> Handles] : ListOf(p, s)'
<1>1. partition'[p].openFileCount = partition[p].openFileCount
  BY DEF SameList
<1>2. partition[p].openFileCount \in Nat
  BY DEF OpenListExact
<1>3. PICK s \in [1 .. partition[p].openFileCount -> Handles] : ListOf(p, s)
  BY DEF OpenListExact
<1>4. ListOf(p, s)'
  BY <1>2, <1>3, ListKept
<1>5. QED BY <1>1, <1>2, <1>3, <1>4

(* The lists are exact after a step that leaves those of the mounted       *)
(* partitions alone.                                                       *)
LEMMA ListsKept ==
    ASSUME OpenListExact,
           \A p \in Partitions : partition'[p].mounted => partition[p].mounted /\ SameList(p)
    PROVE  OpenListExact'
BY ListPreserved DEF OpenListExact

(* The walk of a thread is where it was after a step of another that does  *)
(* not touch its partition, but for writing its files.                     *)
LEMMA WalkKept ==
    ASSUME Inv, NEW t \in Threads, thread'[t] = thread[t], thread[t].pc = "sync",
           SameList(thread[t].partition),
           \A h \in OpenFiles(thread[t].partition) : Walked(h) => Walked(h)'
    PROVE  \E s \in [1 .. partition'[thread'[t].partition].openFileCount -> Handles] : Walking(t, s)'
<1> DEFINE p == thread[t].partition
           n == partition[p].openFileCount
<1>1. p \in Partitions /\ partition[p].mounted /\ n \in Nat
  BY DEF Inv, CallInv, CallState, OpenListExact
<1>2. PICK s \in [1 .. n -> Handles] : Walking(t, s)
  BY DEF Inv, WalkState
<1>3. ListOf(p, s)'
  BY <1>1, <1>2, ListKept DEF Walking
<1>4. PICK i \in 1 .. n + 1 : SyncedTo(t, s, i)
  BY <1>2 DEF Walking
<1>5. \A j \in 1 .. n : s[j] \in OpenFiles(p)
  BY <1>1, <1>2, ListMembers DEF Walking, Inv, CallInv
<1>6. partition'[p].openFileCount = n /\ thread'[t].partition = p
  BY DEF SameList
<1>7. SyncedTo(t, s, i)'
  BY <1>4, <1>5, <1>6 DEF SyncedTo
<1>8. Walking(t, s)'
  BY <1>3, <1>6, <1>7 DEF Walking
<1>9. QED BY <1>6, <1>8

(* So are all walks after a step of a thread that is not on one then *)
LEMMA WalksKept ==
    ASSUME Inv, NEW t \in Threads, thread'[t].pc # "sync",
           \A u \in Threads : u # t => thread'[u] = thread[u],
           \A u \in Threads : u # t /\ thread[u].pc = "sync" =>
               /\ SameList(thread[u].partition)
               /\ \A h \in OpenFiles(thread[u].partition) : Walked(h) => Walked(h)'
    PROVE  WalkState'
<1> SUFFICES ASSUME NEW u \in Threads, thread'[u].pc = "sync"
             PROVE  \E s \in [1 .. partition'[thread'[u].partition].openFileCount -> Handles] : Walking(u, s)'
  BY DEF WalkState
<1>1. u # t /\ thread'[u] = thread[u] /\ thread[u].pc = "sync"
  OBVIOUS
<1>2. QED BY <1>1, WalkKept

-----------------------------------------------------------------------------
(* Every operation preserves the invariant *)

(* A call that returns leaves the files of the others to them *)
LEMMA ReturnFileState ==
    ASSUME TypeOK, FileState, NEW t \in Threads, thread' = [thread EXCEPT ![t] = Idle],
           \A u \in Threads : u # t =>
               /\ thread[u].op = "open" => file'[thread[u].file] = file[thread[u].file]
               /\ thread[u].op \in OnFile =>
                    /\ file'[thread[u].file].inUse = file[thread[u].file].inUse
                    /\ file'[thread[u].file].partition = file[thread[u].file].partition
    PROVE  FileState'
<1> USE MountAssumption
<1> SUFFICES ASSUME NEW u \in Threads
             PROVE  /\ thread'[u].op = "open" => thread'[u].file \in Handles /\ file'[thread'[u].file] = Unopened
                    /\ (thread[u].op \in OnFile => thread[u].file \in OpenFiles(thread[u].partition))'
                    /\ \A v \in Threads : thread'[u].file = thread'[v].file => u = v \/ thread'[u].file = None
  BY DEF FileState
<1>1. CASE u = t
  BY <1>1 DEF TypeOK, Idle, OnFile
<1>2. CASE u # t
  BY <1>2 DEF TypeOK, Idle, FileState, OpenFiles
<1>3. QED BY <1>1, <1>2

(* A partition that is mounted has no open files and no calls yet *)
LEMMA MountInv ==
    ASSUME Inv, NEW t \in Threads, NEW n \in Names, Mount(t, n)
    PROVE  Inv'
<1> USE MountAssumption
<1>0. PICK p \in Partitions :
         /\ ~partition[p].mounted
         /\ partition' = [partition EXCEPT ![p] = [NotMounted EXCEPT !.mounted = TRUE, !.name = n]]
         /\ thread' = [thread EXCEPT ![t] = [op |-> "mount", pc |-> "add", partition |-> p, file |-> None]]
         /\ file' = [h \in Handles |-> IF file[h].partition = p THEN Unopened ELSE file[h]]
  BY DEF Mount
<1>1. TypeOK'
  <2>1. [NotMounted EXCEPT !.mounted = TRUE, !.name = n] \in Partition
    <3>1. \A q \in Partition : [q EXCEPT !.mounted = TRUE, !.name = n] \in Partition
      BY DEF Partition
    <3>2. QED BY <3>1, InitialTypes
  <2>3. [op |-> "mount", pc |-> "add", partition |-> p, file |-> None] \in Call
    BY DEF Call, Ops
  <2>4. QED BY <1>0, <2>1, <2>3, InitialTypes DEF Inv, CallInv, TypeOK, Mount
<1>2. CallState'
  BY <1>0 DEF Inv, CallInv, TypeOK, CallState, NotMounted, Mount, Idle
<1>3. FileState'
  <2> SUFFICES ASSUME NEW u \in Threads
               PROVE  /\ thread'[u].op = "open" => thread'[u].file \in Handles /\ file'[thread'[u].file] = Unopened
                      /\ (thread[u].op \in OnFile => thread[u].file \in OpenFiles(thread[u].partition))'
                      /\ \A v \in Threads : thread'[u].file = thread'[v].file => u = v \/ thread'[u].file = None
    BY DEF FileState
  <2>1. thread'[u].op = "open" => thread'[u].file \in Handles /\ file'[thread'[u].file] = Unopened
    BY <1>0 DEF Inv, CallInv, TypeOK, FileState
  <2>2. (thread[u].op \in OnFile => thread[u].file \in OpenFiles(thread[u].partition))'
    BY <1>0 DEF Inv, CallInv, TypeOK, FileState, OnFile, OpenFiles, CallState, Idle
  <2>3. \A v \in Threads : thread'[u].file = thread'[v].file => u = v \/ thread'[u].file = None
    BY <1>0 DEF Inv, CallInv, TypeOK, FileState
  <2>4. QED BY <2>1, <2>2, <2>3
<1>4. OpenState'
  BY <1>0 DEF Inv, CallInv, TypeOK, OpenState, Unopened, NotMounted
<1>5. LockState'
  BY <1>0 DEF Inv, CallInv, TypeOK, CallState, LockState, NotMounted, Mount, Idle
<1>6. DeviceState'
  BY <1>0 DEF Inv, CallInv, TypeOK, DeviceState, NotMounted, Mount, InTransit
<1>7. UnmountAlone'
  BY <1>0 DEF Inv, CallInv, TypeOK, UnmountAlone, Mount, InTransit, CallState
<1>8. \A q \in Partitions : q # p => SameList(q)
  BY <1>0 DEF Inv, CallInv, TypeOK, SameList, OpenFiles, Unopened
<1>9. OpenListExact'
  <2> SUFFICES ASSUME NEW q \in Partitions, partition'[q].mounted
               PROVE  /\ partition'[q].openFileCount \in Nat
                      /\ \E s \in [1 .. partition'[q].openFileCount -> Handles] : ListOf(q, s)'
    BY DEF OpenListExact
  <2>1. CASE q = p
    <3>1. /\ partition'[q].openFileCount = 0
          /\ partition'[q].firstOpenFile = None
          /\ \A h \in Handles : h \notin OpenFiles(q)'
      BY <1>0, <2>1 DEF Inv, CallInv, TypeOK, NotMounted, OpenFiles, Unopened
    <3>2. PICK s \in [1 .. partition'[q].openFileCount -> Handles] : TRUE
      <4>1. [i \in 1 .. partition'[q].openFileCount |-> None] \in [1 .. partition'[q].openFileCount -> Handles]
        BY <3>1
      <4>2. QED BY <4>1
    <3>3. ListOf(q, s)'
      BY <3>1 DEF ListOf
    <3>4. partition'[q].openFileCount \in Nat
      BY <3>1
    <3>5. QED BY <3>2, <3>3, <3>4
  <2>2. CASE q # p
    BY <1>0, <1>8, <2>2, ListPreserved DEF Inv, CallInv, TypeOK
  <2>3. QED BY <2>1, <2>2
<1>10. WalkState'
  <2>1. \A u \in Threads : u # t /\ thread[u].pc = "sync" => thread[u].partition \in Partitions \ {p}
    BY <1>0 DEF Inv, CallInv, CallState
  <2>2. \A u \in Threads : \A h \in OpenFiles(thread[u].partition) : Walked(h) => Walked(h)'
    BY <1>0 DEF OpenFiles, Unopened, Walked
  <2>3. thread'[t].pc # "sync" /\ \A u \in Threads : u # t => thread'[u] = thread[u]
    BY <1>0 DEF Inv, CallInv, TypeOK
  <2>4. QED BY <1>8, <2>1, <2>2, <2>3, WalksKept
<1>11. QED BY <1>1, <1>2, <1>3, <1>4, <1>5, <1>6, <1>7, <1>9, <1>10 DEF Inv, CallInv

(* The entry in the table of devices makes no difference to the partition *)
LEMMA AddDeviceInv ==
    ASSUME Inv, NEW t \in Threads, AddDevice(t)
    PROVE  Inv'
<1> USE MountAssumption
<1>0. /\ devoptab' = [devoptab EXCEPT ![FreeSlot] = thread[t].partition]
      /\ thread' = [thread EXCEPT ![t] = Idle]
      /\ UNCHANGED <<partition, file>>
      /\ thread[t].pc = "add"
  BY DEF AddDevice
<1>1. TypeOK'
  BY <1>0, InitialTypes DEF Inv, CallInv, TypeOK, Call
<1>2. CallState'
  BY <1>0 DEF Inv, CallInv, TypeOK, CallState, Idle
<1>3. FileState'
  BY <1>0, ReturnFileState DEF Inv, CallInv, Return
<1>4. OpenState'
  BY <1>0 DEF Inv, CallInv, OpenState
<1>5. LockState'
  BY <1>0 DEF Inv, CallInv, TypeOK, CallState, LockState, Idle
<1>6. DeviceState'
  BY <1>0 DEF Inv, CallInv, TypeOK, CallState, DeviceState, Idle
<1>7. UnmountAlone'
  BY <1>0 DEF Inv, CallInv, TypeOK, CallState, UnmountAlone, Idle
<1>8. \A q \in Partitions : SameList(q)
  BY <1>0 DEF SameList, OpenFiles
<1>9. OpenListExact'
  BY <1>0, <1>8, ListsKept DEF Inv
<1>10. WalkState'
  <2>1. thread'[t].pc # "sync" /\ \A u \in Threads : u # t => thread'[u] = thread[u]
    BY <1>0 DEF Inv, CallInv, TypeOK, Idle
  <2>2. QED BY <1>0, <1>8, <2>1, WalksKept DEF Inv, CallInv, CallState, Walked
<1>11. QED BY <1>1, <1>2, <1>3, <1>4, <1>5, <1>6, <1>7, <1>9, <1>10 DEF Inv, CallInv

(* Unmounting finds the partition idle and starts to destroy it *)
LEMMA UnmountInv ==
    ASSUME Inv, NEW t \in Threads, NEW n \in Names, Unmount(t, n)
    PROVE  Inv'
<1> USE MountAssumption
<1>0. PICK s \in Slots :
         /\ devoptab[s] # None
         /\ Calls(devoptab[s]) = {}
         /\ devoptab' = [devoptab EXCEPT ![s] = None]
         /\ thread' = [thread EXCEPT ![t] = [op |-> "unmount", pc |-> "lock", partition |-> devoptab[s], file |-> None]]
  BY DEF Unmount, FindDevice
<1>a. UNCHANGED <<partition, file>> /\ thread[t].pc = "idle" /\ ~InTransit
  BY DEF Unmount
<1>b. devoptab[s] \in Partitions /\ partition[devoptab[s]].mounted
  BY <1>0 DEF Inv, CallInv, TypeOK, DeviceState
<1>1. TypeOK'
  <2>1. [op |-> "unmount", pc |-> "lock", partition |-> devoptab[s], file |-> None] \in Call
    BY <1>b DEF Call, Ops
  <2>2. QED BY <1>0, <1>a, <2>1 DEF Inv, CallInv, TypeOK
<1>2. CallState'
  BY <1>0, <1>a, <1>b DEF Inv, CallInv, TypeOK, CallState
<1>3. FileState'
  BY <1>0, <1>a DEF Inv, CallInv, TypeOK, FileState, OpenFiles, OnFile
<1>4. OpenState'
  BY <1>a DEF Inv, CallInv, OpenState
<1>5. LockState'
  BY <1>0, <1>a DEF Inv, CallInv, TypeOK, CallState, LockState
<1>6. DeviceState'
  BY <1>0, <1>a DEF Inv, CallInv, TypeOK, CallState, DeviceState, InTransit
<1>7. UnmountAlone'
  BY <1>0, <1>a DEF Inv, CallInv, TypeOK, UnmountAlone, Calls, InTransit
<1>8. \A q \in Partitions : SameList(q)
  BY <1>a DEF SameList, OpenFiles
<1>9. OpenListExact'
  BY <1>a, <1>8, ListsKept DEF Inv
<1>10. WalkState'
  <2>1. thread'[t].pc # "sync" /\ \A u \in Threads : u # t => thread'[u] = thread[u]
    BY <1>0 DEF Inv, CallInv, TypeOK
  <2>2. QED BY <1>a, <1>8, <2>1, WalksKept DEF Inv, CallInv, CallState, Walked
<1>11. QED BY <1>1, <1>2, <1>3, <1>4, <1>5, <1>6, <1>7, <1>9, <1>10 DEF Inv, CallInv

(* A thread that calls open waits for the lock with a file nobody uses *)
LEMMA StartOpenInv ==
    ASSUME Inv, NEW t \in Threads, NEW h \in Handles, NEW n \in Names, StartOpen(t, h, n)
    PROVE  Inv'
<1> USE MountAssumption
<1>0. PICK s \in Slots :
         /\ devoptab[s] # None
         /\ ~Leaving(devoptab[s])
         /\ thread' = [thread EXCEPT ![t] = [op |-> "open", pc |-> "lock", partition |-> devoptab[s], file |-> h]]
  BY DEF StartOpen, FindDevice
<1>a. /\ UNCHANGED <<devoptab, partition>> /\ thread[t].pc = "idle" /\ ~Busy(h) /\ ~InUse(h)
      /\ file' = [file EXCEPT ![h] = Unopened]
  BY DEF StartOpen
<1>b. devoptab[s] \in Partitions /\ partition[devoptab[s]].mounted
  BY <1>0 DEF Inv, CallInv, TypeOK, DeviceState
<1>c. \A p : h \notin OpenFiles(p)
  BY <1>a DEF InUse, OpenFiles, Inv, CallInv, OpenState
<1>1. TypeOK'
  <2>1. [op |-> "open", pc |-> "lock", partition |-> devoptab[s], file |-> h] \in Call
    BY <1>b DEF Call, Ops
  <2>2. QED BY <1>0, <1>a, <2>1, InitialTypes DEF Inv, CallInv, TypeOK
<1>2. CallState'
  BY <1>0, <1>a, <1>b DEF Inv, CallInv, TypeOK, CallState
<1>3. FileState'
  <2> SUFFICES ASSUME NEW u \in Threads
               PROVE  /\ thread'[u].op = "open" => thread'[u].file \in Handles /\ file'[thread'[u].file] = Unopened
                      /\ (thread[u].op \in OnFile => thread[u].file \in OpenFiles(thread[u].partition))'
                      /\ \A v \in Threads : thread'[u].file = thread'[v].file => u = v \/ thread'[u].file = None
    BY DEF FileState
  <2>1. CASE u = t
    BY <1>0, <1>a, <2>1 DEF Inv, CallInv, TypeOK, OnFile, Busy
  <2>2. CASE u # t
    BY <1>0, <1>a, <1>c, <2>2 DEF Inv, CallInv, TypeOK, FileState, OpenFiles, Busy
  <2>3. QED BY <2>1, <2>2
<1>4. OpenState'
  BY <1>a DEF Inv, CallInv, TypeOK, OpenState, Unopened
<1>5. LockState'
  BY <1>0, <1>a DEF Inv, CallInv, TypeOK, CallState, LockState
<1>6. DeviceState'
  BY <1>0, <1>a DEF Inv, CallInv, TypeOK, CallState, DeviceState
<1>7. UnmountAlone'
  BY <1>0, <1>a DEF Inv, CallInv, TypeOK, CallState, UnmountAlone, Leaving, Calls
<1>8. \A q \in Partitions : SameList(q)
  BY <1>a, <1>c DEF SameList, OpenFiles, Unopened, Inv, CallInv, TypeOK
<1>9. OpenListExact'
  BY <1>a, <1>8, ListsKept DEF Inv
<1>10. WalkState'
  <2>1. thread'[t].pc # "sync" /\ \A u \in Threads : u # t => thread'[u] = thread[u]
    BY <1>0 DEF Inv, CallInv, TypeOK
  <2>2. \A g \in Handles : Walked(g) => Walked(g)'
    BY <1>a DEF Unopened, Inv, CallInv, TypeOK, Walked
  <2>3. \A u \in Threads : thread[u].pc = "sync" => thread[u].partition \in Partitions
    BY DEF Inv, CallInv, CallState
  <2>4. \A p : OpenFiles(p) \subseteq Handles
    BY DEF OpenFiles
  <2>5. QED BY <1>8, <2>1, <2>2, <2>3, <2>4, WalksKept
<1>11. QED BY <1>1, <1>2, <1>3, <1>4, <1>5, <1>6, <1>7, <1>9, <1>10 DEF Inv, CallInv

(* A thread that calls for an open file waits for the lock of its partition *)
LEMMA StartFileCallInv ==
    ASSUME Inv, NEW t \in Threads, NEW h \in Handles, NEW op \in OnFile, StartFileCall(t, h, op)
    PROVE  Inv'
<1> USE MountAssumption
<1>0. /\ thread[t].pc = "idle" /\ ~Busy(h) /\ file[h].inUse /\ ~Leaving(file[h].partition)
      /\ thread' = [thread EXCEPT ![t] = [op |-> op, pc |-> "lock", partition |-> file[h].partition, file |-> h]]
      /\ UNCHANGED <<devoptab, partition, file>>
  BY DEF StartFileCall, InUse
<1>a. file[h].partition \in Partitions /\ partition[file[h].partition].mounted
  BY <1>0 DEF Inv, CallInv, OpenState
<1>b. op \in {"write", "fsync", "close"}
  BY DEF OnFile
<1>1. TypeOK'
  <2>1. [op |-> op, pc |-> "lock", partition |-> file[h].partition, file |-> h] \in Call
    BY <1>a, <1>b DEF Call, Ops
  <2>2. QED BY <1>0, <2>1 DEF Inv, CallInv, TypeOK
<1>2. CallState'
  BY <1>0, <1>a, <1>b DEF Inv, CallInv, TypeOK, CallState
<1>3. FileState'
  <2> SUFFICES ASSUME NEW u \in Threads
               PROVE  /\ thread'[u].op = "open" => thread'[u].file \in Handles /\ file'[thread'[u].file] = Unopened
                      /\ (thread[u].op \in OnFile => thread[u].file \in OpenFiles(thread[u].partition))'
                      /\ \A v \in Threads : thread'[u].file = thread'[v].file => u = v \/ thread'[u].file = None
    BY DEF FileState
  <2>1. CASE u = t
    BY <1>0, <1>b, <2>1 DEF Inv, CallInv, TypeOK, OpenFiles, Busy
  <2>2. CASE u # t
    BY <1>0, <2>2 DEF Inv, CallInv, TypeOK, FileState, OpenFiles, Busy
  <2>3. QED BY <2>1, <2>2
<1>4. OpenState'
  BY <1>0 DEF Inv, CallInv, OpenState
<1>5. LockState'
  BY <1>0 DEF Inv, CallInv, TypeOK, CallState, LockState
<1>6. DeviceState'
  BY <1>0, <1>b DEF Inv, CallInv, TypeOK, CallState, DeviceState
<1>7. UnmountAlone'
  BY <1>0, <1>b DEF Inv, CallInv, TypeOK, CallState, UnmountAlone, Leaving, Calls
<1>8. \A q \in Partitions : SameList(q)
  BY <1>0 DEF SameList, OpenFiles
<1>9. OpenListExact'
  BY <1>0, <1>8, ListsKept DEF Inv
<1>10. WalkState'
  <2>1. thread'[t].pc # "sync" /\ \A u \in Threads : u # t => thread'[u] = thread[u]
    BY <1>0 DEF Inv, CallInv, TypeOK
  <2>2. QED BY <1>0, <1>8, <2>1, WalksKept DEF Inv, CallInv, CallState, Walked
<1>11. QED BY <1>1, <1>2, <1>3, <1>4, <1>5, <1>6, <1>7, <1>9, <1>10 DEF Inv, CallInv

(* The lock is given to a thread while no other one has it *)
LEMMA LockInv ==
    ASSUME Inv, NEW t \in Threads, Lock(t)
    PROVE  Inv'
<1> USE MountAssumption
<1> DEFINE p == thread[t].partition
<1>0. /\ thread[t].pc = "lock" /\ partition[p].owner = None
      /\ partition' = [partition EXCEPT ![p].owner = t]
      /\ thread' = [thread EXCEPT ![t].pc = "locked"]
      /\ UNCHANGED <<devoptab, file>>
  BY DEF Lock
<1>a. p \in Partitions /\ partition[p].mounted
  BY <1>0 DEF Inv, CallInv, CallState
<1>1. TypeOK'
  <2>1. [partition[p] EXCEPT !.owner = t] \in Partition
    BY <1>a DEF Inv, CallInv, TypeOK, Partition
  <2>2. [thread[t] EXCEPT !.pc = "locked"] \in Call
    BY DEF Inv, CallInv, TypeOK, Call
  <2>3. QED BY <1>0, <2>1, <2>2 DEF Inv, CallInv, TypeOK
<1>2. CallState'
  BY <1>0, <1>a DEF Inv, CallInv, TypeOK, CallState, Partition, Call, Idle
<1>3. FileState'
  BY <1>0 DEF Inv, CallInv, TypeOK, FileState, OpenFiles, Call
<1>4. OpenState'
  BY <1>0, <1>a DEF Inv, CallInv, TypeOK, OpenState, Partition
<1>5. LockState'
  BY <1>0, <1>a DEF Inv, CallInv, TypeOK, CallState, LockState, Partition, Call
<1>6. DeviceState'
  BY <1>0, <1>a DEF Inv, CallInv, TypeOK, CallState, DeviceState, Partition, Call
<1>7. UnmountAlone'
  BY <1>0, <1>a DEF Inv, CallInv, TypeOK, UnmountAlone, Call
<1>8. \A q \in Partitions : SameList(q) /\ partition'[q].mounted = partition[q].mounted
  BY <1>0, <1>a DEF SameList, OpenFiles, Inv, CallInv, TypeOK, Partition
<1>9. OpenListExact'
  BY <1>8, ListsKept DEF Inv
<1>10. WalkState'
  <2>1. thread'[t].pc # "sync" /\ \A u \in Threads : u # t => thread'[u] = thread[u]
    BY <1>0 DEF Inv, CallInv, TypeOK, Call
  <2>2. QED BY <1>0, <1>8, <2>1, WalksKept DEF Inv, CallInv, CallState, Walked
<1>11. QED BY <1>1, <1>2, <1>3, <1>4, <1>5, <1>6, <1>7, <1>9, <1>10 DEF Inv, CallInv

(* What a call that returns does to the lock and to the threads, whatever  *)
(* it did to its partition p before, which is X then.                      *)
LEMMA ReturnInv ==
    ASSUME CallInv, NEW t \in Threads, thread[t].pc = "locked", NEW X \in Partition,
           X.owner = None, X.mounted = partition[thread[t].partition].mounted,
           partition' = [partition EXCEPT ![thread[t].partition] = X],
           thread' = [thread EXCEPT ![t] = Idle], UNCHANGED devoptab
    PROVE  /\ CallState' /\ LockState' /\ DeviceState' /\ UnmountAlone'
           /\ devoptab' \in [Slots -> Partitions \cup {None}]
           /\ partition' \in [Partitions -> Partition]
           /\ thread' \in [Threads -> Call]
           /\ \A q \in Partitions : partition'[q].mounted = partition[q].mounted
           /\ thread'[t].pc # "sync" /\ \A u \in Threads : u # t => thread'[u] = thread[u]
<1> USE MountAssumption
<1> DEFINE p == thread[t].partition
<1>0. p \in Partitions /\ partition[p].mounted
  BY DEF CallInv, CallState
<1>1. /\ devoptab' \in [Slots -> Partitions \cup {None}]
      /\ partition' \in [Partitions -> Partition]
      /\ thread' \in [Threads -> Call]
  BY InitialTypes DEF CallInv, TypeOK
<1>2. \A q \in Partitions : partition'[q].mounted = partition[q].mounted
  BY <1>0 DEF CallInv, TypeOK
<1>3. thread'[t] = Idle /\ \A u \in Threads : u # t => thread'[u] = thread[u]
  BY DEF CallInv, TypeOK
<1>4. CallState'
  BY <1>2, <1>3 DEF CallInv, CallState, Idle
<1>5. LockState'
  BY <1>0, <1>3 DEF CallInv, TypeOK, LockState, Idle
<1>6. DeviceState'
  BY <1>2, <1>3 DEF CallInv, TypeOK, DeviceState, Idle
<1>7. UnmountAlone'
  BY <1>0, <1>3 DEF CallInv, UnmountAlone, CallState, Idle
<1>8. thread'[t].pc # "sync"
  BY <1>3 DEF Idle
<1>9. QED BY <1>1, <1>2, <1>3, <1>4, <1>5, <1>6, <1>7, <1>8

(* A partition that is unlocked is the same but for that *)
LEMMA UnlockedFields ==
    ASSUME NEW part \in Partition
    PROVE  /\ Unlocked(part) \in Partition
           /\ Unlocked(part).owner = None
           /\ Unlocked(part).mounted = part.mounted
           /\ Unlocked(part).firstOpenFile = part.firstOpenFile
           /\ Unlocked(part).openFileCount = part.openFileCount
BY DEF Unlocked, Partition

(* A call that returns having done no more to the files than set or clear  *)
(* the flag of its own one                                                 *)
LEMMA ReturnQuietInv ==
    ASSUME Inv, NEW t \in Threads, thread[t].pc = "locked", thread[t].op # "unmount",
           partition' = [partition EXCEPT ![thread[t].partition] = Unlocked(@)],
           thread' = [thread EXCEPT ![t] = Idle], UNCHANGED devoptab,
           file' = file \/ \E m \in BOOLEAN :
               thread[t].op \in OnFile /\ file' = [file EXCEPT ![thread[t].file].modified = m]
    PROVE  Inv'
<1> USE MountAssumption
<1> DEFINE p == thread[t].partition
           X == Unlocked(partition[p])
<1>0. p \in Partitions /\ partition[p] \in Partition
  BY DEF Inv, CallInv, CallState, TypeOK
<1>1. /\ partition' = [partition EXCEPT ![p] = X]
      /\ X \in Partition /\ X.owner = None /\ X.mounted = partition[p].mounted
      /\ X.firstOpenFile = partition[p].firstOpenFile /\ X.openFileCount = partition[p].openFileCount
  BY <1>0, UnlockedFields
<1> HIDE DEF X
<1>2. /\ CallState' /\ LockState' /\ DeviceState' /\ UnmountAlone'
      /\ devoptab' \in [Slots -> Partitions \cup {None}]
      /\ partition' \in [Partitions -> Partition]
      /\ thread' \in [Threads -> Call]
      /\ \A q \in Partitions : partition'[q].mounted = partition[q].mounted
      /\ thread'[t].pc # "sync" /\ \A u \in Threads : u # t => thread'[u] = thread[u]
  BY <1>1, ReturnInv DEF Inv
<1>3. /\ file' \in [Handles -> FileStruct]
      /\ \A g \in Handles :
         /\ file'[g].inUse = file[g].inUse /\ file'[g].partition = file[g].partition
         /\ file'[g].nextOpenFile = file[g].nextOpenFile /\ file'[g].prevOpenFile = file[g].prevOpenFile
         /\ file'[g] = file[g] \/ (thread[t].op \in OnFile /\ g = thread[t].file)
  <2>1. CASE file' = file
    BY <2>1 DEF Inv, CallInv, TypeOK
  <2>2. ASSUME NEW m \in BOOLEAN, thread[t].op \in OnFile, file' = [file EXCEPT ![thread[t].file].modified = m]
        PROVE  /\ file' \in [Handles -> FileStruct]
               /\ \A g \in Handles :
                  /\ file'[g].inUse = file[g].inUse /\ file'[g].partition = file[g].partition
                  /\ file'[g].nextOpenFile = file[g].nextOpenFile /\ file'[g].prevOpenFile = file[g].prevOpenFile
                  /\ file'[g] = file[g] \/ (thread[t].op \in OnFile /\ g = thread[t].file)
    <3>1. thread[t].file \in Handles /\ file[thread[t].file] \in FileStruct
      BY <2>2 DEF Inv, CallInv, TypeOK, FileState, OpenFiles
    <3>2. \A f \in FileStruct :
             /\ [f EXCEPT !.modified = m] \in FileStruct
             /\ [f EXCEPT !.modified = m].inUse = f.inUse
             /\ [f EXCEPT !.modified = m].partition = f.partition
             /\ [f EXCEPT !.modified = m].nextOpenFile = f.nextOpenFile
             /\ [f EXCEPT !.modified = m].prevOpenFile = f.prevOpenFile
      BY DEF FileStruct
    <3>3. QED BY <2>2, <3>1, <3>2 DEF Inv, CallInv, TypeOK
  <2>3. QED BY <2>1, <2>2
<1>5. FileState'
  <2>1. \A u \in Threads : u # t =>
           /\ thread[u].op = "open" => thread[u].file \in Handles /\ thread[u].file # thread[t].file
           /\ thread[u].op \in OnFile => thread[u].file \in Handles
    BY DEF Inv, CallInv, FileState, OpenFiles
  <2>2. \A u \in Threads : u # t =>
           /\ thread[u].op = "open" => file'[thread[u].file] = file[thread[u].file]
           /\ thread[u].op \in OnFile =>
                /\ file'[thread[u].file].inUse = file[thread[u].file].inUse
                /\ file'[thread[u].file].partition = file[thread[u].file].partition
    BY <1>3, <2>1, SMTT(40)
  <2>3. TypeOK /\ FileState
    BY DEF Inv, CallInv
  <2>4. QED BY <1>1, <2>2, <2>3, ReturnFileState
<1>6. OpenState'
  BY <1>2, <1>3 DEF Inv, CallInv, OpenState
<1>7. \A q \in Partitions : SameList(q)
  BY <1>0, <1>1, <1>3 DEF SameList, OpenFiles, Inv, CallInv, TypeOK
<1>8. OpenListExact'
  BY <1>2, <1>7, ListsKept DEF Inv
<1>9. WalkState'
  <2>1. \A u \in Threads : u # t /\ thread[u].pc = "sync" => thread[u].partition \in Partitions \ {p}
    BY DEF Inv, CallInv, CallState, UnmountAlone
  <2>2. thread[t].op \in OnFile => thread[t].file \in OpenFiles(p)
    BY DEF Inv, CallInv, FileState
  <2>3. \A q \in Partitions \ {p} : \A g \in OpenFiles(q) : file'[g] = file[g]
    BY <1>3, <2>2 DEF OpenFiles
  <2>4. QED BY <1>2, <1>7, <2>1, <2>3, WalksKept DEF Walked
<1>10. QED BY <1>2, <1>3, <1>5, <1>6, <1>8, <1>9 DEF Inv, CallInv, TypeOK

(* A call that fails gives the lock back *)
LEMMA FailsInv ==
    ASSUME Inv, NEW t \in Threads, Fails(t)
    PROVE  Inv'
BY ReturnQuietInv DEF Fails, InCall, Return

(* A write makes the file one with changes *)
LEMMA WriteInv ==
    ASSUME Inv, NEW t \in Threads, Write(t)
    PROVE  Inv'
<1>1. /\ thread[t].pc = "locked" /\ thread[t].op = "write"
      /\ file' = [file EXCEPT ![thread[t].file].modified = TRUE]
      /\ partition' = [partition EXCEPT ![thread[t].partition] = Unlocked(@)]
      /\ thread' = [thread EXCEPT ![t] = Idle] /\ UNCHANGED devoptab
  BY DEF Write, InCall, Return
<1>2. "write" \in OnFile
  BY DEF OnFile
<1>3. QED BY <1>1, <1>2, ReturnQuietInv

(* fsync makes it one without *)
LEMMA FsyncInv ==
    ASSUME Inv, NEW t \in Threads, Fsync(t)
    PROVE  Inv'
<1>1. /\ thread[t].pc = "locked" /\ thread[t].op = "fsync"
      /\ file' = file \/ file' = [file EXCEPT ![thread[t].file].modified = FALSE]
      /\ partition' = [partition EXCEPT ![thread[t].partition] = Unlocked(@)]
      /\ thread' = [thread EXCEPT ![t] = Idle] /\ UNCHANGED devoptab
  BY DEF Fsync, InCall, Return, Synced
<1>2. "fsync" \in OnFile
  BY DEF OnFile
<1>3. QED BY <1>1, <1>2, ReturnQuietInv

(* The list with one file more in front *)
LEMMA InsertedList ==
    ASSUME TypeOK, NEW p \in Partitions, NEW h \in Handles, file[h] = Unopened, NEW m \in BOOLEAN,
           partition[p].openFileCount \in Nat,
           NEW s \in [1 .. partition[p].openFileCount -> Handles], ListOf(p, s),
           file' = Inserted(p, h, m),
           partition'[p].firstOpenFile = h,
           partition'[p].openFileCount = partition[p].openFileCount + 1
    PROVE  \E r \in [1 .. partition'[p].openFileCount -> Handles] : ListOf(p, r)'
<1> USE MountAssumption
<1> DEFINE n == partition[p].openFileCount
           first == partition[p].firstOpenFile
<1>1. /\ \A i \in 1 .. n : s[i] \in OpenFiles(p) /\ s[i] \in Handles /\ s[i] # h
      /\ first = IF n = 0 THEN None ELSE s[1]
  <2>1. h \notin OpenFiles(p)
    BY DEF OpenFiles, Unopened
  <2>2. QED BY <2>1, ListMembers DEF ListOf
<1>2. /\ file'[h].inUse /\ file'[h].partition = p
      /\ file'[h].nextOpenFile = first /\ file'[h].prevOpenFile = None
  BY DEF Inserted
<1>3. \A g \in Handles : g # h =>
         /\ file'[g].inUse = file[g].inUse /\ file'[g].partition = file[g].partition
         /\ file'[g].nextOpenFile = file[g].nextOpenFile
         /\ file'[g].prevOpenFile = IF g = first THEN h ELSE file[g].prevOpenFile
  BY DEF Inserted, TypeOK, FileStruct
<1>4. PICK r \in [1 .. n + 1 -> Handles] :
          r[1] = h /\ \A i \in 1 .. n + 1 : i # 1 => r[i] = s[i - 1] /\ i - 1 \in 1 .. n
  <2> DEFINE q == [i \in 1 .. n + 1 |-> IF i = 1 THEN h ELSE s[i - 1]]
  <2>1. q \in [1 .. n + 1 -> Handles] /\ q[1] = h /\ \A i \in 1 .. n + 1 : i # 1 => q[i] = s[i - 1] /\ i - 1 \in 1 .. n
    OBVIOUS
  <2>2. QED BY <2>1
<1>5. \A i, j \in 1 .. n + 1 : r[i] = r[j] => i = j
  BY <1>1, <1>4 DEF ListOf
<1>6. \A g \in Handles : g \in OpenFiles(p)' <=> \E i \in 1 .. n + 1 : r[i] = g
  <2>1. \A g \in Handles : g \in OpenFiles(p)' <=> g = h \/ g \in OpenFiles(p)
    BY <1>2, <1>3 DEF OpenFiles
  <2>2. \A g \in Handles : g \in OpenFiles(p) <=> \E i \in 1 .. n : s[i] = g
    BY DEF ListOf
  <2>3. \A i \in 1 .. n : i + 1 \in 1 .. n + 1 /\ r[i + 1] = s[i]
    BY <1>4
  <2>4. 1 \in 1 .. n + 1
    OBVIOUS
  <2>5. QED BY <1>1, <1>4, <2>1, <2>2, <2>3, <2>4
<1>7. \A i \in 1 .. n + 1 : file'[r[i]].nextOpenFile = IF i = n + 1 THEN None ELSE r[i + 1]
  <2>1. CASE n = 0
    BY <1>1, <1>2, <1>4, <2>1
  <2>2. CASE n # 0
    <3>1. file'[r[1]].nextOpenFile = r[2]
      BY <1>1, <1>2, <1>4, <2>2
    <3>2. \A i \in 1 .. n : file'[s[i]].nextOpenFile = IF i = n THEN None ELSE s[i + 1]
      BY <1>1, <1>3 DEF ListOf
    <3>3. QED BY <1>4, <2>2, <3>1, <3>2
  <2>3. QED BY <2>1, <2>2
<1>8. \A i \in 1 .. n + 1 : file'[r[i]].prevOpenFile = IF i = 1 THEN None ELSE r[i - 1]
  <2>1. file'[r[1]].prevOpenFile = None
    BY <1>2, <1>4
  <2>2. \A i \in 1 .. n : file'[s[i]].prevOpenFile = IF i = 1 THEN h ELSE s[i - 1]
    BY <1>1, <1>3 DEF ListOf
  <2>3. QED BY <1>4, <2>1, <2>2
<1>9. ListOf(p, r)'
  BY <1>4, <1>5, <1>6, <1>7, <1>8, SMTT(40) DEF ListOf
<1>10. QED BY <1>4, <1>9

(* The list without one of its files *)
LEMMA RemovedList ==
    ASSUME TypeOK, NEW p \in Partitions, NEW h \in OpenFiles(p),
           partition[p].openFileCount \in Nat,
           NEW s \in [1 .. partition[p].openFileCount -> Handles], ListOf(p, s),
           file' = Removed(h),
           partition'[p].firstOpenFile = (IF file[h].prevOpenFile = None
                                          THEN file[h].nextOpenFile ELSE partition[p].firstOpenFile),
           partition'[p].openFileCount = partition[p].openFileCount - 1
    PROVE  /\ partition'[p].openFileCount \in Nat
           /\ \E r \in [1 .. partition'[p].openFileCount -> Handles] : ListOf(p, r)'
<1> USE MountAssumption
<1> DEFINE n == partition[p].openFileCount
           next == file[h].nextOpenFile
           prev == file[h].prevOpenFile
<1>1. PICK k \in 1 .. n : s[k] = h
  BY DEF ListOf, OpenFiles
<1>2. n - 1 \in Nat
  BY <1>1
<1>3. /\ next = IF k = n THEN None ELSE s[k + 1]
      /\ prev = IF k = 1 THEN None ELSE s[k - 1]
  BY <1>1 DEF ListOf
<1>4. /\ ~file'[h].inUse
      /\ \A g \in Handles : g # h =>
         /\ file'[g].inUse = file[g].inUse /\ file'[g].partition = file[g].partition
         /\ next # prev => /\ file'[g].nextOpenFile = IF g = prev THEN next ELSE file[g].nextOpenFile
                           /\ file'[g].prevOpenFile = IF g = next THEN prev ELSE file[g].prevOpenFile
         /\ g # next /\ g # prev => file'[g] = file[g]
  BY DEF Removed, Unopened, TypeOK, FileStruct, OpenFiles
<1>5. \A i, j \in 1 .. n : s[i] = s[j] => i = j
  BY DEF ListOf
<1>6. \A i \in 1 .. n : s[i] \in Handles /\ s[i] # None
  OBVIOUS
<1>7. next # prev \/ n = 1
  BY <1>1, <1>3, <1>5, <1>6
<1>8. PICK r \in [1 .. n - 1 -> Handles] :
         \A i \in 1 .. n - 1 : /\ i < k => r[i] = s[i] /\ i \in 1 .. n
                               /\ i >= k => r[i] = s[i + 1] /\ i + 1 \in 1 .. n
                               /\ r[i] # h
  <2> DEFINE q == [i \in 1 .. n - 1 |-> IF i < k THEN s[i] ELSE s[i + 1]]
  <2>1. q \in [1 .. n - 1 -> Handles]
    OBVIOUS
  <2>2. \A i \in 1 .. n - 1 : /\ i < k => q[i] = s[i] /\ i \in 1 .. n
                              /\ i >= k => q[i] = s[i + 1] /\ i + 1 \in 1 .. n
                              /\ q[i] # h
    BY <1>1, <1>5
  <2>3. QED BY <2>1, <2>2
<1>9. \A i, j \in 1 .. n - 1 : r[i] = r[j] => i = j
  <2> SUFFICES ASSUME NEW i \in 1 .. n - 1, NEW j \in 1 .. n - 1, r[i] = r[j], i < j
               PROVE  FALSE
    OBVIOUS
  <2>1. PICK a \in 1 .. n : r[i] = s[a] /\ a <= i + 1 /\ (i < k => a = i) /\ (i >= k => a = i + 1)
    BY <1>8
  <2>2. PICK b \in 1 .. n : r[j] = s[b] /\ (j < k => b = j) /\ (j >= k => b = j + 1)
    BY <1>8
  <2>3. a = b
    BY <1>5, <2>1, <2>2
  <2>4. QED BY <1>1, <2>1, <2>2, <2>3
<1>10. \A g \in Handles : g \in OpenFiles(p)' <=> \E i \in 1 .. n - 1 : r[i] = g
  <2>1. \A g \in Handles : g \in OpenFiles(p)' <=> g # h /\ g \in OpenFiles(p)
    BY <1>4 DEF OpenFiles
  <2>2. \A g \in Handles : g \in OpenFiles(p) <=> \E i \in 1 .. n : s[i] = g
    BY DEF ListOf
  <2>3. ASSUME NEW i \in 1 .. n, s[i] # h
        PROVE  \E j \in 1 .. n - 1 : r[j] = s[i]
    <3>1. CASE i < k
      BY <1>1, <1>8, <3>1
    <3>2. CASE i > k
      <4>1. i - 1 \in 1 .. n - 1 /\ r[i - 1] = s[i]
        BY <1>1, <1>8, <3>2
      <4>2. QED BY <4>1
    <3>3. QED BY <1>1, <2>3, <3>1, <3>2
  <2>4. ASSUME NEW g \in Handles, g \in OpenFiles(p)'
        PROVE  \E i \in 1 .. n - 1 : r[i] = g
    <3>1. PICK i \in 1 .. n : s[i] = g /\ g # h
      BY <2>1, <2>2, <2>4
    <3>2. QED BY <2>3, <3>1
  <2>5. ASSUME NEW i \in 1 .. n - 1
        PROVE  r[i] \in OpenFiles(p)'
    <3>1. r[i] \in Handles /\ r[i] # h
      BY <1>8
    <3>2. PICK j \in 1 .. n : s[j] = r[i]
      BY <1>2, <1>8
    <3>3. QED BY <2>1, <2>2, <3>1, <3>2
  <2>6. QED BY <2>4, <2>5
<1>11. partition'[p].firstOpenFile = IF n - 1 = 0 THEN None ELSE r[1]
  BY <1>1, <1>3, <1>6, <1>8 DEF ListOf
<1>12. ASSUME NEW i \in 1 .. n - 1
       PROVE  /\ file'[r[i]].nextOpenFile = IF i = n - 1 THEN None ELSE r[i + 1]
              /\ file'[r[i]].prevOpenFile = IF i = 1 THEN None ELSE r[i - 1]
  <2>0. n # 1 /\ next # prev
    BY <1>7
  <2>a. \A j \in 1 .. n : j # k =>
           /\ file'[s[j]].nextOpenFile = IF j = k - 1 THEN next ELSE IF j = n THEN None ELSE s[j + 1]
           /\ file'[s[j]].prevOpenFile = IF j = k + 1 THEN prev ELSE IF j = 1 THEN None ELSE s[j - 1]
    <3> SUFFICES ASSUME NEW j \in 1 .. n, j # k
                 PROVE  /\ file'[s[j]].nextOpenFile = IF j = k - 1 THEN next ELSE IF j = n THEN None ELSE s[j + 1]
                        /\ file'[s[j]].prevOpenFile = IF j = k + 1 THEN prev ELSE IF j = 1 THEN None ELSE s[j - 1]
      OBVIOUS
    <3>1. s[j] # h /\ s[j] \in Handles
      BY <1>1, <1>5
    <3>2. s[j] = prev <=> j = k - 1
      BY <1>1, <1>3, <1>5, <1>6
    <3>3. s[j] = next <=> j = k + 1
      BY <1>1, <1>3, <1>5, <1>6
    <3>4. /\ file[s[j]].nextOpenFile = IF j = n THEN None ELSE s[j + 1]
          /\ file[s[j]].prevOpenFile = IF j = 1 THEN None ELSE s[j - 1]
      BY DEF ListOf
    <3>5. QED BY <1>4, <2>0, <3>1, <3>2, <3>3, <3>4
  <2>1. CASE i < k - 1
    BY <1>1, <1>8, <2>a, <2>1
  <2>2. CASE i = k - 1
    BY <1>1, <1>3, <1>8, <2>a, <2>2
  <2>3. CASE i = k
    <3>1. r[i] = s[k + 1] /\ k + 1 \in 1 .. n /\ k + 1 # k
      BY <1>1, <1>8, <2>3
    <3>2. i # n - 1 => r[i + 1] = s[k + 2]
      BY <1>1, <1>8, <2>3
    <3>3. i # 1 => r[i - 1] = s[k - 1]
      BY <1>1, <1>8, <2>3
    <3>4. file'[s[k + 1]].nextOpenFile = IF k + 1 = n THEN None ELSE s[k + 2]
      BY <1>1, <2>a, <3>1
    <3>5. file'[s[k + 1]].prevOpenFile = prev
      BY <1>1, <2>a, <3>1
    <3>6. QED BY <1>1, <1>3, <2>3, <3>1, <3>2, <3>3, <3>4, <3>5
  <2>4. CASE i > k
    <3>1. r[i] = s[i + 1] /\ i + 1 \in 1 .. n /\ r[i - 1] = s[i]
      BY <1>1, <1>8, <2>4
    <3>2. i # n - 1 => r[i + 1] = s[i + 2]
      <4>1. i # n - 1 => i + 1 \in 1 .. n - 1 /\ i + 1 >= k /\ (i + 1) + 1 = i + 2
        BY <1>1, <2>4
      <4>2. i + 1 \in 1 .. n - 1 /\ i + 1 >= k => r[i + 1] = s[(i + 1) + 1]
        BY <1>8
      <4>3. QED BY <4>1, <4>2
    <3>3. file'[s[i + 1]].nextOpenFile = IF i + 1 = n THEN None ELSE s[i + 2]
      BY <1>1, <2>a, <2>4, <3>1
    <3>4. file'[s[i + 1]].prevOpenFile = s[i]
      BY <1>1, <2>a, <2>4, <3>1
    <3>5. i # 1 /\ (i + 1 = n <=> i = n - 1)
      BY <1>1, <2>4, SMTT(40)
    <3>6. QED BY <3>1, <3>2, <3>3, <3>4, <3>5
  <2>5. QED BY <1>1, <2>1, <2>2, <2>3, <2>4
<1>13. ListOf(p, r)'
  BY <1>2, <1>8, <1>9, <1>10, <1>11, <1>12 DEF ListOf
<1>14. QED BY <1>2, <1>8, <1>13

(* open puts the file in front of the list *)
LEMMA OpenInv ==
    ASSUME Inv, NEW t \in Threads, Open(t)
    PROVE  Inv'
<1> USE MountAssumption
<1> DEFINE p == thread[t].partition
           h == thread[t].file
           n == partition[p].openFileCount
           first == partition[p].firstOpenFile
           X == Unlocked([partition[p] EXCEPT !.firstOpenFile = h, !.openFileCount = @ + 1])
<1>a. /\ thread[t].pc = "locked" /\ thread[t].op = "open"
      /\ \E m \in BOOLEAN : file' = Inserted(p, h, m)
      /\ partition' = [partition EXCEPT ![p] = X]
      /\ thread' = [thread EXCEPT ![t] = Idle] /\ UNCHANGED devoptab
  BY DEF Open, InCall, Return
<1>0. PICK m \in BOOLEAN :
         /\ thread[t].pc = "locked" /\ thread[t].op = "open"
         /\ file' = Inserted(p, h, m) /\ partition' = [partition EXCEPT ![p] = X]
         /\ thread' = [thread EXCEPT ![t] = Idle] /\ UNCHANGED devoptab
  BY <1>a
<1>1. /\ p \in Partitions /\ partition[p] \in Partition /\ partition[p].mounted
      /\ h \in Handles /\ file[h] = Unopened /\ n \in Nat
  BY <1>0 DEF Inv, CallInv, CallState, FileState, TypeOK, OpenListExact
<1>2. /\ X \in Partition /\ X.owner = None /\ X.mounted = partition[p].mounted
      /\ X.firstOpenFile = h /\ X.openFileCount = n + 1
  <2> DEFINE Y == [partition[p] EXCEPT !.firstOpenFile = h, !.openFileCount = @ + 1]
  <2>1. Y \in Partition /\ Y.firstOpenFile = h /\ Y.openFileCount = n + 1 /\ Y.mounted = partition[p].mounted
    <3>1. \A c \in Int : [partition[p] EXCEPT !.firstOpenFile = h, !.openFileCount = c] \in Partition
      BY <1>1 DEF Partition
    <3>2. n + 1 \in Int
      BY <1>1
    <3>3. QED BY <1>1, <3>1, <3>2 DEF Partition
  <2>2. QED BY <2>1, UnlockedFields
<1> HIDE DEF X
<1>3. /\ CallState' /\ LockState' /\ DeviceState' /\ UnmountAlone'
      /\ devoptab' \in [Slots -> Partitions \cup {None}]
      /\ partition' \in [Partitions -> Partition]
      /\ thread' \in [Threads -> Call]
      /\ \A q \in Partitions : partition'[q].mounted = partition[q].mounted
      /\ thread'[t].pc # "sync" /\ \A u \in Threads : u # t => thread'[u] = thread[u]
  BY <1>0, <1>2, ReturnInv DEF Inv
<1>4. PICK s \in [1 .. n -> Handles] : ListOf(p, s)
  BY <1>1 DEF Inv, OpenListExact
<1>5. first # None => first \in OpenFiles(p)
  BY <1>1, <1>4, ListMembers DEF Inv, CallInv
<1>6. file' \in [Handles -> FileStruct]
  <2>1. first \in Handles \cup {None}
    BY <1>1 DEF Partition
  <2>2. [inUse |-> TRUE, modified |-> m, failed |-> FALSE, partition |-> p, nextOpenFile |-> first, prevOpenFile |-> None] \in FileStruct
    BY <1>0, <1>1, <2>1 DEF FileStruct
  <2>a. \A g \in Handles : file[g] \in FileStruct
    BY DEF Inv, CallInv, TypeOK
  <2>b. \A x \in FileStruct : [x EXCEPT !.prevOpenFile = h] \in FileStruct
    BY <1>1 DEF FileStruct
  <2>3. \A g \in Handles : file[g] \in FileStruct /\ [file[g] EXCEPT !.prevOpenFile = h] \in FileStruct
    BY <2>a, <2>b
  <2>4. QED BY <1>0, <2>2, <2>3 DEF Inserted
<1>7. /\ file'[h].inUse /\ file'[h].partition = p
      /\ \A g \in Handles : g # h =>
           /\ file'[g].inUse = file[g].inUse /\ file'[g].partition = file[g].partition
           /\ file'[g].modified = file[g].modified
           /\ g \notin OpenFiles(p) => file'[g] = file[g]
  BY <1>0, <1>1, <1>5 DEF Inv, CallInv, TypeOK, FileStruct, Inserted
<1>8. FileState'
  <2>1. \A u \in Threads : u # t =>
           /\ thread[u].op = "open" =>
                thread[u].file \in Handles /\ thread[u].file # h /\ thread[u].file \notin OpenFiles(p)
           /\ thread[u].op \in OnFile => thread[u].file \in Handles /\ thread[u].file # h
    BY <1>1 DEF Inv, CallInv, FileState, OpenFiles, Unopened
  <2>2. \A u \in Threads : u # t =>
           /\ thread[u].op = "open" => file'[thread[u].file] = file[thread[u].file]
           /\ thread[u].op \in OnFile =>
                /\ file'[thread[u].file].inUse = file[thread[u].file].inUse
                /\ file'[thread[u].file].partition = file[thread[u].file].partition
    BY <1>7, <2>1
  <2>3. QED BY <1>0, <2>2, ReturnFileState DEF Inv, CallInv
<1>9. OpenState'
  BY <1>1, <1>3, <1>7 DEF Inv, CallInv, OpenState
<1>10. \A q \in Partitions : q # p => SameList(q) /\ \A g \in OpenFiles(q) : file'[g] = file[g]
  <2> SUFFICES ASSUME NEW q \in Partitions, q # p
               PROVE  SameList(q) /\ \A g \in OpenFiles(q) : file'[g] = file[g]
    OBVIOUS
  <2>1. partition'[q] = partition[q]
    BY <1>0 DEF Inv, CallInv, TypeOK
  <2>2. \A g \in OpenFiles(q) : g \in Handles /\ g # h /\ g \notin OpenFiles(p)
    BY <1>1 DEF OpenFiles, Unopened
  <2>3. \A g \in Handles : g \in OpenFiles(q)' <=> g \in OpenFiles(q)
    BY <1>1, <1>7 DEF OpenFiles, Unopened
  <2>4. QED BY <1>7, <2>1, <2>2, <2>3 DEF SameList
<1>11. OpenListExact'
  <2> SUFFICES ASSUME NEW q \in Partitions, partition'[q].mounted
               PROVE  /\ partition'[q].openFileCount \in Nat
                      /\ \E r \in [1 .. partition'[q].openFileCount -> Handles] : ListOf(q, r)'
    BY DEF OpenListExact
  <2>1. CASE q = p
    <3>1. partition'[q].firstOpenFile = h /\ partition'[q].openFileCount = partition[q].openFileCount + 1
      BY <1>0, <1>2, <2>1 DEF Inv, CallInv, TypeOK
    <3>2. ListOf(q, s) /\ file' = Inserted(q, h, m) /\ s \in [1 .. partition[q].openFileCount -> Handles]
      BY <1>0, <1>4, <2>1
    <3>3. partition[q].openFileCount \in Nat
      BY <1>1, <2>1
    <3>4. \E r \in [1 .. partition'[q].openFileCount -> Handles] : ListOf(q, r)'
      BY <1>1, <3>1, <3>2, <3>3, InsertedList DEF Inv, CallInv
    <3>5. partition'[q].openFileCount \in Nat
      BY <3>1, <3>3
    <3>6. QED BY <3>4, <3>5
  <2>2. CASE q # p
    BY <1>3, <1>10, <2>2, ListPreserved DEF Inv
  <2>3. QED BY <2>1, <2>2
<1>12. WalkState'
  <2>1. \A u \in Threads : u # t /\ thread[u].pc = "sync" => thread[u].partition \in Partitions \ {p}
    BY DEF Inv, CallInv, CallState, UnmountAlone
  <2>2. QED BY <1>3, <1>10, <2>1, WalksKept DEF Walked
<1>13. QED BY <1>3, <1>6, <1>8, <1>9, <1>11, <1>12 DEF Inv, CallInv, TypeOK

(* close takes it out, wherever it is *)
LEMMA CloseInv ==
    ASSUME Inv, NEW t \in Threads, Close(t)
    PROVE  Inv'
<1> USE MountAssumption
<1> DEFINE p == thread[t].partition
           h == thread[t].file
           n == partition[p].openFileCount
           first == IF file[h].prevOpenFile = None THEN file[h].nextOpenFile ELSE partition[p].firstOpenFile
           Y == [partition[p] EXCEPT !.openFileCount = @ - 1,
                                     !.firstOpenFile = IF file[h].prevOpenFile = None
                                                       THEN file[h].nextOpenFile ELSE @]
           X == Unlocked(Y)
<1>0. /\ thread[t].pc = "locked" /\ thread[t].op = "close"
      /\ file' = Removed(h) /\ partition' = [partition EXCEPT ![p] = X]
      /\ thread' = [thread EXCEPT ![t] = Idle] /\ UNCHANGED devoptab
  BY DEF Close, InCall, Return
<1>1. /\ p \in Partitions /\ partition[p] \in Partition /\ partition[p].mounted
      /\ h \in Handles /\ h \in OpenFiles(p) /\ n \in Nat /\ file[h] \in FileStruct
  BY <1>0 DEF Inv, CallInv, CallState, FileState, TypeOK, OpenListExact, OnFile, OpenFiles
<1>2. /\ X \in Partition /\ X.owner = None /\ X.mounted = partition[p].mounted
      /\ X.firstOpenFile = first /\ X.openFileCount = n - 1
  <2>1. Y \in Partition /\ Y.firstOpenFile = first /\ Y.openFileCount = n - 1 /\ Y.mounted = partition[p].mounted
    <3>1. \A c \in Int, f \in Handles \cup {None} :
             [partition[p] EXCEPT !.openFileCount = c, !.firstOpenFile = f] \in Partition
      BY <1>1 DEF Partition
    <3>2. n - 1 \in Int /\ first \in Handles \cup {None}
      BY <1>1 DEF FileStruct, Partition
    <3>3. QED BY <1>1, <3>1, <3>2 DEF Partition
  <2>2. QED BY <2>1, UnlockedFields, ZenonT(40)
<1> HIDE DEF X, Y
<1>3. /\ CallState' /\ LockState' /\ DeviceState' /\ UnmountAlone'
      /\ devoptab' \in [Slots -> Partitions \cup {None}]
      /\ partition' \in [Partitions -> Partition]
      /\ thread' \in [Threads -> Call]
      /\ \A q \in Partitions : partition'[q].mounted = partition[q].mounted
      /\ thread'[t].pc # "sync" /\ \A u \in Threads : u # t => thread'[u] = thread[u]
  BY <1>0, <1>2, ReturnInv DEF Inv
<1>4. PICK s \in [1 .. n -> Handles] : ListOf(p, s)
  BY <1>1 DEF Inv, OpenListExact
<1>5. /\ file[h].nextOpenFile # None => file[h].nextOpenFile \in OpenFiles(p)
      /\ file[h].prevOpenFile # None => file[h].prevOpenFile \in OpenFiles(p)
  <2>1. PICK k \in 1 .. n : s[k] = h
    BY <1>1, <1>4 DEF ListOf
  <2>2. \A i \in 1 .. n : s[i] \in OpenFiles(p)
    BY <1>1, <1>4, ListMembers DEF Inv, CallInv
  <2>3. /\ file[s[k]].nextOpenFile = IF k = n THEN None ELSE s[k + 1]
        /\ file[s[k]].prevOpenFile = IF k = 1 THEN None ELSE s[k - 1]
    BY <1>4, <2>1 DEF ListOf
  <2>4. (k # n => k + 1 \in 1 .. n) /\ (k # 1 => k - 1 \in 1 .. n)
    <3> HIDE DEF n
    <3> QED BY <1>1
  <2>5. QED BY <2>1, <2>2, <2>3, <2>4
<1>6. file' \in [Handles -> FileStruct]
  <2>1. \A g \in Handles, f \in Handles \cup {None} :
           [file[g] EXCEPT !.prevOpenFile = f] \in FileStruct /\ [file[g] EXCEPT !.nextOpenFile = f] \in FileStruct
    BY DEF Inv, CallInv, TypeOK, FileStruct
  <2>2. file[h].prevOpenFile \in Handles \cup {None} /\ file[h].nextOpenFile \in Handles \cup {None}
    BY <1>1 DEF FileStruct
  <2>3. QED BY <1>0, <2>1, <2>2, InitialTypes DEF Inv, CallInv, TypeOK, Removed
<1>7. /\ ~file'[h].inUse
      /\ \A g \in Handles : g # h =>
           /\ file'[g].inUse = file[g].inUse /\ file'[g].partition = file[g].partition
           /\ g \notin OpenFiles(p) => file'[g] = file[g]
  BY <1>0, <1>1, <1>5, SMTT(40) DEF Inv, CallInv, TypeOK, FileStruct, Removed, Unopened
<1>8. FileState'
  <2>1. \A u \in Threads : u # t =>
           /\ thread[u].op = "open" =>
                thread[u].file \in Handles /\ thread[u].file # h /\ thread[u].file \notin OpenFiles(p)
           /\ thread[u].op \in OnFile => thread[u].file \in Handles /\ thread[u].file # h
    BY <1>1 DEF Inv, CallInv, FileState, OpenFiles, Unopened
  <2>2. \A u \in Threads : u # t =>
           /\ thread[u].op = "open" => file'[thread[u].file] = file[thread[u].file]
           /\ thread[u].op \in OnFile =>
                /\ file'[thread[u].file].inUse = file[thread[u].file].inUse
                /\ file'[thread[u].file].partition = file[thread[u].file].partition
    BY <1>7, <2>1, SMTT(40)
  <2>3. TypeOK /\ FileState
    BY DEF Inv, CallInv
  <2>4. QED BY <1>0, <2>2, <2>3, ReturnFileState
<1>9. OpenState'
  BY <1>3, <1>7 DEF Inv, CallInv, OpenState
<1>10. \A q \in Partitions : q # p => SameList(q) /\ \A g \in OpenFiles(q) : file'[g] = file[g]
  <2> SUFFICES ASSUME NEW q \in Partitions, q # p
               PROVE  SameList(q) /\ \A g \in OpenFiles(q) : file'[g] = file[g]
    OBVIOUS
  <2>1. partition'[q] = partition[q]
    BY <1>0 DEF Inv, CallInv, TypeOK
  <2>2. \A g \in OpenFiles(q) : g \in Handles /\ g # h /\ g \notin OpenFiles(p)
    BY <1>1 DEF OpenFiles
  <2>3. \A g \in Handles : g \in OpenFiles(q)' <=> g \in OpenFiles(q)
    BY <1>1, <1>7 DEF OpenFiles
  <2>4. QED BY <1>7, <2>1, <2>2, <2>3 DEF SameList
<1>11. OpenListExact'
  <2> SUFFICES ASSUME NEW q \in Partitions, partition'[q].mounted
               PROVE  /\ partition'[q].openFileCount \in Nat
                      /\ \E r \in [1 .. partition'[q].openFileCount -> Handles] : ListOf(q, r)'
    BY DEF OpenListExact
  <2>1. CASE q = p
    <3>1. /\ partition'[q].firstOpenFile = (IF file[h].prevOpenFile = None
                                            THEN file[h].nextOpenFile ELSE partition[q].firstOpenFile)
          /\ partition'[q].openFileCount = partition[q].openFileCount - 1
      BY <1>0, <1>2, <2>1 DEF Inv, CallInv, TypeOK
    <3>2. ListOf(q, s) /\ file' = Removed(h) /\ s \in [1 .. partition[q].openFileCount -> Handles] /\ h \in OpenFiles(q)
      BY <1>0, <1>1, <1>4, <2>1
    <3>3. partition[q].openFileCount \in Nat
      BY <1>1, <2>1
    <3>4. QED BY <3>1, <3>2, <3>3, RemovedList DEF Inv, CallInv
  <2>2. CASE q # p
    BY <1>3, <1>10, <2>2, ListPreserved DEF Inv
  <2>3. QED BY <2>1, <2>2
<1>12. WalkState'
  <2>1. \A u \in Threads : u # t /\ thread[u].pc = "sync" => thread[u].partition \in Partitions \ {p}
    BY DEF Inv, CallInv, CallState, UnmountAlone
  <2>2. QED BY <1>3, <1>10, <2>1, WalksKept DEF Walked
<1>13. QED BY <1>3, <1>6, <1>8, <1>9, <1>11, <1>12 DEF Inv, CallInv, TypeOK

(* A destructor that goes on to the file f of its own list, or past the    *)
(* end of it: what that does to the calls.  It may have cleared the flag   *)
(* of one of its files.                                                    *)
LEMMA SyncCallInv ==
    ASSUME CallInv, NEW t \in Threads, thread[t].op = "unmount", thread[t].pc \in {"locked", "sync"},
           NEW f \in OpenFiles(thread[t].partition) \cup {None},
           thread' = [thread EXCEPT ![t] = [thread[t] EXCEPT !.pc = "sync", !.file = f]],
           UNCHANGED <<devoptab, partition>>, file' \in [Handles -> FileStruct],
           \A h \in Handles :
               /\ file'[h].inUse = file[h].inUse /\ file'[h].partition = file[h].partition
               /\ h \notin OpenFiles(thread[t].partition) => file'[h] = file[h]
    PROVE  CallInv'
<1> USE MountAssumption
<1> DEFINE p == thread[t].partition
<1>1. /\ thread'[t].op = "unmount" /\ thread'[t].pc = "sync" /\ thread'[t].partition = p /\ thread'[t].file = f
      /\ thread'[t] \in Call
      /\ \A u \in Threads : u # t => thread'[u] = thread[u]
  BY ZenonT(40) DEF CallInv, TypeOK, Call, OpenFiles
<1>2. p \in Partitions /\ partition[p].mounted
  BY DEF CallInv, CallState
<1>3. TypeOK'
  BY <1>1 DEF CallInv, TypeOK
<1>4. CallState'
  BY <1>1, <1>2 DEF CallInv, CallState, Idle
<1>5. FileState'
  <2>1. \A u \in Threads : u # t =>
           /\ thread[u].op = "open" => thread[u].file \in Handles /\ file[thread[u].file] = Unopened
                                       /\ thread[u].file \notin OpenFiles(p)
           /\ thread[u].op \in OnFile => thread[u].file \in Handles /\ file[thread[u].file].inUse
                 /\ file[thread[u].file].partition = thread[u].partition /\ thread[u].file \notin OpenFiles(p)
           /\ thread[u].op \notin OnFile \cup {"open"} => thread[u].file = None
    <3> SUFFICES ASSUME NEW u \in Threads, u # t
                 PROVE  /\ thread[u].op = "open" => thread[u].file \in Handles /\ file[thread[u].file] = Unopened
                                                    /\ thread[u].file \notin OpenFiles(p)
                        /\ thread[u].op \in OnFile => thread[u].file \in Handles /\ file[thread[u].file].inUse
                              /\ file[thread[u].file].partition = thread[u].partition
                              /\ thread[u].file \notin OpenFiles(p)
                        /\ thread[u].op \notin OnFile \cup {"open"} => thread[u].file = None
      OBVIOUS
    <3>1. thread[u].partition # p
      BY DEF CallInv, UnmountAlone
    <3>2. thread[u].op # "unmount"
      BY DEF CallInv, DeviceState
    <3>3. thread[u].op \in Ops
      BY DEF CallInv, TypeOK, Call
    <3>4. thread[u].op = "none" => thread[u].file = None
      BY DEF CallInv, CallState, Idle
    <3>5. thread[u].op = "open" => thread[u].file \in Handles /\ file[thread[u].file] = Unopened
                                   /\ thread[u].file \notin OpenFiles(p)
      <4>1. Unopened.inUse = FALSE
        BY DEF Unopened
      <4>2. QED BY <4>1 DEF CallInv, FileState, OpenFiles
    <3>6. thread[u].op \in OnFile => thread[u].file \in Handles /\ file[thread[u].file].inUse
             /\ file[thread[u].file].partition = thread[u].partition /\ thread[u].file \notin OpenFiles(p)
      BY <3>1 DEF CallInv, FileState, OpenFiles
    <3>7. thread[u].op = "mount" => thread[u].file = None
      BY DEF CallInv, CallState
    <3>8. thread[u].op \notin OnFile \cup {"open"} => thread[u].file = None
      BY <3>2, <3>3, <3>4, <3>7 DEF Ops, OnFile
    <3>9. QED BY <3>5, <3>6, <3>8
  <2> SUFFICES ASSUME NEW u \in Threads
               PROVE  /\ thread'[u].op = "open" => thread'[u].file \in Handles /\ file'[thread'[u].file] = Unopened
                      /\ (thread[u].op \in OnFile => thread[u].file \in OpenFiles(thread[u].partition))'
                      /\ \A v \in Threads : thread'[u].file = thread'[v].file => u = v \/ thread'[u].file = None
    BY DEF FileState
  <2>2. thread'[u].op = "open" => thread'[u].file \in Handles /\ file'[thread'[u].file] = Unopened
    BY <1>1, <2>1
  <2>3. (thread[u].op \in OnFile => thread[u].file \in OpenFiles(thread[u].partition))'
    BY <1>1, <2>1 DEF OpenFiles, OnFile
  <2>4. \A v \in Threads : v # t => thread[v].file \notin OpenFiles(p)
    BY <2>1 DEF OpenFiles
  <2>5. \A v \in Threads : thread'[u].file = thread'[v].file => u = v \/ thread'[u].file = None
    BY <1>1, <2>4 DEF CallInv, FileState
  <2>6. QED BY <2>2, <2>3, <2>5
<1>6. OpenState'
  BY DEF CallInv, OpenState
<1>7. LockState'
  BY <1>1 DEF CallInv, LockState
<1>8. DeviceState'
  BY <1>1 DEF CallInv, DeviceState
<1>9. UnmountAlone'
  BY <1>1 DEF CallInv, UnmountAlone
<1>10. QED BY <1>3, <1>4, <1>5, <1>6, <1>7, <1>8, <1>9 DEF CallInv

(* The walk over the files begins at the first one *)
LEMMA StartSyncInv ==
    ASSUME Inv, NEW t \in Threads, StartSync(t)
    PROVE  Inv'
<1> USE MountAssumption
<1> DEFINE p == thread[t].partition
           n == partition[p].openFileCount
           f == partition[p].firstOpenFile
<1>0. /\ thread[t].pc = "locked" /\ thread[t].op = "unmount" /\ UNCHANGED <<devoptab, partition, file>>
      /\ thread' = [thread EXCEPT ![t].pc = "sync", ![t].file = f]
  BY DEF StartSync, InCall
<1>1. thread' = [thread EXCEPT ![t] = [thread[t] EXCEPT !.pc = "sync", !.file = f]]
  BY <1>0 DEF Inv, CallInv, TypeOK, Call
<1>2. p \in Partitions /\ partition[p].mounted /\ n \in Nat
  BY <1>0 DEF Inv, CallInv, CallState, OpenListExact
<1>3. PICK s \in [1 .. n -> Handles] : ListOf(p, s)
  BY <1>2 DEF Inv, OpenListExact
<1>4. f \in OpenFiles(p) \cup {None}
  BY <1>2, <1>3, ListMembers DEF Inv, CallInv
<1>5. CallInv'
  BY <1>0, <1>1, <1>4, SyncCallInv DEF Inv, CallInv, TypeOK
<1>6. \A q \in Partitions : SameList(q)
  BY <1>0 DEF SameList, OpenFiles
<1>7. OpenListExact'
  BY <1>0, <1>6, ListsKept DEF Inv
<1>8. \A u \in Threads : u # t => thread'[u] = thread[u]
  BY <1>1 DEF Inv, CallInv, TypeOK
<1>9. thread'[t].partition = p /\ thread'[t].file = f
  BY <1>1 DEF Inv, CallInv, TypeOK, Call
<1>10. WalkState'
  <2> SUFFICES ASSUME NEW u \in Threads, thread'[u].pc = "sync"
               PROVE  \E r \in [1 .. partition'[thread'[u].partition].openFileCount -> Handles] : Walking(u, r)'
    BY DEF WalkState
  <2>1. CASE u = t
    <3>0. PICK q \in Partitions : q = p
      BY <1>2
    <3>1. ListOf(q, s)'
      BY <1>0, <1>3, <3>0 DEF ListOf, OpenFiles
    <3>a. f = IF 1 = n + 1 THEN None ELSE s[1]
      BY <1>2, <1>3 DEF ListOf
    <3>b. partition'[thread'[t].partition].openFileCount = n
      BY <1>0, <1>9
    <3>2. 1 \in 1 .. n + 1 /\ SyncedTo(t, s, 1)'
      BY <1>2, <1>9, <3>a, <3>b DEF SyncedTo
    <3>3. Walking(t, s)'
      BY <1>0, <1>9, <3>0, <3>1, <3>2 DEF Walking
    <3>4. QED BY <1>0, <1>9, <2>1, <3>3
  <2>2. CASE u # t
    <3>1. thread[u].pc = "sync" /\ thread[u].partition \in Partitions
      BY <1>8, <2>2 DEF Inv, CallInv, CallState
    <3>2. QED BY <1>0, <1>6, <1>8, <2>2, <3>1, WalkKept DEF Walked
  <2>3. QED BY <2>1, <2>2
<1>11. QED BY <1>5, <1>7, <1>10 DEF Inv

(* The walk goes on: the files behind it have no changes left *)
LEMMA SyncNextInv ==
    ASSUME Inv, NEW t \in Threads, SyncNext(t)
    PROVE  Inv'
<1> USE MountAssumption
<1> DEFINE p == thread[t].partition
           n == partition[p].openFileCount
           h == thread[t].file
           f == file[h].nextOpenFile
<1>0. /\ thread[t].pc = "sync" /\ h # None /\ UNCHANGED <<devoptab, partition>>
      /\ file' = [file EXCEPT ![h].modified = FALSE] \/ file' = [file EXCEPT ![h].failed = TRUE]
      /\ thread' = [thread EXCEPT ![t].file = f]
  BY DEF SyncNext, Synced
<1>1. thread' = [thread EXCEPT ![t] = [thread[t] EXCEPT !.pc = "sync", !.file = f]]
  <2>1. [thread[t] EXCEPT !.pc = "sync", !.file = f] = [thread[t] EXCEPT !.file = f]
    BY <1>0 DEF Inv, CallInv, TypeOK, Call
  <2>2. QED BY <1>0, <2>1
<1>2. p \in Partitions /\ partition[p].mounted /\ n \in Nat /\ thread[t].op = "unmount"
  BY <1>0 DEF Inv, CallInv, CallState, OpenListExact
<1>3. PICK s \in [1 .. n -> Handles] : Walking(t, s)
  BY <1>0 DEF Inv, WalkState
<1>4. PICK i \in 1 .. n + 1 : SyncedTo(t, s, i)
  BY <1>3 DEF Walking
<1>5. /\ ListOf(p, s) /\ \A j \in 1 .. n : s[j] \in OpenFiles(p) /\ s[j] \in Handles /\ s[j] # None
  BY <1>2, <1>3, ListMembers DEF Walking, Inv, CallInv
<1>6. i \in 1 .. n /\ h = s[i]
  <2>1. h = IF i = n + 1 THEN None ELSE s[i]
    BY <1>4 DEF SyncedTo
  <2>2. i # n + 1
    BY <1>0, <2>1
  <2>3. i \in 1 .. n
    <3> HIDE DEF n
    <3> QED BY <1>2, <2>2
  <2>4. QED BY <2>1, <2>2, <2>3
<1>7. f = IF i = n THEN None ELSE s[i + 1]
  BY <1>5, <1>6 DEF ListOf
<1>8. f \in OpenFiles(p) \cup {None} /\ h \in Handles /\ h \in OpenFiles(p)
  BY <1>2, <1>5, <1>6, <1>7
<1>a. PICK x \in Handles : x = h
  BY <1>8
<1>9. /\ file' \in [Handles -> FileStruct]
      /\ \A g \in Handles :
           /\ file'[g].inUse = file[g].inUse /\ file'[g].partition = file[g].partition
           /\ file'[g].nextOpenFile = file[g].nextOpenFile /\ file'[g].prevOpenFile = file[g].prevOpenFile
           /\ g # h => file'[g] = file[g]
      /\ Walked(x)'
  <2>1. h \in Handles /\ file[h] \in FileStruct
    BY <1>8 DEF Inv, CallInv, TypeOK
  <2>2. CASE file' = [file EXCEPT ![h].modified = FALSE]
    <3>1. file' \in [Handles -> FileStruct] /\ file'[h] = [file[h] EXCEPT !.modified = FALSE] /\ \A g \in Handles : g # h => file'[g] = file[g]
      <4>1. [file[h] EXCEPT !.modified = FALSE] \in FileStruct
        BY <2>1 DEF FileStruct
      <4>2. QED BY <2>1, <2>2, <4>1 DEF Inv, CallInv, TypeOK
    <3>2. /\ [file[h] EXCEPT !.modified = FALSE].inUse = file[h].inUse
          /\ [file[h] EXCEPT !.modified = FALSE].partition = file[h].partition
          /\ [file[h] EXCEPT !.modified = FALSE].nextOpenFile = file[h].nextOpenFile
          /\ [file[h] EXCEPT !.modified = FALSE].prevOpenFile = file[h].prevOpenFile
          /\ ~[file[h] EXCEPT !.modified = FALSE].modified
      BY <2>1 DEF FileStruct
    <3>3. Walked(x)'
      BY <1>a, <3>1, <3>2 DEF Walked
    <3>4. QED BY <3>1, <3>2, <3>3
  <2>3. CASE file' = [file EXCEPT ![h].failed = TRUE]
    <3>1. file' \in [Handles -> FileStruct] /\ file'[h] = [file[h] EXCEPT !.failed = TRUE] /\ \A g \in Handles : g # h => file'[g] = file[g]
      <4>1. [file[h] EXCEPT !.failed = TRUE] \in FileStruct
        BY <2>1 DEF FileStruct
      <4>2. QED BY <2>1, <2>3, <4>1 DEF Inv, CallInv, TypeOK
    <3>2. /\ [file[h] EXCEPT !.failed = TRUE].inUse = file[h].inUse
          /\ [file[h] EXCEPT !.failed = TRUE].partition = file[h].partition
          /\ [file[h] EXCEPT !.failed = TRUE].nextOpenFile = file[h].nextOpenFile
          /\ [file[h] EXCEPT !.failed = TRUE].prevOpenFile = file[h].prevOpenFile
          /\ [file[h] EXCEPT !.failed = TRUE].failed
      BY <2>1 DEF FileStruct
    <3>3. Walked(x)'
      BY <1>a, <3>1, <3>2 DEF Walked
    <3>4. QED BY <3>1, <3>2, <3>3
  <2>4. QED BY <1>0, <2>2, <2>3
<1>10. CallInv'
  <2>1. \A g \in Handles : g \notin OpenFiles(p) => file'[g] = file[g]
    BY <1>8, <1>9
  <2>2. QED BY <1>0, <1>1, <1>2, <1>8, <1>9, <2>1, SyncCallInv DEF Inv
<1>11. \A q \in Partitions : SameList(q)
  BY <1>0, <1>9 DEF SameList, OpenFiles
<1>12. OpenListExact'
  BY <1>0, <1>11, ListsKept DEF Inv
<1>13. \A u \in Threads : u # t => thread'[u] = thread[u]
  BY <1>1 DEF Inv, CallInv, TypeOK
<1>14. thread'[t].partition = p /\ thread'[t].file = f
  BY <1>1 DEF Inv, CallInv, TypeOK, Call
<1>15. WalkState'
  <2> SUFFICES ASSUME NEW u \in Threads, thread'[u].pc = "sync"
               PROVE  \E r \in [1 .. partition'[thread'[u].partition].openFileCount -> Handles] : Walking(u, r)'
    BY DEF WalkState
  <2>1. CASE u = t
    <3>0. PICK q \in Partitions : q = p
      BY <1>2
    <3>1. ListOf(q, s)'
      BY <1>2, <1>5, <1>11, <3>0, ListKept
    <3>2. i + 1 \in 1 .. n + 1 /\ SyncedTo(t, s, i + 1)'
      <4>1. \A j \in 1 .. n : j < i + 1 => Walked(s[j])'
        <5>1. \A g \in Handles : Walked(g) => Walked(g)'
          BY <1>9, <1>a DEF Walked
        <5>2. \A j \in 1 .. n : j < i + 1 => j < i \/ s[j] = h
          BY <1>2, <1>6
        <5>3. \A j \in 1 .. n : j < i => Walked(s[j])
          BY <1>4 DEF SyncedTo
        <5>4. QED BY <1>5, <1>9, <1>a, <5>1, <5>2, <5>3
      <4>2. i + 1 \in 1 .. n + 1
        BY <1>2, <1>6
      <4>3. thread'[t].file = IF i + 1 = n + 1 THEN None ELSE s[i + 1]
        BY <1>2, <1>6, <1>7, <1>14
      <4>4. QED BY <1>0, <1>14, <4>1, <4>2, <4>3 DEF SyncedTo
    <3>3. Walking(t, s)'
      BY <1>0, <1>14, <3>0, <3>1, <3>2 DEF Walking
    <3>4. QED BY <1>0, <1>14, <2>1, <3>3
  <2>2. CASE u # t
    <3>1. thread[u].pc = "sync" /\ thread[u].partition \in Partitions
      BY <1>13, <2>2 DEF Inv, CallInv, CallState
    <3>2. \A g \in OpenFiles(thread[u].partition) : Walked(g) => Walked(g)'
      BY <1>9, <1>a DEF OpenFiles, Walked
    <3>3. QED BY <1>11, <1>13, <2>2, <3>1, <3>2, WalkKept
  <2>3. QED BY <2>1, <2>2
<1>16. QED BY <1>10, <1>12, <1>15 DEF Inv

(* The destructor leaves a partition without files and without a lock *)
LEMMA DestroyInv ==
    ASSUME Inv, NEW t \in Threads, Destroy(t)
    PROVE  Inv'
<1> USE MountAssumption
<1> DEFINE p == thread[t].partition
           n == partition[p].openFileCount
<1>0. /\ thread[t].pc = "sync" /\ thread[t].file = None /\ UNCHANGED devoptab
      /\ partition' = [partition EXCEPT ![p] = NotMounted]
      /\ file' = [h \in Handles |->
                     IF file[h].partition = p /\ Walked(h) THEN Unopened ELSE file[h]]
      /\ thread' = [thread EXCEPT ![t] = Idle]
  BY DEF Destroy, Return
<1>1. p \in Partitions /\ partition[p].mounted /\ n \in Nat /\ thread[t].op = "unmount"
  BY <1>0 DEF Inv, CallInv, CallState, OpenListExact
<1>2. \A h \in OpenFiles(p) : Walked(h)
  <2>1. PICK s \in [1 .. n -> Handles] : Walking(t, s)
    BY <1>0 DEF Inv, WalkState
  <2>2. PICK i \in 1 .. n + 1 : SyncedTo(t, s, i)
    BY <2>1 DEF Walking
  <2>3. \A j \in 1 .. n : s[j] # None
    OBVIOUS
  <2>4. i = n + 1
    BY <1>0, <1>1, <2>2, <2>3, SMTT(40) DEF SyncedTo
  <2>5. \A j \in 1 .. n : Walked(s[j])
    BY <1>1, <2>2, <2>4 DEF SyncedTo
  <2>6. \A h \in Handles : h \in OpenFiles(p) => \E j \in 1 .. n : s[j] = h
    BY <2>1 DEF Walking, ListOf
  <2>7. \A h \in OpenFiles(p) : h \in Handles
    BY DEF OpenFiles
  <2>8. QED BY <2>5, <2>6, <2>7
<1>3. /\ \A u \in Threads : u # t => thread'[u] = thread[u] /\ thread[u].partition # p
      /\ thread'[t] = Idle
  BY <1>0, <1>1 DEF Inv, CallInv, TypeOK, UnmountAlone
<1>4. /\ \A q \in Partitions : q # p => partition'[q] = partition[q]
      /\ partition'[p] = NotMounted
  BY <1>0, <1>1 DEF Inv, CallInv, TypeOK
<1>5. \A h \in Handles :
         /\ file[h].partition # p => file'[h] = file[h]
         /\ file'[h] = file[h] \/ file'[h] = Unopened
         /\ file'[h].inUse => file'[h].partition # p
         /\ Walked(h) => Walked(h)'
  BY <1>0, <1>2 DEF OpenFiles, Unopened, Walked
<1>6. TypeOK'
  BY <1>0, <1>5, InitialTypes DEF Inv, CallInv, TypeOK
<1>7. CallState'
  BY <1>3, <1>4 DEF Inv, CallInv, CallState, Idle
<1>8. FileState'
  <2>1. \A u \in Threads : u # t /\ thread[u].op \in OnFile =>
           thread[u].file \in Handles /\ file[thread[u].file].partition # p
    BY <1>3 DEF Inv, CallInv, FileState, OpenFiles
  <2>2. \A u \in Threads : u # t /\ thread[u].op = "open" =>
           thread[u].file \in Handles /\ file'[thread[u].file] = file[thread[u].file]
    BY <1>5 DEF Inv, CallInv, FileState
  <2>3. QED BY <1>0, <1>5, <2>1, <2>2, ReturnFileState DEF Inv, CallInv
<1>9. OpenState'
  <2> SUFFICES ASSUME NEW h \in Handles, file'[h].inUse
               PROVE  file'[h].partition \in Partitions /\ partition'[file'[h].partition].mounted
    BY DEF OpenState
  <2>1. file'[h] = file[h] /\ file[h].inUse
    BY <1>5 DEF Unopened
  <2>2. file[h].partition # p
    BY <1>5, <2>1
  <2>3. QED BY <1>4, <2>1, <2>2 DEF Inv, CallInv, OpenState
<1>10. LockState'
  BY <1>1, <1>3, <1>4 DEF Inv, CallInv, LockState, Idle, NotMounted
<1>11. DeviceState'
  <2>1. \A s \in Slots : devoptab[s] # p /\ (devoptab[s] # None => devoptab[s] \in Partitions)
    BY <1>1 DEF Inv, CallInv, DeviceState, TypeOK
  <2>2. QED BY <1>0, <1>3, <1>4, <2>1 DEF Inv, CallInv, DeviceState, Idle
<1>12. UnmountAlone'
  <2>1. \A u \in Threads : thread[u].op = "unmount" => thread[u].partition # None
    BY DEF Inv, CallInv, CallState, Idle
  <2>2. QED BY <1>3, <2>1 DEF Inv, CallInv, UnmountAlone, Idle
<1>13. \A q \in Partitions : q # p => SameList(q)
  BY <1>4, <1>5 DEF SameList, OpenFiles, Unopened
<1>14. OpenListExact'
  BY <1>4, <1>13, ListsKept DEF Inv, NotMounted
<1>15. WalkState'
  <2>1. thread'[t].pc # "sync"
    BY <1>3 DEF Idle
  <2>2. \A u \in Threads : u # t /\ thread[u].pc = "sync" => thread[u].partition \in Partitions \ {p}
    BY <1>3 DEF Inv, CallInv, CallState
  <2>3. \A u \in Threads : \A h \in OpenFiles(thread[u].partition) : Walked(h) => Walked(h)'
    BY <1>5 DEF OpenFiles
  <2>4. QED BY <1>3, <1>13, <2>1, <2>2, <2>3, WalksKept
<1>16. QED BY <1>6, <1>7, <1>8, <1>9, <1>10, <1>11, <1>12, <1>14, <1>15 DEF Inv, CallInv

(* The invariant holds at the start *)
LEMMA InitInv == Init => Inv
<1> SUFFICES ASSUME Init PROVE Inv
  OBVIOUS
<1> USE MountAssumption
<1>1. TypeOK
  BY InitialTypes DEF Init, TypeOK
<1>2. CallState /\ LockState /\ UnmountAlone /\ WalkState
  BY DEF Init, CallState, LockState, UnmountAlone, WalkState, Idle, NotMounted
<1>3. FileState /\ OpenState
  BY DEF Init, FileState, OpenState, Idle, Unopened, OnFile
<1>4. DeviceState /\ OpenListExact
  BY DEF Init, DeviceState, OpenListExact, Idle, NotMounted
<1>5. QED BY <1>1, <1>2, <1>3, <1>4 DEF Inv, CallInv

(* Every step preserves the invariant *)
LEMMA NextInv ==
    ASSUME Inv, [Next]_vars
    PROVE  Inv'
<1>1. CASE UNCHANGED vars
  BY <1>1 DEF vars, Inv, CallInv, TypeOK, CallState, FileState, OpenState, LockState, DeviceState, UnmountAlone,
              OpenListExact, WalkState, Walking, SyncedTo, ListOf, OpenFiles, Walked
<1>2. ASSUME NEW t \in Threads, Begin(t)
      PROVE  Inv'
  BY <1>2, MountInv, UnmountInv, StartOpenInv, StartFileCallInv DEF Begin, OnFile
<1>3. ASSUME NEW t \in Threads, Progress(t)
      PROVE  Inv'
  BY <1>3, AddDeviceInv, OpenInv, FailsInv, WriteInv, FsyncInv, CloseInv, StartSyncInv, SyncNextInv, DestroyInv
     DEF Progress
<1>4. QED BY <1>1, <1>2, <1>3, LockInv DEF Next

-----------------------------------------------------------------------------
(* The invariant holds always *)
LEMMA InvHolds == Spec => []Inv
<1>1. Init => Inv
  BY InitInv
<1>2. Inv /\ [Next]_vars => Inv'
  BY NextInv
<1>3. QED BY <1>1, <1>2, PTL DEF Spec

(* The list of each mounted partition has each of its open files once, in  *)
(* both directions, and their number: whatever files any number of threads *)
(* open and close (fatfile.c:320, fatfile.c:406).                          *)
THEOREM MountListExact == Spec => []OpenListExact
<1>1. Inv => OpenListExact
  BY DEF Inv
<1>2. QED BY <1>1, InvHolds, PTL

(* No handle is left with changes that the destructor has not tried to     *)
(* write, once its partition is unmounted (partition.c:325), whichever of  *)
(* the syncs before it have failed.                                        *)
THEOREM MountSavesChanges == Spec => []UnmountSavesChanges
<1>1. Inv => UnmountSavesChanges
  BY DEF Inv, CallInv, OpenState, UnmountSavesChanges
<1>2. QED BY <1>1, InvHolds, PTL

(* A partition is locked by the one thread that is between lock and unlock *)
(* in it, and it is mounted for as long as any call is on it.              *)
LockExcludes ==
    /\ \A t, u \in {v \in Threads : thread[v].pc \in {"locked", "sync"}} :
          thread[t].partition = thread[u].partition => t = u
    /\ \A t \in Threads : thread[t].pc # "idle" => partition[thread[t].partition].mounted

(* The critical sections of a partition exclude each other, and none of    *)
(* them runs in memory that the destructor has freed (lock.c, libfat.c:196). *)
THEOREM MountExclusion == Spec => []LockExcludes
<1>1. Inv => LockExcludes
  <2> SUFFICES ASSUME Inv PROVE LockExcludes
    OBVIOUS
  <2>1. \A t \in Threads : thread[t].pc # "idle" =>
           thread[t].partition \in Partitions /\ partition[thread[t].partition].mounted
    BY DEF Inv, CallInv, CallState
  <2>2. \A t \in Threads : thread[t].pc \in {"locked", "sync"} => partition[thread[t].partition].owner = t
    BY <2>1 DEF Inv, CallInv, LockState
  <2>3. QED BY <2>1, <2>2 DEF LockExcludes
<1>2. QED BY <1>1, InvHolds, PTL
=============================================================================
