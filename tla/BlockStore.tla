----------------------------- MODULE BlockStore -----------------------------
(***************************************************************************)
(* What the sector cache promises its callers: a store of sectors of which *)
(* a durable image lags behind.  A write changes exactly the bytes it was  *)
(* called for, a read returns what was written last, and a sector of the   *)
(* durable image is only ever replaced by what the store holds.  A call on *)
(* several sectors takes effect in pieces and may fail between two; flush  *)
(* returns true only when nothing is left to be made durable; a crash, and *)
(* giving up the cache, lose what is not durable and nothing else.         *)
(*                                                                         *)
(* There are no pages, no replacement and no dirty flags here.  FatCache   *)
(* is shown to implement this specification.                               *)
(***************************************************************************)
EXTENDS Integers

CONSTANTS EndOfPartition, BytesPerSector, ByteValues, MaxTransfer

Sectors == 0 .. EndOfPartition - 1
Offsets == 0 .. BytesPerSector - 1
Content == [Offsets -> ByteValues]
Zeroes  == [o \in Offsets |-> 0]
Empty   == [i \in 0 .. MaxTransfer - 1 |-> Zeroes]

VARIABLES
    store,    \* what a read returns
    durable,  \* what a crash leaves
    request   \* the call in progress, or the last one, with its result

bsVars == <<store, durable, request>>

(* A request that was answered with r *)
Settled(op, r) == [op |-> op, sector |-> 0, numSectors |-> 0, done |-> 0,
                   buffer |-> Empty, result |-> r]

Idle == Settled("none", "true")

BSInit ==
    /\ store \in [Sectors -> Content]
    /\ durable = store
    /\ request = Idle

(* Any sectors of the durable image may catch up with the store, at any time *)
CatchUp == durable' \in [Sectors -> Content]
           /\ \A s \in Sectors : durable'[s] \in {durable[s], store[s]}

Pending(op) == request.op = op /\ request.result = "pending"
Answered    == request.result # "pending"
Answer(r)   == request' = Settled(request.op, r)

(* A call on n sectors from s on, with the data b *)
Request ==
    /\ Answered
    /\ request' \in
         [op : {"readSectors", "writeSectors", "flush", "invalidate", "destructor"},
          sector : Sectors, numSectors : 0 .. MaxTransfer, done : {0},
          buffer : [0 .. MaxTransfer - 1 -> Content], result : {"pending"}]
    /\ UNCHANGED <<store, durable>>

ReadSome ==
    /\ Pending("readSectors")
    /\ CatchUp /\ UNCHANGED store
    /\ \E n \in 1 .. request.numSectors - request.done :
         request' = [request EXCEPT
             !.done = @ + n,
             !.buffer = [i \in 0 .. MaxTransfer - 1 |->
                 IF i >= request.done /\ i < request.done + n
                 THEN store[request.sector + i] ELSE @[i]]]

WriteSome ==
    /\ Pending("writeSectors")
    /\ CatchUp
    /\ \E n \in 1 .. request.numSectors - request.done :
         /\ request' = [request EXCEPT !.done = @ + n]
         /\ store' = [s \in Sectors |->
              IF /\ s >= request.sector + request.done
                 /\ s < request.sector + request.done + n
              THEN request.buffer[s - request.sector] ELSE store[s]]

TransferAnswers ==
    /\ Pending("readSectors") \/ Pending("writeSectors")
    /\ UNCHANGED store
    /\ \/ request.done = request.numSectors /\ UNCHANGED durable /\ Answer("true")
       \/ request.done < request.numSectors /\ CatchUp /\ Answer("false")

(* The calls on size bytes of one sector, from offset on *)
PartialAnswer(op, s, c, r) ==
    request' = [op |-> op, sector |-> s, numSectors |-> 0, done |-> 0,
                buffer |-> [Empty EXCEPT ![0] = c], result |-> r]

PartialOps == {"readPartialSector", "writePartialSector", "eraseWritePartialSector"}

Overlay(old, c, offset, size) ==
    [o \in Offsets |-> IF o >= offset /\ o < offset + size THEN c[o - offset] ELSE old[o]]

PartialRequest ==
    /\ Answered /\ request'.op \in PartialOps
    /\ CatchUp
    /\ \E s \in Sectors, offset \in Offsets, size \in 1 .. BytesPerSector :
         \/ /\ \E op \in PartialOps : PartialAnswer(op, 0, Zeroes, "false")
            /\ UNCHANGED store
         \/ /\ offset + size <= BytesPerSector
            /\ PartialAnswer("readPartialSector", s,
                   [o \in Offsets |-> IF o < size THEN store[s][offset + o] ELSE 0], "true")
            /\ UNCHANGED store
         \/ \E c \in Content :
              /\ offset + size <= BytesPerSector
              /\ \/ /\ PartialAnswer("writePartialSector", s, c, "true")
                    /\ store' = [store EXCEPT ![s] = Overlay(@, c, offset, size)]
                 \/ /\ PartialAnswer("eraseWritePartialSector", s, c, "true")
                    /\ store' = [store EXCEPT ![s] = Overlay(Zeroes, c, offset, size)]

MakeDurable ==
    /\ Pending("flush") \/ Pending("invalidate") \/ Pending("destructor")
    /\ CatchUp /\ UNCHANGED <<store, request>>

FlushAnswers ==
    /\ Pending("flush") /\ UNCHANGED store
    /\ \/ durable = store /\ UNCHANGED durable /\ Answer("true")
       \/ CatchUp /\ Answer("false")

(* Sectors that were not made durable before are lost here *)
GiveUp ==
    /\ Pending("invalidate") \/ Pending("destructor")
    /\ store' = durable /\ UNCHANGED durable /\ Answer("true")

PowerLoss == request' = Idle /\ store' = durable /\ UNCHANGED durable

BSNext ==
    \/ PowerLoss
    \/ Request \/ ReadSome \/ WriteSome \/ TransferAnswers
    \/ MakeDurable \/ FlushAnswers \/ GiveUp
    \/ PartialRequest

BSSpec == BSInit /\ [][BSNext]_bsVars
=============================================================================
