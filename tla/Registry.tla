------------------------------ MODULE Registry ------------------------------
(***************************************************************************)
(* The gateway's persistent node registry (crates/gateway/src/registry.rs): *)
(* records packed into a few buckets, one KV value per bucket, loaded one   *)
(* bucket at a time and never held in RAM.  These are its operations as     *)
(* functions of the stored buckets; a refused write leaves them alone, as   *)
(* KvStore shows.  A record keeps the address and the key; the name and the *)
(* flags decide nothing here.                                               *)
(***************************************************************************)
EXTENDS Naturals, SequencesExt

CONSTANTS
    BucketCount,  \* BUCKETS: 3 in the firmware
    PerBucket,    \* PER_BUCKET: 6
    Capacity      \* CAPACITY: 16, fewer than the slots of all buckets

ASSUME RegistryAssumption ==
    /\ BucketCount \in Nat \ {0} /\ PerBucket \in Nat \ {0}
    /\ Capacity \in 1 .. BucketCount * PerBucket

BucketIds == 1 .. BucketCount

\* A fresh store: no bucket was ever written, so each reads as empty.
EmptyBuckets == [i \in BucketIds |-> [ok |-> TRUE, recs |-> <<>>]]

\* load: a bucket that is there and cannot be decoded reads as empty.
Load(bs, i) == IF bs[i].ok THEN bs[i].recs ELSE <<>>

\* Every place that holds a record which can be read.
Places(bs) == {p \in BucketIds \X (1 .. PerBucket) : p[2] <= Len(Load(bs, p[1]))}

Count(bs) == Cardinality(Places(bs))

\* Where the loops over the buckets meet the address.
Slots(bs, addr) == {p \in Places(bs) : Load(bs, p[1])[p[2]].addr = addr}

FirstSlot(bs, addr) ==
    LET slots == Slots(bs, addr)
    IN  CHOOSE p \in slots : \A q \in slots : p[1] < q[1] \/ (p[1] = q[1] /\ p[2] <= q[2])

\* find: the stored key of the address; none is the empty tuple.
Find(bs, addr) ==
    IF Slots(bs, addr) = {} THEN <<>>
    ELSE LET p == FirstSlot(bs, addr) IN bs[p[1]].recs[p[2]].key

\* add: overwrite in place, else append to the first readable bucket with
\* room.  An unreadable bucket is never written over.
Add(bs, rec) ==
    LET room == {i \in BucketIds : bs[i].ok /\ Len(bs[i].recs) < PerBucket}
    IN  IF Slots(bs, rec.addr) # {}
        THEN LET p == FirstSlot(bs, rec.addr)
             IN  [result |-> "ok", bs |-> [bs EXCEPT ![p[1]].recs[p[2]] = rec]]
        ELSE IF Count(bs) >= Capacity THEN [result |-> "full", bs |-> bs]
        ELSE IF room # {}
        THEN [result |-> "ok", bs |-> [bs EXCEPT ![Min(room)].recs = Append(@, rec)]]
        ELSE [result |-> IF \A i \in BucketIds : bs[i].ok THEN "full" ELSE "storage",
              bs |-> bs]

\* add_new: insert only, the commit of an over-the-air join.
AddNew(bs, rec) ==
    IF Find(bs, rec.addr) # <<>> THEN [result |-> "exists", bs |-> bs]
    ELSE Add(bs, rec)

\* remove
RemoveRecord(bs, addr) ==
    IF Slots(bs, addr) = {} THEN [result |-> "notfound", bs |-> bs]
    ELSE LET p == FirstSlot(bs, addr)
         IN  [result |-> "ok", bs |-> [bs EXCEPT ![p[1]].recs = RemoveAt(@, p[2])]]

\* Where a loop over all the records meets the address last.
LastSlot(bs, addr) ==
    CHOOSE p \in Slots(bs, addr) :
        \A q \in Slots(bs, addr) : q[1] < p[1] \/ (q[1] = p[1] /\ q[2] <= p[2])
=============================================================================
