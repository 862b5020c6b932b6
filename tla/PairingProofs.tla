---------------------------- MODULE PairingProofs ----------------------------
(***************************************************************************)
(* Proofs about Pairing.tla and the registry it runs, for any nodes,       *)
(* gateways, buckets, window, commit round, registries to begin with, and  *)
(* any number of handshakes, operator requests, resets and rotten buckets: *)
(* who holds which key, what the registry and the peer table say, and what *)
(* the operator was told.                                                  *)
(***************************************************************************)
EXTENDS Pairing, FiniteSetTheorems, TLAPS

-----------------------------------------------------------------------------
(***************************************************************************)
(* The inductive invariant                                                 *)
(***************************************************************************)

Devices == Nodes \cup Gateways
Ephs == {<<>>} \cup (Devices \X Nat)
OtaKeys == {"ota"} \X Nodes \X Gateways \X Ephs \X Ephs \X Ephs \X Ephs
CableKeys == {"cable"} \X Nodes \X Gateways
PairKeys == OtaKeys \cup CableKeys
Commits == {"commit"} \X Ephs \X Ephs \X Ephs \X Nodes \X Gateways

Sessions ==
  [req : Nat, left : 0 .. Window, phase : {"closed", "listen", "nonce", "confirm"}, eph : Ephs,
   hs : Ephs, joiner : Nodes \cup {NoKey}, en : Ephs, key : OtaKeys \cup {NoKey}]

RegRecords == [addr : Nodes, key : PairKeys]
BucketShapes == [BucketIds -> [ok : BOOLEAN, recs : Seq(RegRecords)]]

Pairings == [gw : Gateways \cup {NoKey}, key : PairKeys \cup {NoKey}]
Attempts ==
  [phase : Phases, eph : Ephs, host : Gateways \cup {NoKey}, eg : Ephs,
   commit : Commits \cup {<<>>}, key : OtaKeys \cup {NoKey}, tries : 0 .. CommitAttempts - 1]
NodeStates ==
  [stored : Pairings, cur : Pairings, at : Attempts, peers : [Gateways -> PairKeys \cup {NoKey}]]

Results == {"paired", "timeout", "full", "exists", "storage"}

PairShapes ==
  /\ gw \in [Gateways -> Sessions]
  /\ buckets \in [Gateways -> BucketShapes]
  /\ peers \in [Gateways -> [Nodes -> PairKeys \cup {NoKey}]]
  /\ node \in [Nodes -> NodeStates]
  /\ draws \in [Devices -> Nat]
  /\ joins \subseteq [g : Gateways, req : Nat, n : Nodes, key : OtaKeys, left : Nat]
  /\ answers \subseteq [g : Gateways, req : Nat, result : Results]
  /\ used \in [ops : Nat, resets : Nat, rots : Nat]

\* The bounds of the model.
BoundInv ==
  /\ \A d \in Devices : draws[d] <= MaxDraws[d]
  /\ used.ops <= MaxOps /\ used.resets + used.rots <= MaxMishaps

\* What a frame on the air says, and that a JOIN_CONFIRM follows a JOIN_REVEAL under
\* the same key, whose last part is the nonce that was revealed.
FrameOK(f) ==
  \/ f.t = "req" /\ f.src \in Nodes /\ f.a \in Ephs
  \/ f.t = "resp" /\ f.src \in Gateways /\ f.a \in Ephs /\ f.b \in Commits
  \/ f.t = "nonce" /\ f.a \in Ephs
  \/ f.t = "reveal" /\ f.a \in Ephs /\ f.b[2] \in OtaKeys /\ f.b[2][7] = f.a
  \/ f.t = "confirm" /\ \E r \in air : r.t = "reveal" /\ r.src = f.dst /\ r.b = Tag("gw", f.b)
FrameInv == \A f \in air : FrameOK(f)

\* Where a handshake of a gateway stands.
SessionOK(g) ==
  LET s == gw[g] IN
  /\ s.eph = <<>> \/ s.eph \in {g} \X (1 .. draws[g])
  /\ s.phase \in {"nonce", "confirm"} =>
       s.eph = <<>> /\ s.joiner \in Nodes /\ peers[g][s.joiner] = NoKey
  /\ s.phase = "nonce" => s.left >= 2 /\ s.hs \in {g} \X (1 .. draws[g])
  /\ s.phase = "confirm" => s.left >= 1 /\ s.key \in OtaKeys
SessionInv == \A g \in Gateways : SessionOK(g)

\* A nonce that was revealed is spent: no handshake still has it to reveal.
SpentOK(r) ==
  r.t = "reveal" =>
    /\ r.src \in Gateways /\ r.a \in {r.src} \X (1 .. draws[r.src])
    /\ r.a # gw[r.src].eph
    /\ gw[r.src].phase = "nonce" => r.a # gw[r.src].hs
SpentInv == \A r \in air : SpentOK(r)

\* A gateway that waits for a JOIN_CONFIRM which is on the air already has its node in
\* the commit round, unless that one was reset.
MeetOK(f) ==
  f.t = "confirm" => \A g \in Gateways :
    gw[g].phase = "confirm" /\ f.dst = g /\ f.src = gw[g].joiner /\ f.b = gw[g].key =>
      \/ At(f.src).phase = "commit" /\ At(f.src).host = g /\ At(f.src).key = f.b
      \/ used.resets > 0
MeetInv == \A f \in air : MeetOK(f)

\* Who may hold a key: it came over the cable, or by a join that was registered.
Allowed(g, n, k) == k = CableKey(g, n) \/ \E j \in joins : j.g = g /\ j.n = n /\ j.key = k
KeyInv ==
  /\ \A g \in Gateways, n \in Nodes : peers[g][n] = NoKey \/ Allowed(g, n, peers[g][n])
  /\ \A g \in Gateways, i \in BucketIds : \A k \in DOMAIN buckets[g][i].recs :
       Allowed(g, buckets[g][i].recs[k].addr, buckets[g][i].recs[k].key)
  /\ \A n \in Nodes : \A rec \in {node[n].cur, node[n].stored} :
       rec = NoPairing \/ Allowed(rec.gw, n, rec.key)

\* A node's peer table, and where its attempt stands.
NodeOK(n) ==
  /\ At(n).phase \in {"reveal", "commit"} => At(n).host \in Gateways
  /\ At(n).phase = "commit" => At(n).key \in OtaKeys /\ node[n].peers[At(n).host] = At(n).key
  /\ \A g \in Gateways :
       \/ At(n).phase = "commit" /\ At(n).host = g
       \/ node[n].peers[g] = IF node[n].cur.gw = g THEN node[n].cur.key ELSE NoKey
NodeInv == \A n \in Nodes : NodeOK(n)

\* What was answered, and that an open request has no answer yet.
AnswerInv ==
  /\ \A a \in answers : a.req <= used.ops
  /\ \A g \in Gateways : gw[g].phase # "closed" => gw[g].req <= used.ops
  /\ WindowIsHonest

\* A registry as add, add_new and remove leave it.
RegistryOK(bs) ==
  /\ bs \in BucketShapes
  /\ \A i \in BucketIds : Len(bs[i].recs) <= PerBucket
  /\ \A n \in Nodes : \A p, q \in Slots(bs, n) : p = q
  /\ Count(bs) <= Capacity

Readable(bs) == \A i \in BucketIds : bs[i].ok

\* Registry and peer table.
ServeOK(g) ==
  /\ RegistryOK(buckets[g])
  /\ \A n \in Nodes :
       \/ Find(buckets[g], n) = peers[g][n]
       \/ ~Readable(buckets[g]) /\ NoKey \in {Find(buckets[g], n), peers[g][n]}
ServeInv == \A g \in Gateways : ServeOK(g)

PairInv ==
  /\ PairShapes /\ BoundInv /\ FrameInv /\ SessionInv /\ SpentInv /\ MeetInv
  /\ KeyInv /\ NodeInv /\ AnswerInv /\ ServeInv

-----------------------------------------------------------------------------
(***************************************************************************)
(* The registry                                                            *)
(***************************************************************************)

LEMMA RegConstants ==
  /\ BucketCount \in Nat \ {0} /\ PerBucket \in Nat \ {0} /\ Capacity \in Nat \ {0}
  /\ BucketIds = 1 .. BucketCount
<1>1. BucketCount \in Nat \ {0} /\ PerBucket \in Nat \ {0} /\ Capacity \in 1 .. BucketCount * PerBucket
  BY RegistryAssumption
<1>2. Capacity \in Nat \ {0} BY <1>1
<1> QED BY <1>1, <1>2 DEF BucketIds

\* Every non-empty set of natural numbers has a least one.
LEMMA LeastNatural ==
  ASSUME NEW S, S \subseteq Nat, S # {}
  PROVE  Min(S) \in S
<1>1. PICK m \in S : \A k \in S : <<k, m>> \notin OpToRel(<, Nat) BY WFMin, NatLessThanWellFounded, Zenon
<1>2. \A k \in S : ~(k < m) BY <1>1, Zenon DEF OpToRel
<1>3. \A k \in S : m <= k BY <1>2
<1> QED BY <1>3, Zenon DEF Min

\* No key is the mark for none.
LEMMA KeysAreSome ==
  /\ NoKey \notin PairKeys /\ NoKey \notin OtaKeys /\ OtaKeys \subseteq PairKeys
  /\ \A g \in Gateways, n \in Nodes : CableKey(g, n) \in PairKeys
<1>1. ASSUME NEW k \in OtaKeys PROVE k # <<>>
  <2>1. \E n \in Nodes, g \in Gateways, a \in Ephs, b \in Ephs, c \in Ephs, d \in Ephs :
          k = <<"ota", n, g, a, b, c, d>>
    BY DEF OtaKeys
  <2>2. Len(k) = 7 BY <2>1
  <2> QED BY <2>2
<1>2. \A k \in CableKeys : k # <<>> BY SMTT(30) DEF CableKeys
<1>3. \A g \in Gateways, n \in Nodes : CableKey(g, n) \in CableKeys BY DEF CableKey, CableKeys
<1> QED BY <1>1, <1>2, <1>3 DEF PairKeys, NoKey

\* The record of an address at a place that can be read.
Holds(bs, i, k, n) ==
  i \in BucketIds /\ bs[i].ok /\ k \in 1 .. Len(bs[i].recs) /\ bs[i].recs[k].addr = n

Fits(bs) == bs \in BucketShapes /\ \A i \in BucketIds : Len(bs[i].recs) <= PerBucket

LEMMA BucketTypes ==
  ASSUME NEW bs \in BucketShapes, NEW i \in BucketIds
  PROVE  /\ bs[i].ok \in BOOLEAN /\ bs[i].recs \in Seq(RegRecords) /\ Len(bs[i].recs) \in Nat
         /\ bs[i] \in [ok : BOOLEAN, recs : Seq(RegRecords)]
         /\ \A k \in 1 .. Len(bs[i].recs) :
              /\ bs[i].recs[k] \in RegRecords
              /\ bs[i].recs[k].addr \in Nodes /\ bs[i].recs[k].key \in PairKeys
<1>1. bs[i] \in [ok : BOOLEAN, recs : Seq(RegRecords)] BY DEF BucketShapes
<1>2. bs[i].ok \in BOOLEAN /\ bs[i].recs \in Seq(RegRecords) BY <1>1
<1>3. \A k \in 1 .. Len(bs[i].recs) : bs[i].recs[k] \in RegRecords BY <1>2
<1> QED BY <1>1, <1>2, <1>3 DEF RegRecords

LEMMA PlacesAre ==
  ASSUME NEW bs, Fits(bs)
  PROVE  /\ Places(bs) = {p \in BucketIds \X (1 .. PerBucket) : bs[p[1]].ok /\ p[2] <= Len(bs[p[1]].recs)}
         /\ \A n : Slots(bs, n) = {p \in BucketIds \X (1 .. PerBucket) : Holds(bs, p[1], p[2], n)}
<1>1. \A i \in BucketIds : bs[i].ok \in BOOLEAN /\ Len(bs[i].recs) \in Nat /\ Len(bs[i].recs) <= PerBucket
  BY BucketTypes DEF Fits
<1>2. \A i \in BucketIds, k \in 1 .. PerBucket :
        k <= Len(Load(bs, i)) <=> bs[i].ok /\ k <= Len(bs[i].recs)
  BY <1>1, RegConstants DEF Load
<1>3. \A i \in BucketIds, k \in 1 .. PerBucket : \A n :
        k <= Len(Load(bs, i)) /\ Load(bs, i)[k].addr = n <=> Holds(bs, i, k, n)
  BY <1>1, <1>2, RegConstants DEF Load, Holds
<1>4. Places(bs) = {p \in BucketIds \X (1 .. PerBucket) : bs[p[1]].ok /\ p[2] <= Len(bs[p[1]].recs)}
  BY <1>2 DEF Places
<1>5. ASSUME NEW n
      PROVE  Slots(bs, n) = {p \in BucketIds \X (1 .. PerBucket) : Holds(bs, p[1], p[2], n)}
  BY <1>3 DEF Places, Slots
<1> QED BY <1>4, <1>5

LEMMA PlacesFinite == \A bs : IsFiniteSet(Places(bs)) /\ Count(bs) \in Nat
<1>1. IsFiniteSet(BucketIds) /\ IsFiniteSet(1 .. PerBucket) BY RegConstants, FS_Interval
<1>2. IsFiniteSet(BucketIds \X (1 .. PerBucket)) BY <1>1, FS_Product
<1>3. \A bs : Places(bs) \in SUBSET (BucketIds \X (1 .. PerBucket)) BY DEF Places
<1>4. \A bs : IsFiniteSet(Places(bs)) BY <1>2, <1>3, FS_Subset
<1> QED BY <1>4, FS_CardinalityType DEF Count

\* With the places that hold an address, find needs no order.
LEMMA FindIs ==
  ASSUME NEW bs, Fits(bs), NEW n \in Nodes, \A p, q \in Slots(bs, n) : p = q
  PROVE  /\ \A i, k, j, l : Holds(bs, i, k, n) /\ Holds(bs, j, l, n) => i = j /\ k = l
         /\ \A i, k : Holds(bs, i, k, n) =>
              /\ Slots(bs, n) = {<<i, k>>} /\ FirstSlot(bs, n) = <<i, k>> /\ LastSlot(bs, n) = <<i, k>>
              /\ Find(bs, n) = bs[i].recs[k].key /\ Find(bs, n) \in PairKeys
         /\ (\A i, k : ~Holds(bs, i, k, n)) => Slots(bs, n) = {} /\ Find(bs, n) = NoKey
         /\ (Slots(bs, n) # {} => \E i \in BucketIds : \E k \in 1 .. PerBucket : Holds(bs, i, k, n))
<1>1. Slots(bs, n) = {p \in BucketIds \X (1 .. PerBucket) : Holds(bs, p[1], p[2], n)} BY PlacesAre
<1>2. ASSUME NEW i, NEW k, Holds(bs, i, k, n) PROVE <<i, k>> \in Slots(bs, n)
  <2>1. i \in BucketIds /\ k \in 1 .. Len(bs[i].recs) BY <1>2 DEF Holds
  <2>2. Len(bs[i].recs) \in Nat /\ Len(bs[i].recs) <= PerBucket BY <2>1, BucketTypes DEF Fits
  <2>3. k \in 1 .. PerBucket BY <2>1, <2>2, RegConstants
  <2> QED BY <1>1, <1>2, <2>1, <2>3
<1>3. ASSUME NEW i, NEW k, NEW j, NEW l, Holds(bs, i, k, n), Holds(bs, j, l, n) PROVE i = j /\ k = l
  <2>1. <<i, k>> \in Slots(bs, n) /\ <<j, l>> \in Slots(bs, n) BY <1>2, <1>3
  <2>2. <<i, k>> = <<j, l>> BY <2>1
  <2> QED BY <2>2
<1>4. ASSUME NEW i, NEW k, Holds(bs, i, k, n)
      PROVE  /\ Slots(bs, n) = {<<i, k>>} /\ FirstSlot(bs, n) = <<i, k>> /\ LastSlot(bs, n) = <<i, k>>
             /\ Find(bs, n) = bs[i].recs[k].key /\ Find(bs, n) \in PairKeys
  <2>1. Slots(bs, n) = {<<i, k>>} BY <1>2, <1>4
  <2>2. i \in BucketIds /\ k \in 1 .. Len(bs[i].recs) /\ Len(bs[i].recs) \in Nat
    BY <1>4, BucketTypes DEF Holds, Fits
  <2>3. i \in Nat /\ k \in Nat BY <2>2, RegConstants
  <2>4. \A q \in Slots(bs, n) : <<i, k>>[1] = q[1] /\ <<i, k>>[2] <= q[2] /\ q[2] <= <<i, k>>[2]
    BY <2>1, <2>3
  <2>5. FirstSlot(bs, n) \in Slots(bs, n) BY <2>1, <2>4 DEF FirstSlot
  <2>6. LastSlot(bs, n) \in Slots(bs, n) BY <2>1, <2>4 DEF LastSlot
  <2>7. FirstSlot(bs, n) = <<i, k>> /\ LastSlot(bs, n) = <<i, k>> BY <2>1, <2>5, <2>6
  <2>8. Find(bs, n) = bs[i].recs[k].key BY <2>1, <2>7 DEF Find
  <2>9. bs[i].recs[k].key \in PairKeys BY <2>2, BucketTypes DEF Fits
  <2> QED BY <2>1, <2>7, <2>8, <2>9
<1>5. ASSUME \A i, k : ~Holds(bs, i, k, n) PROVE Slots(bs, n) = {} /\ Find(bs, n) = NoKey
  <2>1. Slots(bs, n) = {} BY <1>1, <1>5
  <2> QED BY <2>1 DEF Find, NoKey
<1>6. ASSUME Slots(bs, n) # {} PROVE \E i \in BucketIds : \E k \in 1 .. PerBucket : Holds(bs, i, k, n)
  BY <1>1, <1>6
<1> QED BY <1>3, <1>4, <1>5, <1>6

LEMMA FindHeld ==
  ASSUME NEW bs, Fits(bs), NEW n \in Nodes, \A p, q \in Slots(bs, n) : p = q,
         NEW i, NEW k, Holds(bs, i, k, n)
  PROVE  Find(bs, n) = bs[i].recs[k].key
  BY FindIs

LEMMA FindNone ==
  ASSUME NEW bs, Fits(bs), NEW n \in Nodes, \A p, q \in Slots(bs, n) : p = q,
         \A i, k : ~Holds(bs, i, k, n)
  PROVE  Find(bs, n) = NoKey
  BY FindIs

LEMMA UniqueByHolds ==
  ASSUME NEW bs, Fits(bs), NEW n,
         \A i, k, j, l : Holds(bs, i, k, n) /\ Holds(bs, j, l, n) => i = j /\ k = l
  PROVE  \A p, q \in Slots(bs, n) : p = q
<1>1. Slots(bs, n) = {p \in BucketIds \X (1 .. PerBucket) : Holds(bs, p[1], p[2], n)} BY PlacesAre
<1> QED BY <1>1

\* One bucket is written.
LEMMA BucketWritten ==
  ASSUME NEW bs, Fits(bs), NEW i \in BucketIds, NEW s \in Seq(RegRecords), Len(s) <= PerBucket
  PROVE  /\ Fits([bs EXCEPT ![i].recs = s]) /\ [bs EXCEPT ![i].recs = s][i].recs = s
         /\ \A j \in BucketIds : [bs EXCEPT ![i].recs = s][j].ok = bs[j].ok
         /\ \A j \in BucketIds \ {i} : [bs EXCEPT ![i].recs = s][j] = bs[j]
<1>0. PICK b2 : b2 = [bs EXCEPT ![i].recs = s]
  OBVIOUS
<1>1. bs \in BucketShapes /\ bs[i] \in [ok : BOOLEAN, recs : Seq(RegRecords)] BY BucketTypes DEF Fits
<1>2. PICK v : v = [bs[i] EXCEPT !.recs = s]
  OBVIOUS
<1>3. v \in [ok : BOOLEAN, recs : Seq(RegRecords)] /\ v.recs = s /\ v.ok = bs[i].ok BY <1>1, <1>2
<1>4. b2 = [bs EXCEPT ![i] = v] BY <1>0, <1>2
<1>5. b2 \in BucketShapes /\ b2[i] = v /\ \A j \in BucketIds \ {i} : b2[j] = bs[j]
  BY <1>1, <1>3, <1>4 DEF BucketShapes
<1>6. \A j \in BucketIds : Len(b2[j].recs) <= PerBucket BY <1>3, <1>5 DEF Fits
<1>7. Fits(b2) /\ b2[i].recs = s /\ \A j \in BucketIds : b2[j].ok = bs[j].ok BY <1>3, <1>5, <1>6 DEF Fits
<1> QED BY <1>0, <1>5, <1>7

\* The record at a place was overwritten.
Overwrote(bs, i, k, rec, b2) ==
  /\ Fits(b2) /\ Len(b2[i].recs) = Len(bs[i].recs) /\ b2[i].recs[k] = rec
  /\ \A l \in 1 .. Len(bs[i].recs) : l # k => b2[i].recs[l] = bs[i].recs[l]
  /\ \A j \in BucketIds : b2[j].ok = bs[j].ok
  /\ \A j \in BucketIds \ {i} : b2[j] = bs[j]

LEMMA OverwriteIs ==
  ASSUME NEW bs, RegistryOK(bs), NEW rec \in RegRecords, NEW i, NEW k, Holds(bs, i, k, rec.addr),
         NEW b2, Overwrote(bs, i, k, rec, b2)
  PROVE  /\ RegistryOK(b2)
         /\ Find(b2, rec.addr) = rec.key
         /\ \A n \in Nodes \ {rec.addr} : Find(b2, n) = Find(bs, n)
         /\ \A j \in BucketIds : b2[j].ok = bs[j].ok
         /\ \A j \in BucketIds : \A l \in DOMAIN b2[j].recs :
              b2[j].recs[l] = rec \/ \E m \in DOMAIN bs[j].recs : b2[j].recs[l] = bs[j].recs[m]
<1>1. Fits(bs) BY DEF Fits, RegistryOK
<1>2. i \in BucketIds /\ bs[i].ok /\ k \in 1 .. Len(bs[i].recs) /\ bs[i].recs[k].addr = rec.addr
  BY DEF Holds
<1>3. bs[i].recs \in Seq(RegRecords) /\ Len(bs[i].recs) \in Nat /\ Len(bs[i].recs) <= PerBucket
  BY <1>1, <1>2, BucketTypes DEF Fits
<1>5. /\ Len(b2[i].recs) = Len(bs[i].recs) /\ b2[i].recs[k] = rec
      /\ \A l \in 1 .. Len(bs[i].recs) : l # k => b2[i].recs[l] = bs[i].recs[l]
  BY DEF Overwrote
<1>7. /\ Fits(b2)
      /\ \A j \in BucketIds : b2[j].ok = bs[j].ok
      /\ \A j \in BucketIds \ {i} : b2[j] = bs[j]
  BY DEF Overwrote
<1>8. \A j \in BucketIds : Len(b2[j].recs) = Len(bs[j].recs) BY <1>5, <1>7
<1>9. \A j \in BucketIds : \A l \in 1 .. Len(bs[j].recs) :
        /\ b2[j].recs[l].addr = bs[j].recs[l].addr
        /\ j # i \/ l # k => b2[j].recs[l] = bs[j].recs[l]
  BY <1>2, <1>5, <1>7
<1>10. \A n, j, l : Holds(b2, j, l, n) <=> Holds(bs, j, l, n) BY <1>7, <1>8, <1>9 DEF Holds
<1>11. \A n \in Nodes : \A p, q \in Slots(bs, n) : p = q BY DEF RegistryOK
<1>12. ASSUME NEW n \in Nodes PROVE \A p, q \in Slots(b2, n) : p = q
  <2>1. \A x, y, j, l : Holds(bs, x, y, n) /\ Holds(bs, j, l, n) => x = j /\ y = l BY <1>1, <1>11, FindIs
  <2>2. \A x, y, j, l : Holds(b2, x, y, n) /\ Holds(b2, j, l, n) => x = j /\ y = l BY <1>10, <2>1
  <2> QED BY <1>7, <2>2, UniqueByHolds
<1>13. Places(b2) = Places(bs)
  <2>1. Places(bs) = {p \in BucketIds \X (1 .. PerBucket) : bs[p[1]].ok /\ p[2] <= Len(bs[p[1]].recs)}
    BY <1>1, PlacesAre
  <2>2. Places(b2) = {p \in BucketIds \X (1 .. PerBucket) : b2[p[1]].ok /\ p[2] <= Len(b2[p[1]].recs)}
    BY <1>7, PlacesAre
  <2>3. \A p \in BucketIds \X (1 .. PerBucket) :
          b2[p[1]].ok = bs[p[1]].ok /\ Len(b2[p[1]].recs) = Len(bs[p[1]].recs)
    BY <1>7, <1>8
  <2> QED BY <2>1, <2>2, <2>3
<1>14. RegistryOK(b2) BY <1>7, <1>12, <1>13 DEF RegistryOK, Fits, Count
<1>15. rec.addr \in Nodes BY DEF RegRecords
<1>16. Find(b2, rec.addr) = rec.key
  <2>1. Holds(b2, i, k, rec.addr) BY <1>10
  <2>2. \A p, q \in Slots(b2, rec.addr) : p = q BY <1>12, <1>15
  <2>3. Find(b2, rec.addr) = b2[i].recs[k].key
    <3>1. PICK a \in Nodes : a = rec.addr BY <1>15
    <3>2. Holds(b2, i, k, a) /\ Fits(b2) /\ \A p, q \in Slots(b2, a) : p = q BY <1>7, <2>1, <2>2, <3>1
    <3>3. Find(b2, a) = b2[i].recs[k].key BY <3>2, FindHeld
    <3> QED BY <3>1, <3>3
  <2> QED BY <1>5, <1>7, <2>3
<1>17. ASSUME NEW n \in Nodes \ {rec.addr} PROVE Find(b2, n) = Find(bs, n)
  <2>0. Fits(b2) /\ n \in Nodes /\ (\A p, q \in Slots(b2, n) : p = q) /\ (\A p, q \in Slots(bs, n) : p = q)
    BY <1>7, <1>11, <1>12
  <2>1. CASE \E j, l : Holds(bs, j, l, n)
    <3>1. PICK j, l : Holds(bs, j, l, n) BY <2>1
    <3>2. j # i \/ l # k BY <1>2, <3>1 DEF Holds
    <3>3. j \in BucketIds /\ l \in 1 .. Len(bs[j].recs) BY <3>1 DEF Holds
    <3>4. b2[j].recs[l] = bs[j].recs[l] BY <1>9, <3>2, <3>3
    <3>5. Find(bs, n) = bs[j].recs[l].key BY <1>1, <2>0, <3>1, FindHeld
    <3>6. Find(b2, n) = b2[j].recs[l].key
      <4>1. Holds(b2, j, l, n) BY <1>10, <3>1
      <4> QED BY <2>0, <4>1, FindHeld
    <3> QED BY <3>4, <3>5, <3>6
  <2>2. CASE \A j, l : ~Holds(bs, j, l, n)
    <3>1. Find(bs, n) = NoKey BY <1>1, <2>0, <2>2, FindNone
    <3>2. Find(b2, n) = NoKey
      <4>1. \A j, l : ~Holds(b2, j, l, n) BY <1>10, <2>2
      <4> QED BY <2>0, <4>1, FindNone
    <3> QED BY <3>1, <3>2
  <2> QED BY <2>1, <2>2
<1>18. ASSUME NEW j \in BucketIds, NEW l \in DOMAIN b2[j].recs
       PROVE  b2[j].recs[l] = rec \/ \E m \in DOMAIN bs[j].recs : b2[j].recs[l] = bs[j].recs[m]
  <2>1. bs[j].recs \in Seq(RegRecords) /\ b2[j].recs \in Seq(RegRecords) BY <1>1, <1>7, BucketTypes DEF Fits
  <2>2. l \in 1 .. Len(bs[j].recs) /\ l \in DOMAIN bs[j].recs BY <1>8, <2>1
  <2>3. CASE j = i /\ l = k BY <1>5, <1>7, <2>3
  <2>4. CASE j # i \/ l # k BY <1>9, <2>2, <2>4
  <2> QED BY <2>3, <2>4
<1> QED BY <1>7, <1>14, <1>16, <1>17, <1>18

\* The same record at another place is found all the same.
LEMMA MovedIs ==
  ASSUME NEW bs, Fits(bs), NEW b2, Fits(b2), NEW n \in Nodes,
         \A p, q \in Slots(bs, n) : p = q, \A p, q \in Slots(b2, n) : p = q,
         \A j, l : Holds(b2, j, l, n) => \E m : Holds(bs, j, m, n) /\ b2[j].recs[l] = bs[j].recs[m],
         \A j, m : Holds(bs, j, m, n) => \E l : Holds(b2, j, l, n)
  PROVE  Find(b2, n) = Find(bs, n)
<1>1. CASE \E j, l : Holds(b2, j, l, n)
  <2>1. PICK j, l : Holds(b2, j, l, n) BY <1>1
  <2>2. PICK m : Holds(bs, j, m, n) /\ b2[j].recs[l] = bs[j].recs[m] BY <2>1
  <2>3. Find(b2, n) = b2[j].recs[l].key BY <2>1, FindHeld
  <2>4. Find(bs, n) = bs[j].recs[m].key BY <2>2, FindHeld
  <2> QED BY <2>2, <2>3, <2>4
<1>2. CASE \A j, l : ~Holds(b2, j, l, n)
  <2>1. \A j, l : ~Holds(bs, j, l, n) BY <1>2
  <2>2. Find(b2, n) = NoKey BY <1>2, FindNone
  <2>3. Find(bs, n) = NoKey BY <2>1, FindNone
  <2> QED BY <2>2, <2>3
<1> QED BY <1>1, <1>2

LEMMA AppendIs ==
  ASSUME NEW bs, RegistryOK(bs), NEW rec \in RegRecords, \A j, l : ~Holds(bs, j, l, rec.addr),
         Count(bs) < Capacity, NEW i \in BucketIds, bs[i].ok, Len(bs[i].recs) < PerBucket,
         NEW b2, Fits(b2), Len(b2[i].recs) = Len(bs[i].recs) + 1,
         \A l \in 1 .. Len(bs[i].recs) : b2[i].recs[l] = bs[i].recs[l],
         b2[i].recs[Len(bs[i].recs) + 1] = rec,
         \A j \in BucketIds : b2[j].ok = bs[j].ok,
         \A j \in BucketIds \ {i} : b2[j] = bs[j]
  PROVE  /\ RegistryOK(b2)
         /\ Find(b2, rec.addr) = rec.key
         /\ \A n \in Nodes \ {rec.addr} : Find(b2, n) = Find(bs, n)
         /\ \A j \in BucketIds : \A l \in DOMAIN b2[j].recs :
              b2[j].recs[l] = rec \/ \E m \in DOMAIN bs[j].recs : b2[j].recs[l] = bs[j].recs[m]
<1>1. Fits(bs) BY DEF Fits, RegistryOK
<1>2. PICK x \in Nat : x = Len(bs[i].recs) BY <1>1, BucketTypes DEF Fits
<1>3. /\ x < PerBucket /\ Len(b2[i].recs) = x + 1 /\ b2[i].recs[x + 1] = rec
      /\ \A l \in 1 .. x : b2[i].recs[l] = bs[i].recs[l]
  BY <1>2
<1>4. rec.addr \in Nodes BY DEF RegRecords
<1>5. \A n, l : Holds(b2, i, l, n) <=> Holds(bs, i, l, n) \/ (l = x + 1 /\ n = rec.addr)
  <2>1. \A l : l \in 1 .. x + 1 <=> l \in 1 .. x \/ l = x + 1
    OBVIOUS
  <2>2. b2[i].ok
    OBVIOUS
  <2> QED BY <1>2, <1>3, <2>1, <2>2 DEF Holds
<1>6. \A n, j, l : j # i => (Holds(b2, j, l, n) <=> Holds(bs, j, l, n)) BY DEF Holds
<1>7. \A n \in Nodes : \A p, q \in Slots(bs, n) : p = q BY DEF RegistryOK
<1>8. ASSUME NEW n \in Nodes PROVE \A p, q \in Slots(b2, n) : p = q
  <2>1. \A y, z, j, l : Holds(bs, y, z, n) /\ Holds(bs, j, l, n) => y = j /\ z = l BY <1>1, <1>7, FindIs
  <2>2. ASSUME NEW y, NEW z, NEW j, NEW l, Holds(b2, y, z, n), Holds(b2, j, l, n) PROVE y = j /\ z = l
    <3>1. Holds(bs, y, z, n) \/ (y = i /\ z = x + 1 /\ n = rec.addr) BY <1>5, <1>6, <2>2
    <3>2. Holds(bs, j, l, n) \/ (j = i /\ l = x + 1 /\ n = rec.addr) BY <1>5, <1>6, <2>2
    <3> QED BY <2>1, <3>1, <3>2
  <2> QED BY <2>2, UniqueByHolds
<1>9. Places(b2) = Places(bs) \cup {<<i, x + 1>>} /\ <<i, x + 1>> \notin Places(bs)
  <2>1. Places(bs) = {p \in BucketIds \X (1 .. PerBucket) : bs[p[1]].ok /\ p[2] <= Len(bs[p[1]].recs)}
    BY <1>1, PlacesAre
  <2>2. Places(b2) = {p \in BucketIds \X (1 .. PerBucket) : b2[p[1]].ok /\ p[2] <= Len(b2[p[1]].recs)}
    BY PlacesAre
  <2>3. x + 1 \in 1 .. PerBucket BY <1>3, RegConstants
  <2>4. \A j \in BucketIds, l \in 1 .. PerBucket :
          b2[j].ok /\ l <= Len(b2[j].recs) <=> (bs[j].ok /\ l <= Len(bs[j].recs)) \/ (j = i /\ l = x + 1)
    <3> SUFFICES ASSUME NEW j \in BucketIds, NEW l \in 1 .. PerBucket
                 PROVE  b2[j].ok /\ l <= Len(b2[j].recs) <=>
                          (bs[j].ok /\ l <= Len(bs[j].recs)) \/ (j = i /\ l = x + 1)
      OBVIOUS
    <3>1. CASE j = i
      <4>1. l <= x + 1 <=> l <= x \/ l = x + 1 BY RegConstants
      <4> QED BY <1>2, <1>3, <3>1, <4>1
    <3>2. CASE j # i BY <3>2
    <3> QED BY <3>1, <3>2
  <2>5. <<i, x + 1>> \in BucketIds \X (1 .. PerBucket) BY <2>3
  <2>6. Places(b2) = Places(bs) \cup {<<i, x + 1>>}
    <3>1. \A p \in BucketIds \X (1 .. PerBucket) : p \in Places(b2) <=> p \in Places(bs) \/ p = <<i, x + 1>>
      BY <2>1, <2>2, <2>4
    <3>2. Places(b2) \subseteq BucketIds \X (1 .. PerBucket) /\ Places(bs) \subseteq BucketIds \X (1 .. PerBucket)
      BY DEF Places
    <3> QED BY <2>5, <3>1, <3>2
  <2>7. ~(x + 1 <= Len(bs[i].recs)) BY <1>2
  <2>8. <<i, x + 1>> \notin Places(bs) BY <2>1, <2>7
  <2> QED BY <2>6, <2>8
<1>10. Count(b2) = Count(bs) + 1 /\ Count(bs) \in Nat
  <2>1. IsFiniteSet(Places(bs)) /\ Count(bs) \in Nat BY PlacesFinite
  <2>2. Cardinality(Places(bs) \cup {<<i, x + 1>>}) = Cardinality(Places(bs)) + 1
    BY <1>9, <2>1, FS_AddElement
  <2> QED BY <1>9, <2>1, <2>2 DEF Count
<1>11. RegistryOK(b2)
  <2>1. Count(b2) <= Capacity BY <1>10, RegConstants
  <2> QED BY <1>8, <2>1 DEF RegistryOK, Fits
<1>12. Find(b2, rec.addr) = rec.key
  <2>1. PICK a \in Nodes : a = rec.addr BY <1>4
  <2>2. Holds(b2, i, x + 1, a) BY <1>5, <2>1
  <2>3. Find(b2, a) = b2[i].recs[x + 1].key BY <1>8, <2>2, FindHeld
  <2> QED BY <1>3, <2>1, <2>3
<1>13. ASSUME NEW n \in Nodes \ {rec.addr} PROVE Find(b2, n) = Find(bs, n)
  <2>1. \A j, l : Holds(b2, j, l, n) => Holds(bs, j, l, n) /\ b2[j].recs[l] = bs[j].recs[l]
    <3> SUFFICES ASSUME NEW j, NEW l, Holds(b2, j, l, n)
                 PROVE  Holds(bs, j, l, n) /\ b2[j].recs[l] = bs[j].recs[l]
      OBVIOUS
    <3>1. CASE j = i
      <4>1. Holds(bs, i, l, n) BY <1>5, <3>1
      <4>2. l \in 1 .. x BY <1>2, <4>1 DEF Holds
      <4> QED BY <1>3, <3>1, <4>1, <4>2
    <3>2. CASE j # i
      <4>1. j \in BucketIds BY DEF Holds
      <4> QED BY <1>6, <3>2, <4>1
    <3> QED BY <3>1, <3>2
  <2>2. \A j, l : Holds(bs, j, l, n) => Holds(b2, j, l, n) BY <1>5, <1>6
  <2>3. /\ n \in Nodes /\ (\A p, q \in Slots(bs, n) : p = q) /\ (\A p, q \in Slots(b2, n) : p = q)
    BY <1>7, <1>8
  <2>4. \A j, l : Holds(b2, j, l, n) => \E m : Holds(bs, j, m, n) /\ b2[j].recs[l] = bs[j].recs[m] BY <2>1
  <2>5. \A j, m : Holds(bs, j, m, n) => \E l : Holds(b2, j, l, n) BY <2>2
  <2> QED BY <1>1, <2>3, <2>4, <2>5, MovedIs, ZenonT(30)
<1>14. ASSUME NEW j \in BucketIds, NEW l \in DOMAIN b2[j].recs
       PROVE  b2[j].recs[l] = rec \/ \E m \in DOMAIN bs[j].recs : b2[j].recs[l] = bs[j].recs[m]
  <2>1. bs[j].recs \in Seq(RegRecords) /\ b2[j].recs \in Seq(RegRecords) BY <1>1, BucketTypes DEF Fits
  <2>2. DOMAIN bs[j].recs = 1 .. Len(bs[j].recs) /\ DOMAIN b2[j].recs = 1 .. Len(b2[j].recs) BY <2>1
  <2>3. CASE j = i
    <3>1. l \in 1 .. x + 1 BY <1>3, <2>2, <2>3
    <3>2. CASE l = x + 1 BY <1>3, <2>3, <3>2
    <3>3. CASE l \in 1 .. x BY <1>2, <1>3, <2>2, <2>3, <3>3
    <3> QED BY <3>1, <3>2, <3>3
  <2>4. CASE j # i BY <2>4
  <2> QED BY <2>3, <2>4
<1> QED BY <1>11, <1>12, <1>13, <1>14

LEMMA RemoveIs ==
  ASSUME NEW bs, RegistryOK(bs), NEW a \in Nodes, NEW i, NEW k, Holds(bs, i, k, a),
         NEW b2, Fits(b2), Len(b2[i].recs) = Len(bs[i].recs) - 1,
         \A l \in 1 .. Len(bs[i].recs) - 1 :
            b2[i].recs[l] = IF l < k THEN bs[i].recs[l] ELSE bs[i].recs[l + 1],
         \A j \in BucketIds : b2[j].ok = bs[j].ok,
         \A j \in BucketIds \ {i} : b2[j] = bs[j]
  PROVE  /\ RegistryOK(b2)
         /\ Find(b2, a) = NoKey
         /\ \A n \in Nodes \ {a} : Find(b2, n) = Find(bs, n)
         /\ \A j \in BucketIds : \A l \in DOMAIN b2[j].recs :
              \E m \in DOMAIN bs[j].recs : b2[j].recs[l] = bs[j].recs[m]
<1>1. Fits(bs) BY DEF Fits, RegistryOK
<1>2. i \in BucketIds /\ bs[i].ok /\ k \in 1 .. Len(bs[i].recs) /\ bs[i].recs[k].addr = a BY DEF Holds
<1>3. PICK x \in Nat : x = Len(bs[i].recs) BY <1>1, <1>2, BucketTypes DEF Fits
<1>4. /\ x <= PerBucket /\ Len(b2[i].recs) = x - 1 /\ k \in 1 .. x
      /\ \A l \in 1 .. x - 1 : b2[i].recs[l] = IF l < k THEN bs[i].recs[l] ELSE bs[i].recs[l + 1]
  BY <1>1, <1>2, <1>3 DEF Fits
<1>5. ASSUME NEW n, NEW l, Holds(b2, i, l, n)
      PROVE  /\ l \in 1 .. x - 1
             /\ l < k => Holds(bs, i, l, n) /\ b2[i].recs[l] = bs[i].recs[l]
             /\ ~(l < k) => Holds(bs, i, l + 1, n) /\ b2[i].recs[l] = bs[i].recs[l + 1]
  <2>1. l \in 1 .. x - 1 /\ b2[i].recs[l].addr = n BY <1>4, <1>5 DEF Holds
  <2>2. l \in 1 .. x /\ l + 1 \in 1 .. x BY <2>1
  <2> QED BY <1>2, <1>3, <1>4, <2>1, <2>2 DEF Holds
<1>6. ASSUME NEW n, NEW l, Holds(bs, i, l, n), l # k
      PROVE  /\ l \in 1 .. x
             /\ l < k => Holds(b2, i, l, n)
             /\ ~(l < k) => Holds(b2, i, l - 1, n)
  <2>1. l \in 1 .. x /\ bs[i].recs[l].addr = n BY <1>3, <1>6 DEF Holds
  <2>2. CASE l < k
    <3>1. l \in 1 .. x - 1 BY <1>4, <2>1, <2>2
    <3>2. b2[i].recs[l] = bs[i].recs[l] BY <1>4, <2>2, <3>1
    <3> QED BY <1>2, <1>4, <2>1, <2>2, <3>1, <3>2 DEF Holds
  <2>3. CASE ~(l < k)
    <3>1. l - 1 \in 1 .. x - 1 /\ ~(l - 1 < k) /\ (l - 1) + 1 = l BY <1>4, <1>6, <2>1, <2>3
    <3>2. b2[i].recs[l - 1] = bs[i].recs[l] BY <1>4, <3>1
    <3> QED BY <1>2, <1>4, <2>1, <2>3, <3>1, <3>2 DEF Holds
  <2> QED BY <2>1, <2>2, <2>3
<1>7. \A n, j, l : j # i => (Holds(b2, j, l, n) <=> Holds(bs, j, l, n)) /\ (Holds(bs, j, l, n) => b2[j] = bs[j])
  BY DEF Holds
<1>8. \A n \in Nodes : \A p, q \in Slots(bs, n) : p = q BY DEF RegistryOK
<1>9. ASSUME NEW n \in Nodes
      PROVE  \A y, z, j, l : Holds(bs, y, z, n) /\ Holds(bs, j, l, n) => y = j /\ z = l
  BY <1>1, <1>8, FindIs
<1>10. ASSUME NEW n \in Nodes PROVE \A p, q \in Slots(b2, n) : p = q
  <2>1. ASSUME NEW y, NEW z, NEW j, NEW l, Holds(b2, y, z, n), Holds(b2, j, l, n) PROVE y = j /\ z = l
    <3>1. PICK w : Holds(bs, y, w, n) /\ (y # i => w = z) /\ (y = i => z \in 1 .. x - 1 /\ w = IF z < k THEN z ELSE z + 1)
      BY <1>5, <1>7, <2>1
    <3>2. PICK v : Holds(bs, j, v, n) /\ (j # i => v = l) /\ (j = i => l \in 1 .. x - 1 /\ v = IF l < k THEN l ELSE l + 1)
      BY <1>5, <1>7, <2>1
    <3>3. y = j /\ w = v BY <1>9, <3>1, <3>2
    <3>4. CASE y = i BY <1>4, <3>1, <3>2, <3>3, <3>4
    <3>5. CASE y # i BY <3>1, <3>2, <3>3, <3>5
    <3> QED BY <3>4, <3>5
  <2> QED BY <2>1, UniqueByHolds
<1>11. Places(b2) \in SUBSET Places(bs)
  <2>1. Places(bs) = {p \in BucketIds \X (1 .. PerBucket) : bs[p[1]].ok /\ p[2] <= Len(bs[p[1]].recs)}
    BY <1>1, PlacesAre
  <2>2. Places(b2) = {p \in BucketIds \X (1 .. PerBucket) : b2[p[1]].ok /\ p[2] <= Len(b2[p[1]].recs)}
    BY PlacesAre
  <2>3. \A j \in BucketIds, l \in 1 .. PerBucket :
          b2[j].ok /\ l <= Len(b2[j].recs) => bs[j].ok /\ l <= Len(bs[j].recs)
    <3> SUFFICES ASSUME NEW j \in BucketIds, NEW l \in 1 .. PerBucket, b2[j].ok, l <= Len(b2[j].recs)
                 PROVE  bs[j].ok /\ l <= Len(bs[j].recs)
      OBVIOUS
    <3>1. CASE j = i BY <1>3, <1>4, <3>1, RegConstants
    <3>2. CASE j # i BY <3>2
    <3> QED BY <3>1, <3>2
  <2> QED BY <2>1, <2>2, <2>3
<1>12. RegistryOK(b2)
  <2>1. IsFiniteSet(Places(bs)) /\ Count(bs) \in Nat /\ Count(b2) \in Nat BY PlacesFinite
  <2>2. Count(b2) <= Count(bs) BY <1>11, <2>1, FS_Subset DEF Count
  <2>3. Count(b2) <= Capacity BY <2>1, <2>2, RegConstants DEF RegistryOK
  <2> QED BY <1>10, <2>3 DEF RegistryOK, Fits
<1>13. Find(b2, a) = NoKey
  <2>1. ASSUME NEW j, NEW l, Holds(b2, j, l, a) PROVE FALSE
    <3>1. CASE j # i
      <4>1. Holds(bs, j, l, a) BY <1>7, <2>1, <3>1
      <4> QED BY <1>9, <3>1, <4>1
    <3>2. CASE j = i
      <4>1. l \in 1 .. x - 1 BY <1>5, <2>1, <3>2
      <4>2. CASE l < k
        <5>1. Holds(bs, i, l, a) BY <1>5, <2>1, <3>2, <4>2
        <5>2. l = k BY <1>9, <5>1
        <5> QED BY <1>4, <4>1, <4>2, <5>2
      <4>3. CASE ~(l < k)
        <5>1. Holds(bs, i, l + 1, a) BY <1>5, <2>1, <3>2, <4>3
        <5>2. l + 1 = k BY <1>9, <5>1
        <5> QED BY <1>4, <4>1, <4>3, <5>2
      <4> QED BY <4>2, <4>3
    <3> QED BY <3>1, <3>2
  <2>2. \A p, q \in Slots(b2, a) : p = q BY <1>10
  <2> QED BY <2>1, <2>2, FindNone
<1>14. ASSUME NEW n \in Nodes \ {a} PROVE Find(b2, n) = Find(bs, n)
  <2>1. ASSUME NEW j, NEW l, Holds(b2, j, l, n)
        PROVE  \E m : Holds(bs, j, m, n) /\ b2[j].recs[l] = bs[j].recs[m]
    BY <1>5, <1>7, <2>1
  <2>2. ASSUME NEW j, NEW m, Holds(bs, j, m, n) PROVE \E l : Holds(b2, j, l, n)
    <3>1. CASE j # i BY <1>7, <2>2, <3>1
    <3>2. CASE j = i
      <4>1. m # k BY <1>2, <2>2, <3>2 DEF Holds
      <4> QED BY <1>6, <2>2, <3>2, <4>1
    <3> QED BY <3>1, <3>2
  <2>3. /\ n \in Nodes /\ (\A p, q \in Slots(bs, n) : p = q) /\ (\A p, q \in Slots(b2, n) : p = q)
    BY <1>8, <1>10
  <2> QED BY <1>1, <2>1, <2>2, <2>3, MovedIs
<1>15. ASSUME NEW j \in BucketIds, NEW l \in DOMAIN b2[j].recs
       PROVE  \E m \in DOMAIN bs[j].recs : b2[j].recs[l] = bs[j].recs[m]
  <2>1. bs[j].recs \in Seq(RegRecords) /\ b2[j].recs \in Seq(RegRecords) BY <1>1, BucketTypes DEF Fits
  <2>2. DOMAIN bs[j].recs = 1 .. Len(bs[j].recs) /\ DOMAIN b2[j].recs = 1 .. Len(b2[j].recs) BY <2>1
  <2>3. CASE j = i
    <3>1. l \in 1 .. x - 1 BY <1>4, <2>2, <2>3
    <3>2. l \in 1 .. x /\ l + 1 \in 1 .. x BY <3>1
    <3> QED BY <1>3, <1>4, <2>2, <2>3, <3>1, <3>2
  <2>4. CASE j # i BY <2>4
  <2> QED BY <2>3, <2>4
<1> QED BY <1>12, <1>13, <1>14, <1>15

\* A bucket rots: what it held is no longer found, the rest is.
LEMMA RotIs ==
  ASSUME NEW bs, RegistryOK(bs), NEW i \in BucketIds,
         NEW b2, Fits(b2), ~b2[i].ok, \A j \in BucketIds : b2[j].recs = bs[j].recs,
         \A j \in BucketIds \ {i} : b2[j] = bs[j]
  PROVE  /\ RegistryOK(b2)
         /\ \A n \in Nodes : Find(b2, n) \in {NoKey, Find(bs, n)}
<1>1. Fits(bs) BY DEF Fits, RegistryOK
<1>2. \A n, j, l : Holds(b2, j, l, n) => Holds(bs, j, l, n) /\ b2[j] = bs[j] BY DEF Holds
<1>3. \A n \in Nodes : \A p, q \in Slots(bs, n) : p = q BY DEF RegistryOK
<1>4. ASSUME NEW n \in Nodes PROVE \A p, q \in Slots(b2, n) : p = q
  <2>1. \A y, z, j, l : Holds(bs, y, z, n) /\ Holds(bs, j, l, n) => y = j /\ z = l BY <1>1, <1>3, FindIs
  <2>2. \A y, z, j, l : Holds(b2, y, z, n) /\ Holds(b2, j, l, n) => y = j /\ z = l BY <1>2, <2>1
  <2> QED BY <2>2, UniqueByHolds
<1>5. Places(b2) \in SUBSET Places(bs)
  <2>1. Places(bs) = {p \in BucketIds \X (1 .. PerBucket) : bs[p[1]].ok /\ p[2] <= Len(bs[p[1]].recs)}
    BY <1>1, PlacesAre
  <2>2. Places(b2) = {p \in BucketIds \X (1 .. PerBucket) : b2[p[1]].ok /\ p[2] <= Len(b2[p[1]].recs)}
    BY PlacesAre
  <2>3. \A j \in BucketIds : b2[j].ok => b2[j] = bs[j]
    OBVIOUS
  <2> QED BY <2>1, <2>2, <2>3
<1>6. RegistryOK(b2)
  <2>1. IsFiniteSet(Places(bs)) /\ Count(bs) \in Nat /\ Count(b2) \in Nat BY PlacesFinite
  <2>2. Count(b2) <= Count(bs) BY <1>5, <2>1, FS_Subset DEF Count
  <2>3. Count(b2) <= Capacity BY <2>1, <2>2, RegConstants DEF RegistryOK
  <2> QED BY <1>4, <2>3 DEF RegistryOK, Fits
<1>7. ASSUME NEW n \in Nodes PROVE Find(b2, n) \in {NoKey, Find(bs, n)}
  <2>0. (\A p, q \in Slots(bs, n) : p = q) /\ (\A p, q \in Slots(b2, n) : p = q) BY <1>3, <1>4
  <2>1. CASE \E j, l : Holds(b2, j, l, n)
    <3>1. PICK j, l : Holds(b2, j, l, n) BY <2>1
    <3>2. Holds(bs, j, l, n) /\ b2[j] = bs[j] BY <1>2, <3>1
    <3>3. Find(b2, n) = b2[j].recs[l].key BY <2>0, <3>1, FindHeld
    <3>4. Find(bs, n) = bs[j].recs[l].key BY <1>1, <2>0, <3>2, FindHeld
    <3> QED BY <3>2, <3>3, <3>4
  <2>2. CASE \A j, l : ~Holds(b2, j, l, n)
    <3>1. Find(b2, n) = NoKey BY <2>0, <2>2, FindNone
    <3> QED BY <3>1
  <2> QED BY <2>1, <2>2
<1> QED BY <1>6, <1>7

LEMMA RemoveAtIs ==
  ASSUME NEW S, NEW s \in Seq(S), NEW k \in 1 .. Len(s)
  PROVE  /\ RemoveAt(s, k) \in Seq(S) /\ Len(RemoveAt(s, k)) = Len(s) - 1
         /\ \A l \in 1 .. Len(s) - 1 : RemoveAt(s, k)[l] = IF l < k THEN s[l] ELSE s[l + 1]
<1>1. PICK a : a = SubSeq(s, 1, k - 1)
  OBVIOUS
<1>2. PICK b : b = SubSeq(s, k + 1, Len(s))
  OBVIOUS
<1>3. a \in Seq(S) /\ Len(a) = k - 1 /\ \A l \in 1 .. k - 1 : a[l] = s[l] BY <1>1
<1>4. b \in Seq(S) /\ Len(b) = Len(s) - k /\ \A l \in 1 .. Len(s) - k : b[l] = s[l + k] BY <1>2
<1>5. RemoveAt(s, k) = a \o b BY <1>1, <1>2 DEF RemoveAt
<1>6. a \o b \in Seq(S) /\ Len(a \o b) = Len(s) - 1
  <2>1. a \o b \in Seq(S) /\ Len(a \o b) = Len(a) + Len(b)
    <3>1. a \in Seq(S) /\ b \in Seq(S) BY <1>3, <1>4
    <3> QED BY <3>1
  <2>2. Len(a) + Len(b) = Len(s) - 1 BY <1>3, <1>4
  <2> QED BY <2>1, <2>2
<1>7. \A l \in 1 .. Len(s) - 1 : (a \o b)[l] = IF l < k THEN s[l] ELSE s[l + 1] BY <1>3, <1>4
<1> QED BY <1>5, <1>6, <1>7

\* What a write to the registry under an address leaves alone.
WroteOK(bs, b2, a) ==
  /\ RegistryOK(b2)
  /\ \A n \in Nodes \ {a} : Find(b2, n) = Find(bs, n)
  /\ \A j \in BucketIds : b2[j].ok = bs[j].ok

LEMMA AddIs ==
  ASSUME NEW bs, RegistryOK(bs), NEW rec \in RegRecords, Add(bs, rec).result = "ok"
  PROVE  /\ WroteOK(bs, Add(bs, rec).bs, rec.addr)
         /\ Find(Add(bs, rec).bs, rec.addr) = rec.key
         /\ \A j \in BucketIds : \A l \in DOMAIN Add(bs, rec).bs[j].recs :
              \/ Add(bs, rec).bs[j].recs[l] = rec
              \/ \E m \in DOMAIN bs[j].recs : Add(bs, rec).bs[j].recs[l] = bs[j].recs[m]
         /\ Find(bs, rec.addr) = NoKey => Count(bs) < Capacity
<1>1. Fits(bs) BY DEF Fits, RegistryOK
<1>2. PICK a \in Nodes : a = rec.addr BY DEF RegRecords
<1>3. \A p, q \in Slots(bs, a) : p = q BY DEF RegistryOK
<1>4. PICK b2 : b2 = Add(bs, rec).bs
  OBVIOUS
<1>5. CASE Slots(bs, a) # {}
  <2>1. PICK i \in BucketIds, k \in 1 .. PerBucket : Holds(bs, i, k, a) BY <1>1, <1>3, <1>5, FindIs
  <2>2. FirstSlot(bs, a) = <<i, k>> /\ Find(bs, a) \in PairKeys BY <1>1, <1>3, <2>1, FindIs
  <2>3. b2 = [bs EXCEPT ![i].recs[k] = rec] BY <1>2, <1>4, <1>5, <2>2 DEF Add
  <2>4. k \in 1 .. Len(bs[i].recs) /\ bs[i].recs \in Seq(RegRecords) /\ Len(bs[i].recs) <= PerBucket
    BY <1>1, <2>1, BucketTypes DEF Holds, Fits
  <2>5. PICK s : s = [bs[i].recs EXCEPT ![k] = rec]
    OBVIOUS
  <2>6. /\ s \in Seq(RegRecords) /\ Len(s) = Len(bs[i].recs) /\ Len(s) <= PerBucket
        /\ \A l \in 1 .. Len(bs[i].recs) : s[l] = IF l = k THEN rec ELSE bs[i].recs[l]
    BY <2>4, <2>5
  <2>7. b2 = [bs EXCEPT ![i].recs = s] BY <2>3, <2>5
  <2>8. /\ Fits(b2) /\ b2[i].recs = s
        /\ \A j \in BucketIds : b2[j].ok = bs[j].ok
        /\ \A j \in BucketIds \ {i} : b2[j] = bs[j]
    <3>1. /\ Fits([bs EXCEPT ![i].recs = s]) /\ [bs EXCEPT ![i].recs = s][i].recs = s
          /\ \A j \in BucketIds : [bs EXCEPT ![i].recs = s][j].ok = bs[j].ok
          /\ \A j \in BucketIds \ {i} : [bs EXCEPT ![i].recs = s][j] = bs[j]
      BY <1>1, <2>6, BucketWritten
    <3> QED BY <2>7, <3>1
  <2>9. Overwrote(bs, i, k, rec, b2) BY <2>4, <2>6, <2>8 DEF Overwrote
  <2>10. Holds(bs, i, k, rec.addr) BY <1>2, <2>1
  <2>11. /\ RegistryOK(b2)
         /\ Find(b2, rec.addr) = rec.key
         /\ \A n \in Nodes \ {rec.addr} : Find(b2, n) = Find(bs, n)
         /\ \A j \in BucketIds : \A l \in DOMAIN b2[j].recs :
              b2[j].recs[l] = rec \/ \E m \in DOMAIN bs[j].recs : b2[j].recs[l] = bs[j].recs[m]
    <3>1. RegistryOK(b2) BY <2>9, <2>10, OverwriteIs
    <3>2. Find(b2, rec.addr) = rec.key
      <4>1. Fits(b2) /\ \A p, q \in Slots(b2, a) : p = q BY <2>8, <3>1 DEF RegistryOK
      <4>2. Holds(b2, i, k, a) BY <1>2, <2>1, <2>4, <2>6, <2>8 DEF Holds
      <4>3. Find(b2, a) = b2[i].recs[k].key BY <4>1, <4>2, FindHeld
      <4>4. b2[i].recs[k] = rec BY <2>4, <2>6, <2>8
      <4> QED BY <1>2, <4>3, <4>4
    <3>3. \A n \in Nodes \ {rec.addr} : Find(b2, n) = Find(bs, n) BY <2>9, <2>10, OverwriteIs
    <3>4. \A j \in BucketIds : \A l \in DOMAIN b2[j].recs :
            b2[j].recs[l] = rec \/ \E m \in DOMAIN bs[j].recs : b2[j].recs[l] = bs[j].recs[m]
      BY <2>9, <2>10, OverwriteIs
    <3> QED BY <3>1, <3>2, <3>3, <3>4
  <2>12. Find(bs, rec.addr) # NoKey BY <1>2, <2>2, KeysAreSome
  <2> QED BY <1>4, <2>8, <2>11, <2>12 DEF WroteOK
<1>6. CASE Slots(bs, a) = {}
  <2>1. PICK room : room = {i \in BucketIds : bs[i].ok /\ Len(bs[i].recs) < PerBucket}
    OBVIOUS
  <2>2. ~(Count(bs) >= Capacity) BY <1>2, <1>6 DEF Add
  <2>3. room # {} /\ b2 = [bs EXCEPT ![Min(room)].recs = Append(@, rec)]
    BY <1>2, <1>4, <1>6, <2>1, <2>2 DEF Add
  <2>4. room \subseteq Nat BY <2>1, RegConstants
  <2>5. PICK i \in room : i = Min(room) BY <2>3, <2>4, LeastNatural
  <2>6. i \in BucketIds /\ bs[i].ok /\ Len(bs[i].recs) < PerBucket /\ bs[i].recs \in Seq(RegRecords)
    BY <1>1, <2>1, <2>5, BucketTypes DEF Fits
  <2>7. PICK s : s = Append(bs[i].recs, rec)
    OBVIOUS
  <2>8. /\ s \in Seq(RegRecords) /\ Len(s) = Len(bs[i].recs) + 1 /\ Len(s) <= PerBucket
        /\ \A l \in 1 .. Len(bs[i].recs) : s[l] = bs[i].recs[l]
        /\ s[Len(bs[i].recs) + 1] = rec
    BY <2>6, <2>7, RegConstants
  <2>9. b2 = [bs EXCEPT ![i].recs = s] BY <2>3, <2>5, <2>7
  <2>10. /\ Fits(b2) /\ b2[i].recs = s
         /\ \A j \in BucketIds : b2[j].ok = bs[j].ok
         /\ \A j \in BucketIds \ {i} : b2[j] = bs[j]
    <3>1. /\ Fits([bs EXCEPT ![i].recs = s]) /\ [bs EXCEPT ![i].recs = s][i].recs = s
          /\ \A j \in BucketIds : [bs EXCEPT ![i].recs = s][j].ok = bs[j].ok
          /\ \A j \in BucketIds \ {i} : [bs EXCEPT ![i].recs = s][j] = bs[j]
      BY <1>1, <2>6, <2>8, BucketWritten, SMTT(30)
    <3> QED BY <2>9, <3>1
  <2>11. /\ Len(b2[i].recs) = Len(bs[i].recs) + 1
         /\ \A l \in 1 .. Len(bs[i].recs) : b2[i].recs[l] = bs[i].recs[l]
         /\ b2[i].recs[Len(bs[i].recs) + 1] = rec
    BY <2>8, <2>10
  <2>12. \A j, l : ~Holds(bs, j, l, rec.addr)
    <3>1. \A j, l : Holds(bs, j, l, a) => Slots(bs, a) = {<<j, l>>} BY <1>1, <1>3, FindIs
    <3> QED BY <1>2, <1>6, <3>1
  <2>13. Count(bs) < Capacity BY <2>2, PlacesFinite, RegConstants
  <2>14. /\ RegistryOK(b2)
         /\ Find(b2, rec.addr) = rec.key
         /\ \A n \in Nodes \ {rec.addr} : Find(b2, n) = Find(bs, n)
         /\ \A j \in BucketIds : \A l \in DOMAIN b2[j].recs :
              b2[j].recs[l] = rec \/ \E m \in DOMAIN bs[j].recs : b2[j].recs[l] = bs[j].recs[m]
    BY <2>6, <2>10, <2>11, <2>12, <2>13, AppendIs
  <2> QED BY <1>4, <2>10, <2>13, <2>14 DEF WroteOK
<1> QED BY <1>5, <1>6

LEMMA AddNewIs ==
  ASSUME NEW bs, NEW rec, AddNew(bs, rec).result = "ok"
  PROVE  AddNew(bs, rec) = Add(bs, rec) /\ Find(bs, rec.addr) = NoKey
  BY DEF AddNew, NoKey

LEMMA RemoveRecordIs ==
  ASSUME NEW bs, RegistryOK(bs), NEW a \in Nodes, RemoveRecord(bs, a).result = "ok"
  PROVE  /\ WroteOK(bs, RemoveRecord(bs, a).bs, a)
         /\ Find(RemoveRecord(bs, a).bs, a) = NoKey
         /\ \A j \in BucketIds : \A l \in DOMAIN RemoveRecord(bs, a).bs[j].recs :
              \E m \in DOMAIN bs[j].recs : RemoveRecord(bs, a).bs[j].recs[l] = bs[j].recs[m]
<1>1. Fits(bs) BY DEF Fits, RegistryOK
<1>2. \A p, q \in Slots(bs, a) : p = q BY DEF RegistryOK
<1>3. PICK b2 : b2 = RemoveRecord(bs, a).bs
  OBVIOUS
<1>4. Slots(bs, a) # {} BY DEF RemoveRecord
<1>5. PICK i \in BucketIds, k \in 1 .. PerBucket : Holds(bs, i, k, a) BY <1>1, <1>2, <1>4, FindIs
<1>6. FirstSlot(bs, a) = <<i, k>> BY <1>1, <1>2, <1>5, FindIs
<1>7. b2 = [bs EXCEPT ![i].recs = RemoveAt(@, k)] BY <1>3, <1>4, <1>6 DEF RemoveRecord
<1>8. k \in 1 .. Len(bs[i].recs) /\ bs[i].recs \in Seq(RegRecords) /\ Len(bs[i].recs) <= PerBucket
  BY <1>1, <1>5, BucketTypes DEF Holds, Fits
<1>9. PICK s : s = RemoveAt(bs[i].recs, k)
  OBVIOUS
<1>10. /\ s \in Seq(RegRecords) /\ Len(s) = Len(bs[i].recs) - 1
       /\ \A l \in 1 .. Len(bs[i].recs) - 1 : s[l] = IF l < k THEN bs[i].recs[l] ELSE bs[i].recs[l + 1]
  BY <1>8, <1>9, RemoveAtIs
<1>11. Len(s) <= PerBucket BY <1>8, <1>10, RegConstants
<1>12. b2 = [bs EXCEPT ![i].recs = s] BY <1>7, <1>9
<1>13. /\ Fits(b2) /\ b2[i].recs = s
       /\ \A j \in BucketIds : b2[j].ok = bs[j].ok
       /\ \A j \in BucketIds \ {i} : b2[j] = bs[j]
  <2>1. /\ Fits([bs EXCEPT ![i].recs = s]) /\ [bs EXCEPT ![i].recs = s][i].recs = s
        /\ \A j \in BucketIds : [bs EXCEPT ![i].recs = s][j].ok = bs[j].ok
        /\ \A j \in BucketIds \ {i} : [bs EXCEPT ![i].recs = s][j] = bs[j]
    BY <1>1, <1>10, <1>11, BucketWritten
  <2> QED BY <1>12, <2>1
<1>14. /\ Len(b2[i].recs) = Len(bs[i].recs) - 1
       /\ \A l \in 1 .. Len(bs[i].recs) - 1 :
            b2[i].recs[l] = IF l < k THEN bs[i].recs[l] ELSE bs[i].recs[l + 1]
  BY <1>10, <1>13
<1>15. /\ RegistryOK(b2)
       /\ Find(b2, a) = NoKey
       /\ \A n \in Nodes \ {a} : Find(b2, n) = Find(bs, n)
       /\ \A j \in BucketIds : \A l \in DOMAIN b2[j].recs :
            \E m \in DOMAIN bs[j].recs : b2[j].recs[l] = bs[j].recs[m]
  BY <1>5, <1>13, <1>14, RemoveIs
<1> QED BY <1>3, <1>13, <1>15 DEF WroteOK

\* A boot installs what find finds.
LEMMA PeersOfIs ==
  ASSUME NEW bs, RegistryOK(bs)
  PROVE  /\ PeersOf(bs) \in [Nodes -> PairKeys \cup {NoKey}]
         /\ \A n \in Nodes : PeersOf(bs)[n] = Find(bs, n)
         /\ \A n \in Nodes : PeersOf(bs)[n] = NoKey \/
              \E i \in BucketIds : \E k \in DOMAIN bs[i].recs :
                bs[i].recs[k].addr = n /\ PeersOf(bs)[n] = bs[i].recs[k].key
<1>1. Fits(bs) BY DEF Fits, RegistryOK
<1>2. ASSUME NEW n \in Nodes
      PROVE  /\ PeersOf(bs)[n] = Find(bs, n) /\ PeersOf(bs)[n] \in PairKeys \cup {NoKey}
             /\ \/ PeersOf(bs)[n] = NoKey
                \/ \E i \in BucketIds : \E k \in DOMAIN bs[i].recs :
                     bs[i].recs[k].addr = n /\ PeersOf(bs)[n] = bs[i].recs[k].key
  <2>1. \A p, q \in Slots(bs, n) : p = q BY DEF RegistryOK
  <2>2. PeersOf(bs)[n] = IF Slots(bs, n) = {} THEN NoKey
                         ELSE bs[LastSlot(bs, n)[1]].recs[LastSlot(bs, n)[2]].key
    BY DEF PeersOf
  <2>3. CASE Slots(bs, n) = {} BY <2>2, <2>3 DEF Find, NoKey
  <2>4. CASE Slots(bs, n) # {}
    <3>1. PICK i \in BucketIds, k \in 1 .. PerBucket : Holds(bs, i, k, n) BY <1>1, <2>1, <2>4, FindIs
    <3>2. LastSlot(bs, n) = <<i, k>> /\ Find(bs, n) = bs[i].recs[k].key /\ Find(bs, n) \in PairKeys
      BY <1>1, <2>1, <3>1, FindIs
    <3>3. PeersOf(bs)[n] = bs[i].recs[k].key BY <2>2, <2>4, <3>2
    <3>4. bs[i].recs \in Seq(RegRecords) /\ k \in 1 .. Len(bs[i].recs) /\ bs[i].recs[k].addr = n
      BY <1>1, <3>1, BucketTypes DEF Holds, Fits
    <3>5. k \in DOMAIN bs[i].recs BY <3>4
    <3> QED BY <3>2, <3>3, <3>4, <3>5
  <2> QED BY <2>3, <2>4
<1>3. PeersOf(bs) = [n \in Nodes |-> PeersOf(bs)[n]] BY DEF PeersOf
<1>4. PeersOf(bs) \in [Nodes -> PairKeys \cup {NoKey}] BY <1>2, <1>3
<1> QED BY <1>2, <1>4

\* No more nodes are found than there are records.
LEMMA InstalledBound ==
  ASSUME NEW bs, RegistryOK(bs), NEW table, \A n \in Nodes : Find(bs, n) = table[n]
  PROVE  /\ Cardinality({m \in Nodes : table[m] # NoKey}) <= Count(bs)
         /\ Cardinality({m \in Nodes : table[m] # NoKey}) \in Nat
<1>1. Fits(bs) BY DEF Fits, RegistryOK
<1>2. PICK S : S = {m \in Nodes : table[m] # NoKey}
  OBVIOUS
<1>3. PICK f : f = [m \in S |-> FirstSlot(bs, m)]
  OBVIOUS
<1>4. ASSUME NEW m \in S
      PROVE  f[m] \in Places(bs) /\ \E i, k : f[m] = <<i, k>> /\ Holds(bs, i, k, m)
  <2>1. m \in Nodes /\ Find(bs, m) # NoKey BY <1>2
  <2>2. \A p, q \in Slots(bs, m) : p = q BY <2>1 DEF RegistryOK
  <2>3. Slots(bs, m) # {} BY <2>1 DEF Find, NoKey
  <2>4. PICK i \in BucketIds, k \in 1 .. PerBucket : Holds(bs, i, k, m) BY <1>1, <2>1, <2>2, <2>3, FindIs
  <2>5. FirstSlot(bs, m) = <<i, k>> /\ Slots(bs, m) = {<<i, k>>} BY <1>1, <2>1, <2>2, <2>4, FindIs
  <2>6. f[m] = <<i, k>> BY <1>3, <2>5
  <2>7. <<i, k>> \in Places(bs) BY <2>5 DEF Slots
  <2> QED BY <2>4, <2>6, <2>7
<1>5. ASSUME NEW m \in S, NEW n \in S, f[m] = f[n] PROVE m = n
  <2>1. PICK i, k : f[m] = <<i, k>> /\ Holds(bs, i, k, m) BY <1>4
  <2>2. PICK j, l : f[n] = <<j, l>> /\ Holds(bs, j, l, n) BY <1>4
  <2>3. <<i, k>> = <<j, l>> BY <1>5, <2>1, <2>2
  <2> QED BY <2>1, <2>2, <2>3 DEF Holds
<1>6. f \in [S -> Places(bs)] BY <1>3, <1>4
<1>7. f \in Injection(S, Places(bs)) BY <1>5, <1>6 DEF Injection, IsInjective
<1>8. IsFiniteSet(Places(bs)) BY PlacesFinite
<1>9. IsFiniteSet(S) /\ Cardinality(S) <= Cardinality(Places(bs)) BY <1>7, <1>8, FS_Injection
<1>10. Cardinality(S) \in Nat BY <1>9, FS_CardinalityType
<1> QED BY <1>2, <1>9, <1>10 DEF Count

-----------------------------------------------------------------------------
(***************************************************************************)
(* Shapes, and what a step leaves alone                                    *)
(***************************************************************************)

LEMMA PairConstants ==
  /\ CommitAttempts \in Nat \ {0} /\ Window \in Nat \ {0} /\ MaxOps \in Nat /\ MaxMishaps \in Nat
  /\ \A d \in Devices : MaxDraws[d] \in Nat
  BY PairingAssumption DEF Devices

LEMMA GatewayTypes ==
  ASSUME PairShapes, NEW g \in Gateways
  PROVE  /\ gw[g] \in Sessions
         /\ gw[g].req \in Nat /\ gw[g].left \in 0 .. Window /\ gw[g].left \in Nat
         /\ gw[g].phase \in {"closed", "listen", "nonce", "confirm"}
         /\ gw[g].eph \in Ephs /\ gw[g].hs \in Ephs /\ gw[g].en \in Ephs
         /\ gw[g].joiner \in Nodes \cup {NoKey} /\ gw[g].key \in OtaKeys \cup {NoKey}
         /\ buckets[g] \in BucketShapes /\ peers[g] \in [Nodes -> PairKeys \cup {NoKey}]
         /\ draws[g] \in Nat /\ g \in Devices
<1>1. gw[g] \in Sessions BY DEF PairShapes
<1>2. /\ gw[g].req \in Nat /\ gw[g].left \in 0 .. Window
      /\ gw[g].phase \in {"closed", "listen", "nonce", "confirm"}
      /\ gw[g].eph \in Ephs /\ gw[g].hs \in Ephs /\ gw[g].en \in Ephs
      /\ gw[g].joiner \in Nodes \cup {NoKey} /\ gw[g].key \in OtaKeys \cup {NoKey}
  BY <1>1 DEF Sessions
<1>3. gw[g].left \in Nat BY <1>2, PairConstants
<1>4. buckets[g] \in BucketShapes /\ peers[g] \in [Nodes -> PairKeys \cup {NoKey}] BY DEF PairShapes
<1>5. draws[g] \in Nat /\ g \in Devices BY DEF PairShapes, Devices
<1> QED BY <1>1, <1>2, <1>3, <1>4, <1>5

LEMMA NodeTypes ==
  ASSUME PairShapes, NEW n \in Nodes
  PROVE  /\ node[n] \in NodeStates /\ node[n].stored \in Pairings /\ node[n].cur \in Pairings
         /\ node[n].peers \in [Gateways -> PairKeys \cup {NoKey}]
         /\ At(n) \in Attempts /\ At(n) = node[n].at
         /\ At(n).phase \in Phases /\ At(n).eph \in Ephs /\ At(n).host \in Gateways \cup {NoKey}
         /\ At(n).eg \in Ephs /\ At(n).commit \in Commits \cup {<<>>}
         /\ At(n).key \in OtaKeys \cup {NoKey} /\ At(n).tries \in 0 .. CommitAttempts - 1
         /\ draws[n] \in Nat /\ n \in Devices
<1>1. node[n] \in NodeStates BY DEF PairShapes
<1>2. /\ node[n].stored \in Pairings /\ node[n].cur \in Pairings /\ node[n].at \in Attempts
      /\ node[n].peers \in [Gateways -> PairKeys \cup {NoKey}]
  BY <1>1 DEF NodeStates
<1>3. /\ node[n].at.phase \in Phases /\ node[n].at.eph \in Ephs /\ node[n].at.host \in Gateways \cup {NoKey}
      /\ node[n].at.eg \in Ephs /\ node[n].at.commit \in Commits \cup {<<>>}
      /\ node[n].at.key \in OtaKeys \cup {NoKey} /\ node[n].at.tries \in 0 .. CommitAttempts - 1
  BY <1>2 DEF Attempts
<1>4. draws[n] \in Nat /\ n \in Devices BY DEF PairShapes, Devices
<1> QED BY <1>1, <1>2, <1>3, <1>4 DEF At

LEMMA EmptyShapes ==
  /\ NoSession \in Sessions /\ NoSession.phase = "closed" /\ NoSession.eph = <<>> /\ NoSession.req = 0
  /\ NoPairing \in Pairings
  /\ NoAttempt \in Attempts /\ NoAttempt.phase = "idle"
<1>1. <<>> \in Ephs /\ 0 \in 0 .. Window /\ 0 \in 0 .. CommitAttempts - 1 BY PairConstants DEF Ephs
<1>2. NoSession \in Sessions /\ NoSession.phase = "closed" /\ NoSession.eph = <<>> /\ NoSession.req = 0
  BY <1>1 DEF NoSession, Sessions
<1>3. NoPairing \in Pairings BY DEF NoPairing, Pairings
<1>4. NoAttempt \in Attempts /\ NoAttempt.phase = "idle" BY <1>1 DEF NoAttempt, Attempts, Phases
<1> QED BY <1>2, <1>3, <1>4

LEMMA SessionSet ==
  ASSUME PairShapes, NEW g \in Gateways, NEW s \in Sessions, gw' = [gw EXCEPT ![g] = s]
  PROVE  /\ gw' \in [Gateways -> Sessions] /\ gw'[g] = s
         /\ \A h \in Gateways : h # g => gw'[h] = gw[h]
  BY DEF PairShapes

LEMMA NodeSet ==
  ASSUME PairShapes, NEW n \in Nodes, NEW v \in NodeStates, node' = [node EXCEPT ![n] = v]
  PROVE  /\ node' \in [Nodes -> NodeStates] /\ node'[n] = v
         /\ \A m \in Nodes : m # n => node'[m] = node[m]
  BY DEF PairShapes

LEMMA DrewIs ==
  ASSUME PairShapes, BoundInv, NEW d \in Devices, CanDraw(d), Drew(d)
  PROVE  /\ draws' \in [Devices -> Nat] /\ draws'[d] = draws[d] + 1
         /\ \A x \in Devices : draws'[x] >= draws[x] /\ draws'[x] <= MaxDraws[x]
         /\ Drawn(d) \in Ephs /\ Drawn(d) \in {d} \X (1 .. draws[d] + 1) /\ Drawn(d) # <<>>
         /\ Drawn(d)[2] = draws[d] + 1
<1>1. draws \in [Devices -> Nat] /\ draws[d] \in Nat /\ \A x \in Devices : MaxDraws[x] \in Nat /\ draws[x] \in Nat
  BY PairConstants DEF PairShapes
<1>2. draws' = [draws EXCEPT ![d] = draws[d] + 1] /\ draws[d] < MaxDraws[d] BY DEF Drew, CanDraw
<1>3. draws' \in [Devices -> Nat] /\ draws'[d] = draws[d] + 1 /\ \A x \in Devices : x # d => draws'[x] = draws[x]
  BY <1>1, <1>2
<1>4. \A x \in Devices : draws'[x] >= draws[x] /\ draws'[x] <= MaxDraws[x] BY <1>1, <1>2, <1>3 DEF BoundInv
<1>5. Drawn(d) = <<d, draws[d] + 1>> BY DEF Drawn
<1>6. Drawn(d) \in Ephs /\ Drawn(d) \in {d} \X (1 .. draws[d] + 1) /\ Drawn(d) # <<>> BY <1>1, <1>5 DEF Ephs
<1> QED BY <1>3, <1>4, <1>5, <1>6

LEMMA RequestIs ==
  ASSUME PairShapes, BoundInv, Request
  PROVE  /\ used' \in [ops : Nat, resets : Nat, rots : Nat]
         /\ used'.ops = used.ops + 1 /\ used'.resets = used.resets /\ used'.rots = used.rots
         /\ used'.ops <= MaxOps /\ used'.resets + used'.rots <= MaxMishaps
<1>1. used \in [ops : Nat, resets : Nat, rots : Nat] /\ used.ops \in Nat BY DEF PairShapes
<1>2. used.ops < MaxOps /\ used' = [used EXCEPT !.ops = used.ops + 1] BY DEF Request
<1>3. /\ used' \in [ops : Nat, resets : Nat, rots : Nat]
      /\ used'.ops = used.ops + 1 /\ used'.resets = used.resets /\ used'.rots = used.rots
  BY <1>1, <1>2
<1> QED BY <1>1, <1>2, <1>3, PairConstants DEF BoundInv

LEMMA MishapIs ==
  ASSUME PairShapes, BoundInv, NEW what \in {"resets", "rots"}, Mishap(what)
  PROVE  /\ used' \in [ops : Nat, resets : Nat, rots : Nat]
         /\ used'.ops = used.ops /\ used'.resets >= used.resets /\ used.resets \in Nat
         /\ what = "resets" => used'.resets = used.resets + 1
         /\ used'.ops <= MaxOps /\ used'.resets + used'.rots <= MaxMishaps
<1>1. /\ used \in [ops : Nat, resets : Nat, rots : Nat]
      /\ used.ops \in Nat /\ used.resets \in Nat /\ used.rots \in Nat
  BY DEF PairShapes
<1>2. used.resets + used.rots < MaxMishaps /\ used.ops <= MaxOps BY DEF Mishap, BoundInv
<1>3. CASE what = "resets"
  <2>1. used' = [used EXCEPT !.resets = used.resets + 1] BY <1>3 DEF Mishap
  <2>2. /\ used' \in [ops : Nat, resets : Nat, rots : Nat]
        /\ used'.ops = used.ops /\ used'.resets = used.resets + 1 /\ used'.rots = used.rots
    BY <1>1, <2>1
  <2> QED BY <1>1, <1>2, <2>2, PairConstants
<1>4. CASE what = "rots"
  <2>1. used' = [used EXCEPT !.rots = used.rots + 1] BY <1>4 DEF Mishap
  <2>2. /\ used' \in [ops : Nat, resets : Nat, rots : Nat]
        /\ used'.ops = used.ops /\ used'.resets = used.resets /\ used'.rots = used.rots + 1
    BY <1>1, <2>1
  <2> QED BY <1>1, <1>2, <1>4, <2>2, PairConstants
<1> QED BY <1>3, <1>4

\* The air only grows, by frames that say what such frames say.
LEMMA FramesKept ==
  ASSUME FrameInv, NEW f, air' = air \/ air' = air \cup {f}, air' # air => FrameOK(f)'
  PROVE  FrameInv'
<1>1. \A x \in air : FrameOK(x)' BY DEF FrameInv, FrameOK
<1> QED BY <1>1 DEF FrameInv

\* A handshake of one gateway moves.
LEMMA SessionsKept ==
  ASSUME PairShapes, SessionInv, NEW g \in Gateways,
         \A h \in Gateways : h # g => gw'[h] = gw[h] /\ peers'[h] = peers[h],
         draws' \in [Devices -> Nat], \A d \in Devices : draws'[d] >= draws[d],
         SessionOK(g)'
  PROVE  SessionInv'
<1>1. ASSUME NEW h \in Gateways, h # g PROVE SessionOK(h)'
  <2>1. gw'[h] = gw[h] /\ peers'[h] = peers[h] BY <1>1
  <2>2. h \in Devices /\ draws[h] \in Nat /\ draws'[h] \in Nat /\ draws'[h] >= draws[h]
    BY DEF Devices, PairShapes
  <2>3. 1 .. draws[h] \subseteq 1 .. draws'[h] BY <2>2
  <2>4. SessionOK(h) BY DEF SessionInv
  <2> QED BY <2>1, <2>3, <2>4 DEF SessionOK
<1> QED BY <1>1 DEF SessionInv

LEMMA SpentKept ==
  ASSUME PairShapes, SpentInv, \A r \in air' : r \in air \/ r.t # "reveal",
         draws' \in [Devices -> Nat], \A d \in Devices : draws'[d] >= draws[d], NEW g \in Gateways,
         \A h \in Gateways : h # g => gw'[h] = gw[h],
         \A r \in air : r.t = "reveal" /\ r.src = g =>
            r.a # gw'[g].eph /\ (gw'[g].phase = "nonce" => r.a # gw'[g].hs)
  PROVE  SpentInv'
<1>1. ASSUME NEW r \in air, r.t = "reveal" PROVE SpentOK(r)'
  <2>1. /\ r.src \in Gateways /\ r.a \in {r.src} \X (1 .. draws[r.src])
        /\ r.a # gw[r.src].eph /\ (gw[r.src].phase = "nonce" => r.a # gw[r.src].hs)
    BY <1>1 DEF SpentInv, SpentOK
  <2>2. r.src \in Devices /\ draws[r.src] \in Nat /\ draws'[r.src] \in Nat /\ draws'[r.src] >= draws[r.src]
    BY <2>1 DEF Devices, PairShapes
  <2>3. 1 .. draws[r.src] \subseteq 1 .. draws'[r.src] BY <2>2
  <2>4. r.a \in {r.src} \X (1 .. draws'[r.src]) BY <2>1, <2>3
  <2>5. r.a # gw'[r.src].eph /\ (gw'[r.src].phase = "nonce" => r.a # gw'[r.src].hs) BY <1>1, <2>1
  <2> QED BY <2>1, <2>4, <2>5 DEF SpentOK
<1>2. \A r \in air' : SpentOK(r)' BY <1>1 DEF SpentOK
<1> QED BY <1>2 DEF SpentInv

\* Nobody new waits for a JOIN_CONFIRM, and no node moves.
LEMMA MeetKept ==
  ASSUME PairShapes, MeetInv, used'.resets \in Nat, used'.resets >= used.resets,
         \A f \in air' : f \in air \/ f.t # "confirm",
         \A h \in Gateways : gw'[h].phase = "confirm" =>
            gw[h].phase = "confirm" /\ gw'[h].joiner = gw[h].joiner /\ gw'[h].key = gw[h].key,
         node' = node
  PROVE  MeetInv'
<1>1. used.resets \in Nat BY DEF PairShapes
<1>2. ASSUME NEW f \in air, f.t = "confirm", NEW g \in Gateways, gw'[g].phase = "confirm", f.dst = g,
             f.src = gw'[g].joiner, f.b = gw'[g].key
      PROVE  \/ At(f.src)'.phase = "commit" /\ At(f.src)'.host = g /\ At(f.src)'.key = f.b
             \/ used'.resets > 0
  <2>1. gw[g].phase = "confirm" /\ f.src = gw[g].joiner /\ f.b = gw[g].key BY <1>2
  <2>2. \/ At(f.src).phase = "commit" /\ At(f.src).host = g /\ At(f.src).key = f.b
        \/ used.resets > 0
    BY <1>2, <2>1 DEF MeetInv, MeetOK
  <2> QED BY <1>1, <2>2 DEF At
<1>3. \A f \in air' : MeetOK(f)' BY <1>2 DEF MeetOK, At
<1> QED BY <1>3 DEF MeetInv

LEMMA KeysKept ==
  ASSUME KeyInv, UNCHANGED <<peers, buckets, joins, node>>
  PROVE  KeyInv'
  BY DEF KeyInv, Allowed

LEMMA NodesKept ==
  ASSUME NodeInv, UNCHANGED node
  PROVE  NodeInv'
  BY DEF NodeInv, NodeOK, At

LEMMA ServesKept ==
  ASSUME ServeInv, UNCHANGED <<buckets, peers>>
  PROVE  ServeInv'
  BY DEF ServeInv, ServeOK

\* What every step keeps of the draws and the bounds.
Grows ==
  /\ draws' \in [Devices -> Nat] /\ \A d \in Devices : draws'[d] >= draws[d] /\ draws'[d] <= MaxDraws[d]
  /\ used' \in [ops : Nat, resets : Nat, rots : Nat]
  /\ used'.ops >= used.ops /\ used'.resets >= used.resets
  /\ used'.ops <= MaxOps /\ used'.resets + used'.rots <= MaxMishaps

LEMMA GrowsIs ==
  ASSUME PairShapes, BoundInv,
         UNCHANGED draws \/ \E d \in Devices : CanDraw(d) /\ Drew(d),
         UNCHANGED used \/ Request \/ Mishap("resets") \/ Mishap("rots")
  PROVE  Grows
<1>1. /\ draws' \in [Devices -> Nat]
      /\ \A d \in Devices : draws'[d] >= draws[d] /\ draws'[d] <= MaxDraws[d]
  <2>1. CASE UNCHANGED draws BY <2>1, PairConstants DEF PairShapes, BoundInv
  <2>2. CASE \E d \in Devices : CanDraw(d) /\ Drew(d) BY <2>2, DrewIs
  <2> QED BY <2>1, <2>2
<1>2. used.ops \in Nat /\ used.resets \in Nat /\ used.rots \in Nat BY DEF PairShapes
<1>3. /\ used' \in [ops : Nat, resets : Nat, rots : Nat]
      /\ used'.ops >= used.ops /\ used'.resets >= used.resets
      /\ used'.ops <= MaxOps /\ used'.resets + used'.rots <= MaxMishaps
  <2>1. CASE UNCHANGED used BY <1>2, <2>1 DEF PairShapes, BoundInv
  <2>2. CASE Request BY <1>2, <2>2, RequestIs
  <2>3. CASE Mishap("resets") BY <1>2, <2>3, MishapIs
  <2>4. CASE Mishap("rots") BY <1>2, <2>4, MishapIs
  <2> QED BY <2>1, <2>2, <2>3, <2>4
<1> QED BY <1>1, <1>3 DEF Grows

\* No answer is given, and no request is opened.
LEMMA AnswersKept ==
  ASSUME PairShapes, AnswerInv, UNCHANGED <<answers, joins>>, Grows,
         \A h \in Gateways : gw'[h].phase # "closed" => gw[h].phase # "closed" /\ gw'[h].req = gw[h].req
  PROVE  AnswerInv'
<1>1. used.ops \in Nat /\ used'.ops \in Nat /\ used'.ops >= used.ops BY DEF PairShapes, Grows
<1>2. \A a \in answers : a.req \in Nat BY DEF PairShapes
<1>3. \A a \in answers' : a.req <= used'.ops BY <1>1, <1>2 DEF AnswerInv
<1>4. \A h \in Gateways : gw[h].req \in Nat BY GatewayTypes
<1>5. \A h \in Gateways : gw'[h].phase # "closed" => gw'[h].req <= used'.ops BY <1>1, <1>4 DEF AnswerInv
<1>6. WindowIsHonest'
  <2>1. WindowIsHonest BY DEF AnswerInv
  <2> QED BY <2>1 DEF WindowIsHonest
<1> QED BY <1>3, <1>5, <1>6 DEF AnswerInv

\* The request of a gateway gets its answer, and with it the window closes.
LEMMA AnswerGiven ==
  ASSUME PairShapes, AnswerInv, NEW g \in Gateways, NEW res \in Results, Resolve(g, res), Close(g), Grows,
         gw[g].phase # "closed",
         \A j \in joins' \ joins : j.g = g /\ j.req = gw[g].req /\ j.left >= 0 /\ res = "paired"
  PROVE  AnswerInv' /\ answers' \subseteq [g : Gateways, req : Nat, result : Results]
<1>1. used.ops \in Nat /\ used'.ops \in Nat /\ used'.ops >= used.ops BY DEF PairShapes, Grows
<1>2. PICK a0 : a0 = [g |-> g, req |-> gw[g].req, result |-> res]
  OBVIOUS
<1>3. a0.g = g /\ a0.req = gw[g].req /\ a0.result = res /\ answers' = answers \cup {a0} BY <1>2 DEF Resolve
<1>4. gw[g].req \in Nat /\ gw[g].req <= used.ops BY GatewayTypes DEF AnswerInv
<1>5. answers' \subseteq [g : Gateways, req : Nat, result : Results] BY <1>2, <1>3, <1>4 DEF PairShapes
<1>6. \A a \in answers : a.req \in Nat BY DEF PairShapes
<1>7. \A a \in answers' : a.req <= used'.ops BY <1>1, <1>3, <1>4, <1>6 DEF AnswerInv
<1>8. gw'[g].phase = "closed" /\ \A h \in Gateways : h # g => gw'[h] = gw[h]
  BY EmptyShapes, SessionSet DEF Close
<1>9. \A h \in Gateways : gw[h].req \in Nat BY GatewayTypes
<1>10. \A h \in Gateways : gw'[h].phase # "closed" => gw'[h].req <= used'.ops
  BY <1>1, <1>8, <1>9 DEF AnswerInv
<1>11. WindowIsHonest BY DEF AnswerInv
<1>12. \A a \in answers : ~(a.g = g /\ a.req = gw[g].req) BY <1>11 DEF WindowIsHonest
<1>13. \A a, b \in answers' : a.g = b.g /\ a.req = b.req => a = b BY <1>3, <1>11, <1>12 DEF WindowIsHonest
<1>14. \A h \in Gateways, a \in answers' : gw'[h].phase # "closed" => ~(a.g = h /\ a.req = gw'[h].req)
  BY <1>3, <1>8, <1>11 DEF WindowIsHonest
<1>15. ASSUME NEW j \in joins'
       PROVE  j.left >= 0 /\ [g |-> j.g, req |-> j.req, result |-> "paired"] \in answers'
  <2>1. CASE j \in joins BY <1>3, <1>11, <2>1 DEF WindowIsHonest
  <2>2. CASE j \notin joins BY <1>2, <1>3, <2>2
  <2> QED BY <2>1, <2>2
<1>16. WindowIsHonest' BY <1>13, <1>14, <1>15 DEF WindowIsHonest
<1> QED BY <1>5, <1>7, <1>10, <1>16 DEF AnswerInv

\* A gateway's session moves, and nothing but frames, draws and answers with it.
LEMMA GatewayMoves ==
  ASSUME PairInv, Grows, NEW g \in Gateways, NEW s \in Sessions, gw' = [gw EXCEPT ![g] = s],
         UNCHANGED <<buckets, peers, node, joins>>,
         NEW f, air' = air \/ air' = air \cup {f},
         air' # air => f.t \notin {"reveal", "confirm"} /\ FrameOK(f)',
         SessionOK(g)', s.phase # "confirm",
         \A r \in air : r.t = "reveal" /\ r.src = g => r.a # s.eph /\ (s.phase = "nonce" => r.a # s.hs),
         AnswerInv', answers' \subseteq [g : Gateways, req : Nat, result : Results]
  PROVE  PairInv'
<1> USE DEF PairInv
<1>1. gw' \in [Gateways -> Sessions] /\ gw'[g] = s /\ \A h \in Gateways : h # g => gw'[h] = gw[h]
  BY SessionSet
<1>2. PairShapes' BY <1>1 DEF PairShapes, Grows
<1>3. BoundInv' BY DEF BoundInv, Grows
<1>4. FrameInv' BY FramesKept
<1>5. draws' \in [Devices -> Nat] /\ \A d \in Devices : draws'[d] >= draws[d] BY DEF Grows
<1>6. SessionInv' BY <1>1, <1>5, SessionsKept
<1>7. \A r \in air' : r \in air \/ (r.t # "reveal" /\ r.t # "confirm")
  OBVIOUS
<1>8. SpentInv' BY <1>1, <1>5, <1>7, SpentKept
<1>9. used'.resets \in Nat /\ used'.resets >= used.resets BY DEF Grows
<1>10. MeetInv' BY <1>1, <1>7, <1>9, MeetKept
<1>11. KeyInv' /\ NodeInv' /\ ServeInv' BY KeysKept, NodesKept, ServesKept
<1> QED BY <1>2, <1>3, <1>4, <1>6, <1>8, <1>10, <1>11

-----------------------------------------------------------------------------
(***************************************************************************)
(* The gateway's steps                                                     *)
(***************************************************************************)

LEMMA DrawIsSome ==
  ASSUME NEW d, NEW S, NEW e \in {d} \X S
  PROVE  e # <<>>
  OBVIOUS

\* A nonce on the air was drawn before: a fresh one was never revealed.
LEMMA FreshDraw ==
  ASSUME PairShapes, SpentInv, NEW g \in Gateways, NEW r \in air, r.t = "reveal", r.src = g
  PROVE  r.a # Drawn(g) /\ r.a # <<>>
<1>1. r.a \in {g} \X (1 .. draws[g]) BY DEF SpentInv, SpentOK
<1>2. draws[g] \in Nat BY GatewayTypes
<1>3. r.a[2] \in 1 .. draws[g] /\ r.a # <<>> BY <1>1
<1>4. Drawn(g)[2] = draws[g] + 1 BY DEF Drawn
<1> QED BY <1>2, <1>3, <1>4

LEMMA PairingOpenKeeps ==
  ASSUME PairInv, NEW g \in Gateways, PairingOpen(g)
  PROVE  PairInv'
<1> USE DEF PairInv
<1>1. PICK s : s = [NoSession EXCEPT !.req = used.ops + 1, !.left = Window, !.phase = "listen", !.eph = Drawn(g)]
  OBVIOUS
<1>2. /\ gw[g].phase = "closed" /\ CanDraw(g) /\ Drew(g) /\ Request /\ gw' = [gw EXCEPT ![g] = s]
      /\ UNCHANGED <<air, buckets, peers, node, joins, answers>>
  BY <1>1 DEF PairingOpen
<1>3. g \in Devices /\ used.ops \in Nat /\ draws[g] \in Nat BY DEF Devices, PairShapes
<1>4. Grows BY <1>2, <1>3, GrowsIs
<1>5. /\ draws'[g] = draws[g] + 1 /\ Drawn(g) \in Ephs /\ Drawn(g) \in {g} \X (1 .. draws[g] + 1)
  BY <1>2, <1>3, DrewIs
<1>6. s.req = used.ops + 1 /\ s.left = Window /\ s.phase = "listen" /\ s.eph = Drawn(g)
  BY <1>1 DEF NoSession
<1>7. s \in Sessions
  <2>1. Window \in 0 .. Window /\ used.ops + 1 \in Nat BY <1>3, PairConstants
  <2> QED BY <1>1, <1>5, <2>1, EmptyShapes DEF Sessions
<1>8. gw'[g] = s /\ \A h \in Gateways : h # g => gw'[h] = gw[h] BY <1>2, <1>7, SessionSet
<1>9. SessionOK(g)' BY <1>5, <1>6, <1>8 DEF SessionOK
<1>10. \A r \in air : r.t = "reveal" /\ r.src = g => r.a # s.eph /\ (s.phase = "nonce" => r.a # s.hs)
  BY <1>6, FreshDraw
<1>11. AnswerInv'
  <2>1. used'.ops = used.ops + 1 BY <1>2, RequestIs
  <2>2. \A a \in answers : a.req \in Nat /\ a.req <= used.ops BY DEF PairShapes, AnswerInv
  <2>3. \A h \in Gateways : gw[h].req \in Nat BY GatewayTypes
  <2>4. \A h \in Gateways : gw'[h].phase # "closed" => gw'[h].req <= used'.ops
    BY <1>3, <1>6, <1>8, <2>1, <2>3 DEF AnswerInv
  <2>5. \A a \in answers' : a.req <= used'.ops BY <1>2, <1>3, <2>1, <2>2
  <2>6. \A a \in answers : a.req # s.req BY <1>3, <1>6, <2>2
  <2>7. WindowIsHonest BY DEF AnswerInv
  <2>8. \A h \in Gateways, a \in answers' : gw'[h].phase # "closed" => ~(a.g = h /\ a.req = gw'[h].req)
    BY <1>2, <1>8, <2>6, <2>7 DEF WindowIsHonest
  <2>9. WindowIsHonest' BY <1>2, <2>7, <2>8 DEF WindowIsHonest
  <2> QED BY <2>4, <2>5, <2>9 DEF AnswerInv
<1>12. answers' \subseteq [g : Gateways, req : Nat, result : Results] BY <1>2 DEF PairShapes
<1>13. air' = air BY <1>2
<1> QED BY <1>2, <1>4, <1>6, <1>7, <1>9, <1>10, <1>11, <1>12, <1>13, GatewayMoves

\* A window ends with its answer.
LEMMA ClosingKeeps ==
  ASSUME PairInv, NEW g \in Gateways, gw[g].phase # "closed", NEW res \in Results, Resolve(g, res), Close(g),
         Grows, UNCHANGED <<air, buckets, peers, node, joins>>
  PROVE  PairInv'
<1> USE DEF PairInv
<1>1. NoSession \in Sessions /\ NoSession.phase = "closed" /\ NoSession.eph = <<>> BY EmptyShapes
<1>2. gw' = [gw EXCEPT ![g] = NoSession] BY DEF Close
<1>3. gw'[g] = NoSession BY <1>1, <1>2, SessionSet
<1>4. SessionOK(g)' BY <1>1, <1>3 DEF SessionOK
<1>5. \A r \in air : r.t = "reveal" /\ r.src = g =>
         r.a # NoSession.eph /\ (NoSession.phase = "nonce" => r.a # NoSession.hs)
  BY <1>1, FreshDraw
<1>6. AnswerInv' /\ answers' \subseteq [g : Gateways, req : Nat, result : Results] BY AnswerGiven
<1>7. air' = air
  OBVIOUS
<1> QED BY <1>1, <1>2, <1>4, <1>5, <1>6, <1>7, GatewayMoves

LEMMA PairingCancelKeeps ==
  ASSUME PairInv, NEW g \in Gateways, PairingCancel(g)
  PROVE  PairInv'
<1>1. Grows BY GrowsIs DEF PairInv, PairingCancel
<1>2. /\ gw[g].phase # "closed" /\ Resolve(g, "timeout") /\ Close(g)
      /\ UNCHANGED <<air, buckets, peers, node, joins>>
  BY DEF PairingCancel
<1>3. "timeout" \in Results BY DEF Results
<1> QED BY <1>1, <1>2, <1>3, ClosingKeeps

LEMMA CloseWindowKeeps ==
  ASSUME PairInv, NEW g \in Gateways, CloseWindow(g)
  PROVE  PairInv'
<1>1. Grows BY GrowsIs DEF PairInv, CloseWindow
<1>2. Resolve(g, "full") \/ Resolve(g, "timeout") BY DEF CloseWindow
<1>3. PICK res \in Results : Resolve(g, res)
  <2>1. "full" \in Results /\ "timeout" \in Results BY DEF Results
  <2> QED BY <1>2, <2>1
<1> QED BY <1>1, <1>3, ClosingKeeps DEF CloseWindow

\* Back to listening, some of the window gone.
LEMMA ListeningIs ==
  ASSUME NEW s \in Sessions, NEW left \in 0 .. Window
  PROVE  /\ [Listening(s) EXCEPT !.left = left] \in Sessions
         /\ [Listening(s) EXCEPT !.left = left].phase = "listen"
         /\ [Listening(s) EXCEPT !.left = left].eph = s.eph
         /\ [Listening(s) EXCEPT !.left = left].req = s.req
<1>1. PICK s1 : s1 = [s EXCEPT !.phase = "listen"]
  OBVIOUS
<1>2. s1 \in Sessions /\ s1.phase = "listen" /\ s1.eph = s.eph /\ s1.req = s.req BY <1>1 DEF Sessions
<1>3. PICK s2 : s2 = [s1 EXCEPT !.hs = <<>>, !.joiner = NoKey, !.en = <<>>, !.key = NoKey]
  OBVIOUS
<1>4. s2 \in Sessions /\ s2.phase = "listen" /\ s2.eph = s.eph /\ s2.req = s.req
  BY <1>2, <1>3 DEF Sessions, Ephs
<1>5. Listening(s) = s2 BY <1>1, <1>3 DEF Listening
<1>6. PICK s3 : s3 = [s2 EXCEPT !.left = left]
  OBVIOUS
<1>7. s3 \in Sessions /\ s3.phase = "listen" /\ s3.eph = s.eph /\ s3.req = s.req BY <1>4, <1>6 DEF Sessions
<1> QED BY <1>5, <1>6, <1>7

\* A handshake is given up, or time passes.
LEMMA GivenUpKeeps ==
  ASSUME PairInv, NEW g \in Gateways, gw[g].phase # "closed",
         NEW s \in Sessions, s.phase = "listen", s.eph = gw[g].eph, s.req = gw[g].req,
         gw' = [gw EXCEPT ![g] = s],
         UNCHANGED <<air, buckets, peers, node, draws, joins, answers, used>>
  PROVE  PairInv'
<1> USE DEF PairInv
<1>1. Grows BY GrowsIs
<1>2. gw'[g] = s /\ \A h \in Gateways : h # g => gw'[h] = gw[h] BY SessionSet
<1>3. SessionOK(g) BY DEF SessionInv
<1>4. SessionOK(g)' BY <1>2, <1>3 DEF SessionOK
<1>5. \A r \in air : r.t = "reveal" /\ r.src = g => r.a # s.eph /\ (s.phase = "nonce" => r.a # s.hs)
  BY DEF SpentInv, SpentOK
<1>6. AnswerInv' BY <1>1, <1>2, AnswersKept
<1>7. answers' \subseteq [g : Gateways, req : Nat, result : Results] /\ air' = air BY DEF PairShapes
<1> QED BY <1>1, <1>4, <1>5, <1>6, <1>7, GatewayMoves

LEMMA GwWaitKeeps ==
  ASSUME PairInv, NEW g \in Gateways, GwWait(g)
  PROVE  PairInv'
<1>1. gw[g] \in Sessions /\ gw[g].left \in 0 .. Window /\ gw[g].phase \in {"closed", "listen", "nonce", "confirm"}
  BY GatewayTypes DEF PairInv
<1>2. SessionOK(g) BY DEF PairInv, SessionInv
<1>3. gw[g].phase # "closed" /\ gw[g].left > 0 BY <1>1, <1>2, PairConstants DEF GwWait, SessionOK
<1>4. gw[g].left - 1 \in 0 .. Window BY <1>1, <1>3, PairConstants
<1>5. PICK s : s = [Listening(gw[g]) EXCEPT !.left = gw[g].left - 1]
  OBVIOUS
<1>6. s \in Sessions /\ s.phase = "listen" /\ s.eph = gw[g].eph /\ s.req = gw[g].req
  BY <1>1, <1>4, <1>5, ListeningIs
<1>7. Listening(gw[g]).left = gw[g].left BY <1>1 DEF Listening, Sessions
<1>8. gw' = [gw EXCEPT ![g] = s]
  <2>1. gw' = [gw EXCEPT ![g] = [Listening(gw[g]) EXCEPT !.left = Listening(gw[g]).left - 1]] BY DEF GwWait
  <2> QED BY <1>5, <1>7, <2>1
<1> QED BY <1>3, <1>6, <1>8, GivenUpKeeps DEF GwWait

LEMMA ReadyKeeps ==
  ASSUME PairInv, NEW g \in Gateways, Ready(g)
  PROVE  PairInv'
<1> USE DEF PairInv
<1>1. PICK s : s = [gw[g] EXCEPT !.eph = Drawn(g)]
  OBVIOUS
<1>2. /\ gw[g].phase = "listen" /\ CanDraw(g) /\ Drew(g)
      /\ UNCHANGED <<air, buckets, peers, node, joins, answers, used>>
  BY DEF Ready
<1>3. gw[g] \in Sessions /\ g \in Devices /\ draws[g] \in Nat BY GatewayTypes
<1>4. /\ draws'[g] = draws[g] + 1 /\ Drawn(g) \in Ephs /\ Drawn(g) \in {g} \X (1 .. draws[g] + 1)
  BY <1>2, <1>3, DrewIs
<1>5. s \in Sessions /\ s.phase = "listen" /\ s.eph = Drawn(g) /\ s.req = gw[g].req
  BY <1>1, <1>2, <1>3, <1>4 DEF Sessions
<1>6. gw' = [gw EXCEPT ![g] = s] BY <1>1 DEF Ready
<1>7. Grows BY <1>2, <1>3, GrowsIs
<1>8. gw'[g] = s /\ \A h \in Gateways : h # g => gw'[h] = gw[h] BY <1>5, <1>6, SessionSet
<1>9. SessionOK(g)' BY <1>4, <1>5, <1>8 DEF SessionOK
<1>10. \A r \in air : r.t = "reveal" /\ r.src = g => r.a # s.eph /\ (s.phase = "nonce" => r.a # s.hs)
  BY <1>5, FreshDraw
<1>11. AnswerInv' BY <1>2, <1>5, <1>7, <1>8, AnswersKept
<1>12. answers' \subseteq [g : Gateways, req : Nat, result : Results] /\ air' = air BY <1>2 DEF PairShapes
<1> QED BY <1>2, <1>5, <1>6, <1>7, <1>9, <1>10, <1>11, <1>12, GatewayMoves

LEMMA AnswerReqKeeps ==
  ASSUME PairInv, NEW g \in Gateways, NEW f \in air, NEW ok \in BOOLEAN, AnswerReq(g, f, ok)
  PROVE  PairInv'
<1> USE DEF PairInv
<1>1. /\ gw[g].phase = "listen" /\ gw[g].left > 0 /\ gw[g].eph # <<>> /\ f.t = "req"
      /\ peers[g][f.src] = NoKey /\ gw[g].left >= 2
      /\ UNCHANGED <<buckets, peers, node, draws, joins, answers, used>>
  BY DEF AnswerReq, Admissible, HandshakeFits, HandshakeWaits
<1>2. f.src \in Nodes /\ f.a \in Ephs BY <1>1 DEF FrameInv, FrameOK
<1>3. PICK x : x = Frame("resp", g, f.src, gw[g].eph, Commitment(gw[g].eph, f.a, gw[g].eph, f.src, g))
  OBVIOUS
<1>4. gw[g] \in Sessions /\ gw[g].eph \in Ephs BY GatewayTypes
<1>5. air' = (IF ok THEN air \cup {x} ELSE air) /\ x.t = "resp" BY <1>3 DEF AnswerReq, Sends, Frame
<1>6. FrameOK(x)' BY <1>2, <1>3, <1>4 DEF FrameOK, Frame, Commitment, Commits
<1>7. PICK s1 : s1 = [gw[g] EXCEPT !.phase = "nonce", !.hs = gw[g].eph]
  OBVIOUS
<1>8. s1 \in Sessions /\ s1.phase = "nonce" /\ s1.hs = gw[g].eph /\ s1.req = gw[g].req /\ s1.left = gw[g].left
  BY <1>4, <1>7 DEF Sessions
<1>9. PICK s2 : s2 = [s1 EXCEPT !.eph = <<>>, !.joiner = f.src]
  OBVIOUS
<1>10. /\ s2 \in Sessions /\ s2.phase = "nonce" /\ s2.hs = gw[g].eph /\ s2.req = gw[g].req
       /\ s2.left = gw[g].left /\ s2.eph = <<>> /\ s2.joiner = f.src
  BY <1>2, <1>8, <1>9 DEF Sessions, Ephs
<1>11. PICK s3 : s3 = [s2 EXCEPT !.en = f.a]
  OBVIOUS
<1>12. /\ s3 \in Sessions /\ s3.phase = "nonce" /\ s3.hs = gw[g].eph /\ s3.req = gw[g].req
       /\ s3.left = gw[g].left /\ s3.eph = <<>> /\ s3.joiner = f.src
  BY <1>2, <1>10, <1>11 DEF Sessions
<1>13. s3 = [gw[g] EXCEPT !.phase = "nonce", !.hs = gw[g].eph, !.eph = <<>>, !.joiner = f.src, !.en = f.a]
  BY <1>4, <1>7, <1>9, <1>11 DEF Sessions
<1>14. PICK s0 : s0 = [gw[g] EXCEPT !.eph = <<>>]
  OBVIOUS
<1>15. s0 \in Sessions /\ s0.phase = "listen" /\ s0.req = gw[g].req /\ s0.eph = <<>>
  BY <1>1, <1>4, <1>14 DEF Sessions, Ephs
<1>16. PICK s \in Sessions :
         /\ gw' = [gw EXCEPT ![g] = s]
         /\ s.req = gw[g].req /\ s.eph = <<>> /\ s.phase \in {"listen", "nonce"}
         /\ s.phase = "nonce" => s.hs = gw[g].eph /\ s.left = gw[g].left /\ s.joiner = f.src
  <2>1. gw' = [gw EXCEPT ![g] = IF ok THEN s3 ELSE s0] BY <1>13, <1>14 DEF AnswerReq
  <2> QED BY <1>12, <1>15, <2>1
<1>17. gw'[g] = s /\ \A h \in Gateways : h # g => gw'[h] = gw[h] BY <1>16, SessionSet
<1>18. Grows BY <1>1, GrowsIs
<1>19. gw[g].eph \in {g} \X (1 .. draws[g]) BY <1>1 DEF SessionInv, SessionOK
<1>20. SessionOK(g)' BY <1>1, <1>2, <1>16, <1>17, <1>19 DEF SessionOK
<1>21. \A r \in air : r.t = "reveal" /\ r.src = g => r.a # s.eph /\ (s.phase = "nonce" => r.a # s.hs)
  BY <1>16, FreshDraw DEF SpentInv, SpentOK
<1>22. AnswerInv' BY <1>1, <1>16, <1>17, <1>18, AnswersKept
<1>23. answers' \subseteq [g : Gateways, req : Nat, result : Results] BY <1>1 DEF PairShapes
<1>24. air' = air \/ air' = air \cup {x} BY <1>5
<1>25. air' # air => x.t \notin {"reveal", "confirm"} /\ FrameOK(x)' BY <1>5, <1>6
<1> QED BY <1>1, <1>16, <1>18, <1>20, <1>21, <1>22, <1>23, <1>24, <1>25, GatewayMoves

\* No JOIN_CONFIRM is on the air under a key whose nonce is still to be revealed.
LEMMA NoEarlyConfirm ==
  ASSUME PairInv, NEW g \in Gateways, gw[g].phase = "nonce",
         NEW key, key[7] = gw[g].hs, NEW f \in air, f.t = "confirm", f.dst = g, f.b = key
  PROVE  FALSE
<1> USE DEF PairInv
<1>1. FrameOK(f) BY DEF FrameInv
<1>2. PICK r \in air : r.t = "reveal" /\ r.src = g /\ r.b = Tag("gw", key) BY <1>1 DEF FrameOK
<1>3. r.b[2] = key BY <1>2 DEF Tag
<1>4. FrameOK(r) BY DEF FrameInv
<1>5. r.b[2][7] = r.a BY <1>2, <1>4 DEF FrameOK
<1>6. r.a # gw[g].hs BY <1>2 DEF SpentInv, SpentOK
<1> QED BY <1>3, <1>5, <1>6

\* The JOIN_REVEAL goes out.
LEMMA NonceRevealed ==
  ASSUME PairInv, NEW g \in Gateways, gw[g].phase = "nonce", NEW key \in OtaKeys, key[7] = gw[g].hs,
         NEW x, x.t = "reveal", x.src = g, x.a = gw[g].hs, x.b = Tag("gw", key), air' = air \cup {x},
         NEW s \in Sessions, gw' = [gw EXCEPT ![g] = s], s.phase = "confirm", s.key = key,
         s.eph = gw[g].eph, s.req = gw[g].req, s.joiner = gw[g].joiner, s.left >= 1,
         UNCHANGED <<buckets, peers, node, draws, joins, answers, used>>
  PROVE  PairInv'
<1> USE DEF PairInv
<1>1. gw' \in [Gateways -> Sessions] /\ gw'[g] = s /\ \A h \in Gateways : h # g => gw'[h] = gw[h]
  BY SessionSet
<1>2. Grows BY GrowsIs
<1>3. PairShapes' /\ BoundInv' BY <1>1 DEF PairShapes, BoundInv
<1>4. SessionOK(g) BY DEF SessionInv
<1>5. gw[g].hs \in Ephs BY GatewayTypes
<1>6. FrameInv'
  <2>1. x.b[2] = key BY DEF Tag
  <2>2. FrameOK(x)' BY <1>5, <2>1 DEF FrameOK
  <2> QED BY <2>2, FramesKept
<1>7. draws' \in [Devices -> Nat] /\ \A d \in Devices : draws'[d] >= draws[d] BY <1>2 DEF Grows
<1>8. SessionInv'
  <2>1. SessionOK(g)' BY <1>1, <1>4 DEF SessionOK
  <2> QED BY <1>1, <1>7, <2>1, SessionsKept
<1>9. SpentInv'
  <2>1. ASSUME NEW r \in air PROVE SpentOK(r)'
    <3>1. SpentOK(r) BY DEF SpentInv
    <3> QED BY <1>1, <3>1 DEF SpentOK
  <2>2. gw[g].hs \in {g} \X (1 .. draws[g]) /\ gw[g].eph = <<>> BY <1>4 DEF SessionOK
  <2>3. gw[g].hs # <<>> BY <2>2, DrawIsSome
  <2>4. SpentOK(x)' BY <1>1, <2>2, <2>3 DEF SpentOK
  <2> QED BY <2>1, <2>4 DEF SpentInv
<1>10. MeetInv'
  <2>1. ASSUME NEW f \in air', f.t = "confirm", NEW h \in Gateways, gw'[h].phase = "confirm", f.dst = h,
               f.src = gw'[h].joiner, f.b = gw'[h].key
        PROVE  \/ At(f.src)'.phase = "commit" /\ At(f.src)'.host = h /\ At(f.src)'.key = f.b
               \/ used'.resets > 0
    <3>1. f \in air BY <2>1
    <3>2. h # g BY <1>1, <2>1, <3>1, NoEarlyConfirm
    <3> QED BY <1>1, <2>1, <3>1, <3>2 DEF MeetInv, MeetOK, At
  <2>2. \A f \in air' : MeetOK(f)' BY <2>1 DEF MeetOK, At
  <2> QED BY <2>2 DEF MeetInv
<1>11. KeyInv' /\ NodeInv' /\ ServeInv' BY KeysKept, NodesKept, ServesKept
<1>12. AnswerInv' BY <1>1, <1>2, AnswersKept
<1> QED BY <1>3, <1>6, <1>8, <1>9, <1>10, <1>11, <1>12

LEMMA TakeNonceKeeps ==
  ASSUME PairInv, NEW g \in Gateways, NEW f \in air, NEW ok \in BOOLEAN, NEW late \in 0 .. 1,
         TakeNonce(g, f, ok, late)
  PROVE  PairInv'
<1>1. /\ gw[g].phase = "nonce" /\ f.t = "nonce" /\ f.src = gw[g].joiner
      /\ UNCHANGED <<buckets, peers, node, draws, joins, answers, used>>
  BY DEF TakeNonce
<1>2. f.a \in Ephs BY <1>1 DEF PairInv, FrameInv, FrameOK
<1>3. gw[g] \in Sessions /\ gw[g].left \in 0 .. Window /\ gw[g].en \in Ephs /\ gw[g].hs \in Ephs
  BY GatewayTypes DEF PairInv
<1>4. gw[g].left >= 2 /\ gw[g].joiner \in Nodes BY <1>1 DEF PairInv, SessionInv, SessionOK
<1>5. gw[g].left - late \in 0 .. Window /\ gw[g].left - late >= 1 BY <1>3, <1>4, PairConstants
<1>6. PICK key : key = LinkKey(gw[g].joiner, g, gw[g].en, gw[g].hs, f.a, gw[g].hs)
  OBVIOUS
<1>7. key \in OtaKeys /\ key[7] = gw[g].hs BY <1>2, <1>3, <1>4, <1>6 DEF LinkKey, OtaKeys
<1>8. PICK s1 : s1 = [gw[g] EXCEPT !.left = gw[g].left - late]
  OBVIOUS
<1>9. /\ s1 \in Sessions /\ s1.left = gw[g].left - late /\ s1.eph = gw[g].eph /\ s1.req = gw[g].req
      /\ s1.joiner = gw[g].joiner
  BY <1>3, <1>5, <1>8 DEF Sessions
<1>10. CASE ok
  <2>1. PICK x : x = Frame("reveal", g, gw[g].joiner, gw[g].hs, Tag("gw", key))
    OBVIOUS
  <2>2. x.t = "reveal" /\ x.src = g /\ x.a = gw[g].hs /\ x.b = Tag("gw", key) BY <2>1 DEF Frame
  <2>3. air' = air \cup {x} BY <1>6, <1>10, <2>1 DEF TakeNonce, Sends
  <2>4. PICK s : s = [s1 EXCEPT !.phase = "confirm", !.key = key]
    OBVIOUS
  <2>5. /\ s \in Sessions /\ s.phase = "confirm" /\ s.key = key /\ s.left = gw[g].left - late
        /\ s.eph = gw[g].eph /\ s.req = gw[g].req /\ s.joiner = gw[g].joiner
    BY <1>7, <1>9, <2>4 DEF Sessions
  <2>6. gw' = [gw EXCEPT ![g] = s] BY <1>6, <1>8, <1>10, <2>4 DEF TakeNonce
  <2>7. s.left >= 1 BY <1>5, <2>5
  <2> QED BY <1>1, <1>7, <2>2, <2>3, <2>5, <2>6, <2>7, NonceRevealed
<1>11. CASE ~ok
  <2>1. air' = air BY <1>11 DEF TakeNonce, Sends
  <2>2. PICK s : s = Listening(s1)
    OBVIOUS
  <2>3. gw' = [gw EXCEPT ![g] = s] BY <1>8, <1>11, <2>2 DEF TakeNonce
  <2>4. s = [Listening(s1) EXCEPT !.left = s1.left] BY <1>9, <2>2 DEF Listening, Sessions
  <2>5. s \in Sessions /\ s.phase = "listen" /\ s.eph = gw[g].eph /\ s.req = gw[g].req
    BY <1>5, <1>9, <2>4, ListeningIs
  <2> QED BY <1>1, <2>1, <2>3, <2>5, GivenUpKeeps
<1> QED BY <1>10, <1>11

AllowedNext(g, n, k) == k = CableKey(g, n) \/ \E j \in joins' : j.g = g /\ j.n = n /\ j.key = k

\* A bucket holds what it held before and perhaps this record.
Brings(bs, b2, rec) ==
  \A j \in BucketIds : \A l \in DOMAIN b2[j].recs :
    b2[j].recs[l] = rec \/ \E m \in DOMAIN bs[j].recs : b2[j].recs[l] = bs[j].recs[m]

Finds(bs, n, key) == Find(bs, n) = key

\* With a record written the keys that are held stay the keys of this pair of devices.
LEMMA KeysStored ==
  ASSUME PairInv, NEW g \in Gateways, NEW n \in Nodes, NEW key, joins \subseteq joins',
         AllowedNext(g, n, key), \A h \in Gateways : h # g => buckets'[h] = buckets[h] /\ peers'[h] = peers[h],
         Brings(buckets[g], buckets'[g], [addr |-> n, key |-> key]),
         \A m \in Nodes : peers'[g][m] \in {NoKey, peers[g][m]} \/ (m = n /\ peers'[g][m] = key),
         UNCHANGED node
  PROVE  KeyInv'
<1> USE DEF PairInv
<1>1. \A h, m, k : Allowed(h, m, k) => AllowedNext(h, m, k) BY DEF Allowed, AllowedNext
<1>2. \A h \in Gateways, m \in Nodes : peers'[h][m] = NoKey \/ AllowedNext(h, m, peers'[h][m])
  <2>1. \A h \in Gateways, m \in Nodes : peers[h][m] = NoKey \/ Allowed(h, m, peers[h][m]) BY DEF KeyInv
  <2>2. ASSUME NEW h \in Gateways, NEW m \in Nodes, h # g
        PROVE  peers'[h][m] = NoKey \/ AllowedNext(h, m, peers'[h][m])
    <3>1. peers'[h][m] = peers[h][m] BY <2>2
    <3> QED BY <1>1, <2>1, <3>1
  <2>3. ASSUME NEW m \in Nodes
        PROVE  peers'[g][m] = NoKey \/ AllowedNext(g, m, peers'[g][m])
    <3>1. CASE peers'[g][m] \in {NoKey, peers[g][m]} BY <1>1, <2>1, <3>1
    <3>2. CASE m = n /\ peers'[g][m] = key BY <3>2
    <3> QED BY <3>1, <3>2
  <2> QED BY <2>2, <2>3
<1>3. \A h \in Gateways, i \in BucketIds : \A k \in DOMAIN buckets'[h][i].recs :
        AllowedNext(h, buckets'[h][i].recs[k].addr, buckets'[h][i].recs[k].key)
  <2>1. ASSUME NEW h \in Gateways, NEW i \in BucketIds, NEW k \in DOMAIN buckets'[h][i].recs
        PROVE  AllowedNext(h, buckets'[h][i].recs[k].addr, buckets'[h][i].recs[k].key)
    <3>1. CASE h # g
      <4>1. buckets'[h] = buckets[h] BY <3>1
      <4>2. Allowed(h, buckets[h][i].recs[k].addr, buckets[h][i].recs[k].key) BY <2>1, <4>1 DEF KeyInv
      <4> QED BY <1>1, <4>1, <4>2
    <3>2. CASE h = g
      <4>1. k \in DOMAIN buckets'[g][i].recs BY <2>1, <3>2
      <4>2. CASE buckets'[g][i].recs[k] = [addr |-> n, key |-> key] BY <3>2, <4>2
      <4>3. CASE \E m \in DOMAIN buckets[g][i].recs : buckets'[g][i].recs[k] = buckets[g][i].recs[m]
        <5>1. PICK m \in DOMAIN buckets[g][i].recs : buckets'[g][i].recs[k] = buckets[g][i].recs[m] BY <4>3
        <5>2. Allowed(g, buckets[g][i].recs[m].addr, buckets[g][i].recs[m].key) BY DEF KeyInv
        <5> QED BY <1>1, <3>2, <5>1, <5>2
      <4> QED BY <4>1, <4>2, <4>3 DEF Brings
    <3> QED BY <3>1, <3>2
  <2> QED BY <2>1
<1>4. \A m \in Nodes : \A rec \in {node'[m].cur, node'[m].stored} :
        rec = NoPairing \/ AllowedNext(rec.gw, m, rec.key)
  <2>1. \A m \in Nodes : \A rec \in {node[m].cur, node[m].stored} : rec = NoPairing \/ Allowed(rec.gw, m, rec.key)
    BY DEF KeyInv
  <2> QED BY <1>1, <2>1
<1> QED BY <1>2, <1>3, <1>4 DEF KeyInv, Allowed, AllowedNext

\* A record is written and its peer installed: with every bucket readable there is room
\* for it in the table whenever there was room for it in the registry.
LEMMA PeerInstalled ==
  ASSUME PairInv, NEW g \in Gateways, NEW n \in Nodes, NEW key \in PairKeys, AddPeer(g, n, key),
         NEW b, buckets' = [buckets EXCEPT ![g] = b], WroteOK(buckets[g], b, n), Finds(b, n, key),
         Find(buckets[g], n) = NoKey => Count(buckets[g]) < Capacity
  PROVE  /\ ServeOK(g)'
         /\ buckets' \in [Gateways -> BucketShapes] /\ buckets'[g] = b
         /\ peers' \in [Gateways -> [Nodes -> PairKeys \cup {NoKey}]]
         /\ \A h \in Gateways : h # g => buckets'[h] = buckets[h] /\ peers'[h] = peers[h]
         /\ \A m \in Nodes : peers'[g][m] = peers[g][m] \/ (m = n /\ peers'[g][m] = key)
<1> USE DEF PairInv
<1>1. buckets \in [Gateways -> BucketShapes] /\ b \in BucketShapes BY DEF PairShapes, WroteOK, RegistryOK
<1>2. /\ buckets' \in [Gateways -> BucketShapes] /\ buckets'[g] = b
      /\ \A h \in Gateways : h # g => buckets'[h] = buckets[h]
  BY <1>1
<1>3. peers \in [Gateways -> [Nodes -> PairKeys \cup {NoKey}]] /\ peers[g] \in [Nodes -> PairKeys \cup {NoKey}]
  BY DEF PairShapes
<1>4. PICK table : table = [peers[g] EXCEPT ![n] = key]
  OBVIOUS
<1>5. /\ table \in [Nodes -> PairKeys \cup {NoKey}] /\ table[n] = key
      /\ \A m \in Nodes : m # n => table[m] = peers[g][m]
  BY <1>3, <1>4
<1>6. \/ peers' = [peers EXCEPT ![g] = table]
      \/ /\ peers' = peers /\ peers[g][n] = NoKey
         /\ ~(Cardinality({m \in Nodes : peers[g][m] # NoKey}) < Capacity)
  BY <1>4 DEF AddPeer
<1>7. /\ peers' \in [Gateways -> [Nodes -> PairKeys \cup {NoKey}]]
      /\ \A h \in Gateways : h # g => peers'[h] = peers[h]
      /\ \A m \in Nodes : peers'[g][m] = peers[g][m] \/ (m = n /\ peers'[g][m] = key)
  BY <1>3, <1>5, <1>6
<1>8. RegistryOK(buckets[g]) /\ ServeOK(g) BY DEF ServeInv, ServeOK
<1>9. Readable(b) <=> Readable(buckets[g]) BY DEF WroteOK, Readable
<1>10. ASSUME NEW m \in Nodes
       PROVE  \/ Find(b, m) = peers'[g][m]
              \/ ~Readable(b) /\ NoKey \in {Find(b, m), peers'[g][m]}
  <2>1. CASE m # n
    <3>1. Find(b, m) = Find(buckets[g], m) /\ peers'[g][m] = peers[g][m] BY <1>7, <2>1 DEF WroteOK
    <3>2. \/ Find(buckets[g], m) = peers[g][m]
          \/ ~Readable(buckets[g]) /\ NoKey \in {Find(buckets[g], m), peers[g][m]}
      BY <1>8 DEF ServeOK
    <3> QED BY <1>9, <3>1, <3>2
  <2>2. CASE m = n /\ peers' = [peers EXCEPT ![g] = table] BY <1>3, <1>5, <2>2 DEF Finds
  <2>3. CASE /\ m = n /\ peers' = peers /\ peers[g][n] = NoKey
             /\ ~(Cardinality({x \in Nodes : peers[g][x] # NoKey}) < Capacity)
    <3>1. ASSUME Readable(buckets[g]) PROVE FALSE
      <4>1. \A x \in Nodes : Find(buckets[g], x) = peers[g][x] BY <1>8, <3>1 DEF ServeOK
      <4>2. /\ Cardinality({x \in Nodes : peers[g][x] # NoKey}) <= Count(buckets[g])
            /\ Cardinality({x \in Nodes : peers[g][x] # NoKey}) \in Nat
        BY <1>8, <4>1, InstalledBound
      <4>3. Count(buckets[g]) < Capacity /\ Count(buckets[g]) \in Nat BY <2>3, <4>1, PlacesFinite
      <4> QED BY <2>3, <4>2, <4>3, RegConstants
    <3>2. ~Readable(b) BY <1>9, <3>1
    <3> QED BY <2>3, <3>2
  <2> QED BY <1>6, <2>1, <2>2, <2>3
<1>11. ServeOK(g)'
  <2>1. RegistryOK(b) BY DEF WroteOK
  <2>2. /\ RegistryOK(buckets'[g])
        /\ \A m \in Nodes : \/ Find(buckets'[g], m) = peers'[g][m]
                            \/ ~Readable(buckets'[g]) /\ NoKey \in {Find(buckets'[g], m), peers'[g][m]}
    BY <1>2, <1>10, <2>1
  <2> QED BY <2>2 DEF ServeOK
<1> QED BY <1>2, <1>7, <1>11

\* A step of a gateway that touches its registry or its peer table.
LEMMA RegistryMoves ==
  ASSUME PairInv, Grows, NEW g \in Gateways, UNCHANGED <<air, node>>,
         \/ gw' = gw /\ (peers' = peers \/ gw[g].phase \in {"closed", "listen"})
         \/ gw' = [gw EXCEPT ![g] = NoSession],
         buckets' \in [Gateways -> BucketShapes],
         peers' \in [Gateways -> [Nodes -> PairKeys \cup {NoKey}]],
         \A h \in Gateways : h # g => buckets'[h] = buckets[h] /\ peers'[h] = peers[h],
         ServeOK(g)', KeyInv', AnswerInv',
         joins' \subseteq [g : Gateways, req : Nat, n : Nodes, key : OtaKeys, left : Nat],
         answers' \subseteq [g : Gateways, req : Nat, result : Results]
  PROVE  PairInv'
<1> USE DEF PairInv
<1>1. NoSession \in Sessions /\ NoSession.phase = "closed" /\ NoSession.eph = <<>> BY EmptyShapes
<1>2. /\ gw' \in [Gateways -> Sessions] /\ \A h \in Gateways : h # g => gw'[h] = gw[h]
      /\ gw'[g] = NoSession \/
           (gw'[g] = gw[g] /\ (peers' = peers \/ gw[g].phase \in {"closed", "listen"}))
  <2>1. CASE gw' = [gw EXCEPT ![g] = NoSession] BY <1>1, <2>1, SessionSet
  <2>2. CASE gw' = gw /\ (peers' = peers \/ gw[g].phase \in {"closed", "listen"}) BY <2>2 DEF PairShapes
  <2> QED BY <2>1, <2>2
<1>3. PairShapes' /\ BoundInv' BY <1>2 DEF PairShapes, BoundInv, Grows
<1>4. FrameInv' BY DEF FrameInv, FrameOK
<1>5. draws' \in [Devices -> Nat] /\ \A d \in Devices : draws'[d] >= draws[d] BY DEF Grows
<1>6. g \in Devices /\ draws[g] \in Nat /\ draws'[g] \in Nat BY <1>5 DEF Devices, PairShapes
<1>7. 1 .. draws[g] \subseteq 1 .. draws'[g] BY <1>5, <1>6
<1>8. SessionOK(g)'
  <2>1. SessionOK(g) BY DEF SessionInv
  <2>2. CASE gw'[g] = NoSession BY <1>1, <2>2 DEF SessionOK
  <2>3. CASE gw'[g] = gw[g] /\ peers' = peers BY <1>7, <2>1, <2>3 DEF SessionOK
  <2>4. CASE gw'[g] = gw[g] /\ gw[g].phase \in {"closed", "listen"} BY <1>7, <2>1, <2>4 DEF SessionOK
  <2> QED BY <1>2, <2>2, <2>3, <2>4
<1>9. SessionInv' BY <1>2, <1>5, <1>8, SessionsKept
<1>10. \A r \in air : r.t = "reveal" /\ r.src = g =>
         r.a # gw'[g].eph /\ (gw'[g].phase = "nonce" => r.a # gw'[g].hs)
  BY <1>1, <1>2, FreshDraw DEF SpentInv, SpentOK
<1>11. SpentInv' BY <1>2, <1>5, <1>10, SpentKept
<1>12. used'.resets \in Nat /\ used'.resets >= used.resets BY DEF Grows
<1>13. MeetInv' BY <1>1, <1>2, <1>12, MeetKept
<1>14. NodeInv' BY NodesKept
<1>15. ServeInv'
  <2>1. ASSUME NEW h \in Gateways, h # g PROVE ServeOK(h)'
    <3>1. buckets'[h] = buckets[h] /\ peers'[h] = peers[h] BY <2>1
    <3>2. ServeOK(h) BY DEF ServeInv
    <3> QED BY <3>1, <3>2 DEF ServeOK
  <2> QED BY <2>1 DEF ServeInv
<1> QED BY <1>3, <1>4, <1>9, <1>11, <1>13, <1>14, <1>15

\* Only the counts of the model move.
LEMMA QuietKeeps ==
  ASSUME PairInv, Grows, UNCHANGED <<air, gw, buckets, peers, node, joins, answers>>
  PROVE  PairInv'
<1> USE DEF PairInv
<1>1. PairShapes' /\ BoundInv' BY DEF PairShapes, BoundInv, Grows
<1>2. FrameInv' BY DEF FrameInv, FrameOK
<1>3. draws' \in [Devices -> Nat] /\ \A d \in Devices : draws'[d] >= draws[d] BY DEF Grows
<1>4. \A d \in Devices : 1 .. draws[d] \subseteq 1 .. draws'[d] BY <1>3 DEF PairShapes
<1>5. SessionInv' BY <1>4 DEF SessionInv, SessionOK, Devices
<1>6. SpentInv'
  <2>1. ASSUME NEW r \in air PROVE SpentOK(r)'
    <3>1. SpentOK(r) BY DEF SpentInv
    <3> QED BY <1>4, <3>1 DEF SpentOK, Devices
  <2> QED BY <2>1 DEF SpentInv
<1>7. used'.resets \in Nat /\ used'.resets >= used.resets BY DEF Grows
<1>8. MeetInv' BY <1>7, MeetKept
<1>9. KeyInv' /\ NodeInv' /\ ServeInv' BY KeysKept, NodesKept, ServesKept
<1>10. AnswerInv' BY AnswersKept
<1> QED BY <1>1, <1>2, <1>5, <1>6, <1>8, <1>9, <1>10

LEMMA NodeAddKeeps ==
  ASSUME PairInv, NEW g \in Gateways, NEW n \in Nodes, NEW stored \in BOOLEAN, NodeAdd(g, n, stored)
  PROVE  PairInv'
<1> USE DEF PairInv
<1>1. PICK key : key = CableKey(g, n)
  OBVIOUS
<1>2. PICK rec : rec = [addr |-> n, key |-> key]
  OBVIOUS
<1>3. key \in PairKeys /\ rec \in RegRecords /\ rec.addr = n /\ rec.key = key
  BY <1>1, <1>2, KeysAreSome DEF RegRecords
<1>4. /\ gw[g].phase \in {"closed", "listen"} /\ UNCHANGED <<air, gw, node, draws, joins, answers>>
      /\ \/ UNCHANGED <<buckets, peers>>
         \/ /\ Add(buckets[g], rec).result = "ok" /\ AddPeer(g, n, key)
            /\ buckets' = [buckets EXCEPT ![g] = Add(buckets[g], rec).bs]
  BY <1>1, <1>2 DEF NodeAdd, BetweenSlices
<1>5. Grows BY <1>4, GrowsIs DEF NodeAdd
<1>6. CASE UNCHANGED <<buckets, peers>> BY <1>4, <1>5, <1>6, QuietKeeps
<1>7. CASE /\ Add(buckets[g], rec).result = "ok" /\ AddPeer(g, n, key)
           /\ buckets' = [buckets EXCEPT ![g] = Add(buckets[g], rec).bs]
  <2>1. RegistryOK(buckets[g]) BY DEF ServeInv, ServeOK
  <2>2. PICK b : b = Add(buckets[g], rec).bs
    OBVIOUS
  <2>3. /\ WroteOK(buckets[g], b, n) /\ Find(b, n) = key
        /\ Find(buckets[g], n) = NoKey => Count(buckets[g]) < Capacity
        /\ \A j \in BucketIds : \A l \in DOMAIN b[j].recs :
             b[j].recs[l] = rec \/ \E m \in DOMAIN buckets[g][j].recs : b[j].recs[l] = buckets[g][j].recs[m]
    BY <1>3, <1>7, <2>1, <2>2, AddIs
  <2>4. buckets' = [buckets EXCEPT ![g] = b] /\ Finds(b, n, key) BY <1>7, <2>2, <2>3 DEF Finds
  <2>5. /\ ServeOK(g)'
        /\ buckets' \in [Gateways -> BucketShapes] /\ buckets'[g] = b
        /\ peers' \in [Gateways -> [Nodes -> PairKeys \cup {NoKey}]]
        /\ \A h \in Gateways : h # g => buckets'[h] = buckets[h] /\ peers'[h] = peers[h]
        /\ \A m \in Nodes : peers'[g][m] = peers[g][m] \/ (m = n /\ peers'[g][m] = key)
    <3>1. AddPeer(g, n, key) /\ WroteOK(buckets[g], b, n) /\ Finds(b, n, key) BY <1>7, <2>3, <2>4
    <3>2. Find(buckets[g], n) = NoKey => Count(buckets[g]) < Capacity BY <2>3
    <3>3. key \in PairKeys /\ buckets' = [buckets EXCEPT ![g] = b] BY <1>3, <2>4
    <3>4. PairInv
      OBVIOUS
    <3> HIDE DEF PairInv
    <3> QED BY <3>1, <3>2, <3>3, <3>4, PeerInstalled
  <2>6. AllowedNext(g, n, key) BY <1>1 DEF AllowedNext
  <2>7. KeyInv'
    <3>1. Brings(buckets[g], buckets'[g], [addr |-> n, key |-> key]) BY <1>2, <2>3, <2>5 DEF Brings
    <3> QED BY <1>4, <2>5, <2>6, <3>1, KeysStored
  <2>8. AnswerInv' BY <1>4, <1>5, AnswersKept
  <2>9. /\ joins' \subseteq [g : Gateways, req : Nat, n : Nodes, key : OtaKeys, left : Nat]
        /\ answers' \subseteq [g : Gateways, req : Nat, result : Results]
    BY <1>4 DEF PairShapes
  <2> QED BY <1>4, <1>5, <2>5, <2>7, <2>8, <2>9, RegistryMoves
<1> QED BY <1>4, <1>6, <1>7

LEMMA NodeRemoveKeeps ==
  ASSUME PairInv, NEW g \in Gateways, NEW n \in Nodes, NEW stored \in BOOLEAN, NodeRemove(g, n, stored)
  PROVE  PairInv'
<1> USE DEF PairInv
<1>1. /\ gw[g].phase \in {"closed", "listen"} /\ UNCHANGED <<air, gw, node, draws, joins, answers>>
      /\ \/ UNCHANGED <<buckets, peers>>
         \/ /\ RemoveRecord(buckets[g], n).result = "ok"
            /\ buckets' = [buckets EXCEPT ![g] = RemoveRecord(buckets[g], n).bs]
            /\ peers' = [peers EXCEPT ![g][n] = NoKey]
  BY DEF NodeRemove, BetweenSlices
<1>2. Grows BY <1>1, GrowsIs DEF NodeRemove
<1>3. CASE UNCHANGED <<buckets, peers>> BY <1>1, <1>2, <1>3, QuietKeeps
<1>4. CASE /\ RemoveRecord(buckets[g], n).result = "ok"
           /\ buckets' = [buckets EXCEPT ![g] = RemoveRecord(buckets[g], n).bs]
           /\ peers' = [peers EXCEPT ![g][n] = NoKey]
  <2>1. RegistryOK(buckets[g]) /\ ServeOK(g) BY DEF ServeInv, ServeOK
  <2>2. PICK b : b = RemoveRecord(buckets[g], n).bs
    OBVIOUS
  <2>3. /\ WroteOK(buckets[g], b, n) /\ Find(b, n) = NoKey
        /\ \A j \in BucketIds : \A l \in DOMAIN b[j].recs :
             \E m \in DOMAIN buckets[g][j].recs : b[j].recs[l] = buckets[g][j].recs[m]
    BY <1>4, <2>1, <2>2, RemoveRecordIs
  <2>4. /\ buckets' \in [Gateways -> BucketShapes] /\ buckets'[g] = b
        /\ \A h \in Gateways : h # g => buckets'[h] = buckets[h]
    <3>1. buckets \in [Gateways -> BucketShapes] /\ b \in BucketShapes
      BY <2>3 DEF PairShapes, WroteOK, RegistryOK
    <3>2. buckets' = [buckets EXCEPT ![g] = b] BY <1>4, <2>2
    <3> QED BY <3>1, <3>2
  <2>5. PICK table : table = [peers[g] EXCEPT ![n] = NoKey]
    OBVIOUS
  <2>6. peers \in [Gateways -> [Nodes -> PairKeys \cup {NoKey}]] /\ peers[g] \in [Nodes -> PairKeys \cup {NoKey}]
    BY DEF PairShapes
  <2>7. /\ table \in [Nodes -> PairKeys \cup {NoKey}] /\ table[n] = NoKey
        /\ \A m \in Nodes : m # n => table[m] = peers[g][m]
    BY <2>5, <2>6
  <2>8. peers' = [peers EXCEPT ![g] = table] BY <1>4, <2>5
  <2>9. /\ peers' \in [Gateways -> [Nodes -> PairKeys \cup {NoKey}]] /\ peers'[g] = table
        /\ \A h \in Gateways : h # g => peers'[h] = peers[h]
    BY <2>6, <2>7, <2>8
  <2>10. Readable(b) <=> Readable(buckets[g]) BY <2>3 DEF WroteOK, Readable
  <2>11. ASSUME NEW m \in Nodes
         PROVE  \/ Find(b, m) = table[m]
                \/ ~Readable(b) /\ NoKey \in {Find(b, m), table[m]}
    <3>1. CASE m = n BY <2>3, <2>7, <3>1
    <3>2. CASE m # n
      <4>1. Find(b, m) = Find(buckets[g], m) /\ table[m] = peers[g][m] BY <2>3, <2>7, <3>2 DEF WroteOK
      <4>2. \/ Find(buckets[g], m) = peers[g][m]
            \/ ~Readable(buckets[g]) /\ NoKey \in {Find(buckets[g], m), peers[g][m]}
        BY <2>1 DEF ServeOK
      <4> QED BY <2>10, <4>1, <4>2
    <3> QED BY <3>1, <3>2
  <2>12. ServeOK(g)'
    <3>1. RegistryOK(b) BY <2>3 DEF WroteOK
    <3>2. /\ RegistryOK(buckets'[g])
          /\ \A m \in Nodes : \/ Find(buckets'[g], m) = peers'[g][m]
                              \/ ~Readable(buckets'[g]) /\ NoKey \in {Find(buckets'[g], m), peers'[g][m]}
      BY <2>4, <2>9, <2>11, <3>1
    <3> QED BY <3>2 DEF ServeOK
  <2>13. KeyInv'
    <3>1. AllowedNext(g, n, CableKey(g, n)) BY DEF AllowedNext
    <3>2. \A m \in Nodes : peers'[g][m] \in {NoKey, peers[g][m]} BY <2>7, <2>9
    <3>3. Brings(buckets[g], buckets'[g], [addr |-> n, key |-> CableKey(g, n)]) BY <2>3, <2>4 DEF Brings
    <3> QED BY <1>1, <2>4, <2>9, <3>1, <3>2, <3>3, KeysStored
  <2>14. AnswerInv' BY <1>1, <1>2, AnswersKept
  <2>15. /\ joins' \subseteq [g : Gateways, req : Nat, n : Nodes, key : OtaKeys, left : Nat]
         /\ answers' \subseteq [g : Gateways, req : Nat, result : Results]
    BY <1>1 DEF PairShapes
  <2> QED BY <1>1, <1>2, <2>4, <2>9, <2>12, <2>13, <2>14, <2>15, RegistryMoves
<1> QED BY <1>1, <1>3, <1>4

LEMMA TakeConfirmKeeps ==
  ASSUME PairInv, NEW g \in Gateways, NEW f \in air, NEW stored \in BOOLEAN, TakeConfirm(g, f, stored)
  PROVE  PairInv'
<1>1. PICK n, key, left : n = gw[g].joiner /\ key = gw[g].key /\ left = gw[g].left - 1
  OBVIOUS
<1>2. /\ gw[g].phase = "confirm" /\ CommitPairing(g, n, key, left, stored)
      /\ UNCHANGED <<air, node, draws, used>>
  BY <1>1 DEF TakeConfirm
<1>3. n \in Nodes /\ key \in OtaKeys /\ left \in Nat
  <2>1. SessionOK(g) /\ gw[g].left \in Nat BY GatewayTypes DEF PairInv, SessionInv
  <2> QED BY <1>1, <1>2, <2>1 DEF SessionOK
<1>4. PICK rec : rec = [addr |-> n, key |-> key]
  OBVIOUS
<1>5. rec \in RegRecords /\ rec.addr = n /\ rec.key = key /\ key \in PairKeys
  BY <1>3, <1>4, KeysAreSome DEF RegRecords
<1>6. Grows BY <1>2, GrowsIs DEF PairInv
<1>7. Close(g) /\ gw' = [gw EXCEPT ![g] = NoSession] BY <1>2 DEF CommitPairing, Close
<1>8. CASE AddNew(buckets[g], rec).result = "ok" /\ stored
  <2>1. PICK j : j = [g |-> g, req |-> gw[g].req, n |-> n, key |-> key, left |-> left]
    OBVIOUS
  <2>2. /\ buckets' = [buckets EXCEPT ![g] = AddNew(buckets[g], rec).bs] /\ AddPeer(g, n, key)
        /\ joins' = joins \cup {j} /\ Resolve(g, "paired")
    BY <1>2, <1>4, <1>8, <2>1 DEF CommitPairing
  <2>3. AddNew(buckets[g], rec) = Add(buckets[g], rec) BY <1>8, AddNewIs
  <2>4. Add(buckets[g], rec).result = "ok" BY <1>8, <2>3
  <2>5. RegistryOK(buckets[g]) BY DEF PairInv, ServeInv, ServeOK
  <2>6. PICK b : b = Add(buckets[g], rec).bs
    OBVIOUS
  <2>7. /\ WroteOK(buckets[g], b, n) /\ Find(b, n) = key
        /\ Find(buckets[g], n) = NoKey => Count(buckets[g]) < Capacity
        /\ \A i \in BucketIds : \A l \in DOMAIN b[i].recs :
             b[i].recs[l] = rec \/ \E m \in DOMAIN buckets[g][i].recs : b[i].recs[l] = buckets[g][i].recs[m]
    BY <1>5, <2>4, <2>5, <2>6, AddIs
  <2>8. buckets' = [buckets EXCEPT ![g] = b] /\ Finds(b, n, key) /\ AddPeer(g, n, key)
    BY <2>2, <2>3, <2>6, <2>7 DEF Finds
  <2>9. WroteOK(buckets[g], b, n) /\ (Find(buckets[g], n) = NoKey => Count(buckets[g]) < Capacity) BY <2>7
  <2>10. /\ ServeOK(g)'
         /\ buckets' \in [Gateways -> BucketShapes] /\ buckets'[g] = b
         /\ peers' \in [Gateways -> [Nodes -> PairKeys \cup {NoKey}]]
         /\ \A h \in Gateways : h # g => buckets'[h] = buckets[h] /\ peers'[h] = peers[h]
         /\ \A m \in Nodes : peers'[g][m] = peers[g][m] \/ (m = n /\ peers'[g][m] = key)
    <3>1. n \in Nodes /\ key \in PairKeys BY <1>3, <1>5
    <3> QED BY <2>8, <2>9, <3>1, PeerInstalled
  <2>11. j.g = g /\ j.req = gw[g].req /\ j.n = n /\ j.key = key /\ j.left = left /\ j \in joins'
    BY <2>1, <2>2
  <2>12. KeyInv'
    <3>1. AllowedNext(g, n, key) BY <2>11 DEF AllowedNext
    <3>2. Brings(buckets[g], buckets'[g], [addr |-> n, key |-> key]) BY <1>4, <2>7, <2>10 DEF Brings
    <3>3. joins \subseteq joins' /\ UNCHANGED node BY <1>2, <2>2
    <3> QED BY <1>3, <2>10, <3>1, <3>2, <3>3, KeysStored
  <2>13. AnswerInv' /\ answers' \subseteq [g : Gateways, req : Nat, result : Results]
    <3>1. \A x \in joins' \ joins : x.g = g /\ x.req = gw[g].req /\ x.left >= 0 /\ "paired" = "paired"
      BY <1>3, <2>2, <2>11
    <3>2. "paired" \in Results /\ gw[g].phase # "closed" /\ PairShapes /\ AnswerInv
      BY <1>2 DEF Results, PairInv
    <3> QED BY <1>6, <1>7, <2>2, <3>1, <3>2, AnswerGiven
  <2>14. joins' \subseteq [g : Gateways, req : Nat, n : Nodes, key : OtaKeys, left : Nat]
    <3>1. gw[g].req \in Nat BY GatewayTypes DEF PairInv
    <3>2. j \in [g : Gateways, req : Nat, n : Nodes, key : OtaKeys, left : Nat] BY <1>3, <2>1, <3>1
    <3> QED BY <2>2, <3>2 DEF PairInv, PairShapes
  <2> QED BY <1>2, <1>6, <1>7, <2>10, <2>12, <2>13, <2>14, RegistryMoves
<1>9. CASE ~(AddNew(buckets[g], rec).result = "ok" /\ stored)
  <2>1. PICK r : r = AddNew(buckets[g], rec).result
    OBVIOUS
  <2>2. r \in {"ok", "full", "storage", "exists"} BY <2>1 DEF AddNew, Add
  <2>3. UNCHANGED <<buckets, peers, joins>> /\ Resolve(g, IF r = "ok" THEN "storage" ELSE r)
    BY <1>2, <1>4, <1>9, <2>1 DEF CommitPairing
  <2>4. PICK res \in Results : Resolve(g, res)
    <3>1. (IF r = "ok" THEN "storage" ELSE r) \in Results BY <2>2 DEF Results
    <3> QED BY <2>3, <3>1
  <2> QED BY <1>2, <1>6, <1>7, <2>3, <2>4, ClosingKeeps
<1> QED BY <1>8, <1>9

LEMMA GwResetKeeps ==
  ASSUME PairInv, NEW g \in Gateways, GwReset(g)
  PROVE  PairInv'
<1>1. /\ gw' = [gw EXCEPT ![g] = NoSession] /\ UNCHANGED <<air, buckets, node, draws, joins, answers>>
      /\ Mishap("resets")
  BY DEF GwReset, Close
<1>2. Grows BY <1>1, GrowsIs DEF PairInv
<1>3. PICK table : table = PeersOf(buckets[g])
  OBVIOUS
<1>4. RegistryOK(buckets[g]) BY DEF PairInv, ServeInv, ServeOK
<1>5. /\ table \in [Nodes -> PairKeys \cup {NoKey}] /\ \A n \in Nodes : table[n] = Find(buckets[g], n)
      /\ \A n \in Nodes : table[n] = NoKey \/
              \E i \in BucketIds : \E k \in DOMAIN buckets[g][i].recs :
                buckets[g][i].recs[k].addr = n /\ table[n] = buckets[g][i].recs[k].key
  BY <1>3, <1>4, PeersOfIs
<1>6. peers' = [peers EXCEPT ![g] = table] /\ peers \in [Gateways -> [Nodes -> PairKeys \cup {NoKey}]]
  BY <1>3 DEF GwReset, PairInv, PairShapes
<1>7. /\ peers' \in [Gateways -> [Nodes -> PairKeys \cup {NoKey}]] /\ peers'[g] = table
      /\ \A h \in Gateways : h # g => peers'[h] = peers[h]
  BY <1>5, <1>6
<1>8. ServeOK(g)'
  <2>1. buckets'[g] = buckets[g] BY <1>1
  <2>2. RegistryOK(buckets'[g]) /\ \A m \in Nodes : Find(buckets'[g], m) = peers'[g][m]
    BY <1>4, <1>5, <1>7, <2>1
  <2> QED BY <2>2 DEF ServeOK
<1>9. KeyInv'
  <2>1. KeyInv BY DEF PairInv
  <2>2. ASSUME NEW n \in Nodes PROVE peers'[g][n] = NoKey \/ Allowed(g, n, peers'[g][n])
    BY <1>5, <1>7, <2>1 DEF KeyInv
  <2>3. \A h \in Gateways, n \in Nodes : peers'[h][n] = NoKey \/ Allowed(h, n, peers'[h][n])
    BY <1>7, <2>1, <2>2 DEF KeyInv
  <2> QED BY <1>1, <2>1, <2>3 DEF KeyInv, Allowed
<1>10. AnswerInv'
  <2>1. \A h \in Gateways : gw'[h].phase # "closed" => gw[h].phase # "closed" /\ gw'[h].req = gw[h].req
    BY <1>1, EmptyShapes, SessionSet DEF PairInv
  <2> QED BY <1>1, <1>2, <2>1, AnswersKept DEF PairInv
<1>11. /\ joins' \subseteq [g : Gateways, req : Nat, n : Nodes, key : OtaKeys, left : Nat]
       /\ answers' \subseteq [g : Gateways, req : Nat, result : Results]
       /\ buckets' \in [Gateways -> BucketShapes] /\ buckets' = buckets
  BY <1>1 DEF PairInv, PairShapes
<1> QED BY <1>1, <1>2, <1>7, <1>8, <1>9, <1>10, <1>11, RegistryMoves

LEMMA BucketRotsKeeps ==
  ASSUME PairInv, NEW g \in Gateways, NEW i \in BucketIds, BucketRots(g, i)
  PROVE  PairInv'
<1>1. UNCHANGED <<air, gw, peers, node, draws, joins, answers>> /\ Mishap("rots") BY DEF BucketRots
<1>2. Grows BY <1>1, GrowsIs DEF PairInv
<1>3. RegistryOK(buckets[g]) /\ ServeOK(g) /\ Fits(buckets[g])
  BY DEF PairInv, ServeInv, ServeOK, RegistryOK, Fits
<1>4. PICK bk : bk = [buckets[g][i] EXCEPT !.ok = FALSE]
  OBVIOUS
<1>5. PICK b : b = [buckets[g] EXCEPT ![i] = bk]
  OBVIOUS
<1>6. buckets' = [buckets EXCEPT ![g] = b] /\ buckets \in [Gateways -> BucketShapes]
  BY <1>4, <1>5 DEF BucketRots, PairInv, PairShapes
<1>7. /\ bk \in [ok : BOOLEAN, recs : Seq(RegRecords)] /\ ~bk.ok /\ bk.recs = buckets[g][i].recs
  <2>1. buckets[g][i] \in [ok : BOOLEAN, recs : Seq(RegRecords)] BY <1>3, BucketTypes DEF Fits
  <2>2. bk \in [ok : BOOLEAN, recs : Seq(RegRecords)] /\ bk.ok = FALSE /\ bk.recs = buckets[g][i].recs
    BY <1>4, <2>1
  <2> QED BY <2>2
<1>8. buckets[g] \in [BucketIds -> [ok : BOOLEAN, recs : Seq(RegRecords)]] BY <1>3 DEF Fits, BucketShapes
<1>9. b \in BucketShapes /\ b[i] = bk /\ \A j \in BucketIds \ {i} : b[j] = buckets[g][j]
  BY <1>5, <1>7, <1>8 DEF BucketShapes
<1>10. \A j \in BucketIds : b[j].recs = buckets[g][j].recs BY <1>7, <1>9
<1>11. Fits(b) /\ ~b[i].ok BY <1>3, <1>7, <1>9, <1>10 DEF Fits
<1>12. RegistryOK(b) /\ \A n \in Nodes : Find(b, n) \in {NoKey, Find(buckets[g], n)}
  BY <1>3, <1>9, <1>10, <1>11, RotIs
<1>13. /\ buckets' \in [Gateways -> BucketShapes] /\ buckets'[g] = b
       /\ \A h \in Gateways : h # g => buckets'[h] = buckets[h]
  BY <1>6, <1>9
<1>14. ServeOK(g)'
  <2>1. ~Readable(b) BY <1>11 DEF Readable
  <2>2. ASSUME NEW m \in Nodes
        PROVE  Find(b, m) = peers[g][m] \/ NoKey \in {Find(b, m), peers[g][m]}
    BY <1>3, <1>12 DEF ServeOK
  <2>3. /\ RegistryOK(buckets'[g]) /\ ~Readable(buckets'[g])
        /\ \A m \in Nodes : Find(buckets'[g], m) = peers'[g][m] \/ NoKey \in {Find(buckets'[g], m), peers'[g][m]}
    BY <1>1, <1>12, <1>13, <2>1, <2>2
  <2> QED BY <2>3 DEF ServeOK
<1>15. KeyInv'
  <2>1. KeyInv BY DEF PairInv
  <2>2. \A h \in Gateways, j \in BucketIds : buckets'[h][j].recs = buckets[h][j].recs BY <1>10, <1>13
  <2> QED BY <1>1, <2>1, <2>2 DEF KeyInv, Allowed
<1>16. AnswerInv' BY <1>1, <1>2, AnswersKept DEF PairInv
<1>17. /\ joins' \subseteq [g : Gateways, req : Nat, n : Nodes, key : OtaKeys, left : Nat]
       /\ answers' \subseteq [g : Gateways, req : Nat, result : Results]
       /\ peers' \in [Gateways -> [Nodes -> PairKeys \cup {NoKey}]]
  BY <1>1 DEF PairInv, PairShapes
<1> QED BY <1>1, <1>2, <1>13, <1>14, <1>15, <1>16, <1>17, RegistryMoves

-----------------------------------------------------------------------------
(***************************************************************************)
(* The node's steps                                                        *)
(***************************************************************************)

\* A node moves, and perhaps sends a frame.  A node that leaves its commit round leaves no
\* gateway waiting for the JOIN_CONFIRM of this key, or was reset.
LEMMA NodeMoves ==
  ASSUME PairInv, Grows, NEW n \in Nodes, NEW v \in NodeStates, node' = [node EXCEPT ![n] = v],
         UNCHANGED GwSide, NEW x, air' = air \/ air' = air \cup {x},
         air' # air => FrameOK(x)' /\ x.t # "reveal",
         air' # air /\ x.t = "confirm" =>
           x.src = n /\ v.at.phase = "commit" /\ v.at.host = x.dst /\ v.at.key = x.b,
         At(n).phase = "commit" =>
           \/ used'.resets > 0 \/ Settled(n)
           \/ v.at.phase = "commit" /\ v.at.host = At(n).host /\ v.at.key = At(n).key,
         NodeOK(n)', \A rec \in {v.cur, v.stored} : rec = NoPairing \/ Allowed(rec.gw, n, rec.key)
  PROVE  PairInv'
<1> USE DEF PairInv
<1>1. node' \in [Nodes -> NodeStates] /\ node'[n] = v /\ \A m \in Nodes : m # n => node'[m] = node[m]
  BY NodeSet
<1>2. UNCHANGED <<gw, buckets, peers, joins, answers>> BY DEF GwSide
<1>3. PairShapes' /\ BoundInv' BY <1>1, <1>2 DEF PairShapes, BoundInv, Grows
<1>4. FrameInv' BY FramesKept
<1>5. draws' \in [Devices -> Nat] /\ \A d \in Devices : draws'[d] >= draws[d] BY DEF Grows
<1>6. \A d \in Devices : 1 .. draws[d] \subseteq 1 .. draws'[d] BY <1>5 DEF PairShapes
<1>7. SessionInv' BY <1>2, <1>6 DEF SessionInv, SessionOK, Devices
<1>8. SpentInv'
  <2>1. ASSUME NEW r \in air' PROVE SpentOK(r)'
    <3>1. CASE r \in air
      <4>1. SpentOK(r) BY <3>1 DEF SpentInv
      <4> QED BY <1>2, <1>6, <4>1 DEF SpentOK, Devices
    <3>2. CASE r \notin air BY <3>2 DEF SpentOK
    <3> QED BY <3>1, <3>2
  <2> QED BY <2>1 DEF SpentInv
<1>9. MeetInv'
  <2>1. used.resets \in Nat /\ used'.resets \in Nat /\ used'.resets >= used.resets BY DEF Grows, PairShapes
  <2>2. ASSUME NEW f \in air', f.t = "confirm", NEW h \in Gateways, gw[h].phase = "confirm", f.dst = h,
               f.src = gw[h].joiner, f.b = gw[h].key
        PROVE  \/ /\ node'[f.src].at.phase = "commit" /\ node'[f.src].at.host = h
                  /\ node'[f.src].at.key = f.b
               \/ used'.resets > 0
    <3>1. CASE f \notin air BY <1>1, <2>2, <3>1
    <3>2. CASE f \in air
      <4>1. f.src \in Nodes BY <2>2 DEF SessionInv, SessionOK
      <4>2. \/ node[f.src].at.phase = "commit" /\ node[f.src].at.host = h /\ node[f.src].at.key = f.b
            \/ used.resets > 0
        BY <2>2, <3>2 DEF MeetInv, MeetOK, At
      <4>3. CASE used.resets > 0 BY <2>1, <4>3
      <4>4. CASE f.src # n BY <1>1, <2>1, <4>1, <4>2, <4>4
      <4>5. CASE /\ f.src = n /\ node[f.src].at.phase = "commit" /\ node[f.src].at.host = h
                 /\ node[f.src].at.key = f.b
        <5>1. At(n).phase = "commit" /\ At(n).host = h /\ At(n).key = f.b BY <4>5 DEF At
        <5>2. ~Settled(n) BY <2>2, <5>1 DEF Settled
        <5> QED BY <1>1, <4>5, <5>1, <5>2
      <4> QED BY <4>2, <4>3, <4>4, <4>5
    <3> QED BY <3>1, <3>2
  <2>3. \A f \in air' : MeetOK(f)' BY <1>2, <2>2 DEF MeetOK, At
  <2> QED BY <2>3 DEF MeetInv
<1>10. KeyInv'
  <2>1. KeyInv
    OBVIOUS
  <2>2. \A m \in Nodes : \A rec \in {node'[m].cur, node'[m].stored} : rec = NoPairing \/ Allowed(rec.gw, m, rec.key)
    <3>1. ASSUME NEW m \in Nodes, m # n
          PROVE  \A rec \in {node'[m].cur, node'[m].stored} : rec = NoPairing \/ Allowed(rec.gw, m, rec.key)
      <4>1. node'[m] = node[m] BY <1>1, <3>1
      <4> QED BY <2>1, <4>1 DEF KeyInv
    <3> QED BY <1>1, <3>1
  <2> QED BY <1>2, <2>1, <2>2 DEF KeyInv, Allowed
<1>11. NodeInv'
  <2>1. ASSUME NEW m \in Nodes, m # n PROVE NodeOK(m)'
    <3>1. node'[m] = node[m] /\ NodeOK(m) BY <1>1, <2>1 DEF NodeInv
    <3> QED BY <3>1 DEF NodeOK, At
  <2> QED BY <2>1 DEF NodeInv
<1>12. AnswerInv' BY <1>2, AnswersKept
<1>13. ServeInv' BY <1>2, ServesKept
<1> QED BY <1>3, <1>4, <1>7, <1>8, <1>9, <1>10, <1>11, <1>12, <1>13

\* The pairing a node has in force, and the one it stores, outlive an attempt.
LEMMA AttemptMoves ==
  ASSUME PairInv, NEW n \in Nodes, At(n).phase # "commit", NEW at \in Attempts
  PROVE  /\ [node[n] EXCEPT !.at = at] \in NodeStates
         /\ [node[n] EXCEPT !.at = at].at = at /\ [node[n] EXCEPT !.at = at].cur = node[n].cur
         /\ [node[n] EXCEPT !.at = at].stored = node[n].stored /\ [node[n] EXCEPT !.at = at].peers = node[n].peers
         /\ \A rec \in {node[n].cur, node[n].stored} : rec = NoPairing \/ Allowed(rec.gw, n, rec.key)
         /\ \A g \in Gateways : node[n].peers[g] = IF node[n].cur.gw = g THEN node[n].cur.key ELSE NoKey
<1>1. node[n] \in NodeStates BY NodeTypes DEF PairInv
<1>2. /\ [node[n] EXCEPT !.at = at] \in NodeStates
      /\ [node[n] EXCEPT !.at = at].at = at /\ [node[n] EXCEPT !.at = at].cur = node[n].cur
      /\ [node[n] EXCEPT !.at = at].stored = node[n].stored /\ [node[n] EXCEPT !.at = at].peers = node[n].peers
  BY <1>1 DEF NodeStates
<1>3. \A rec \in {node[n].cur, node[n].stored} : rec = NoPairing \/ Allowed(rec.gw, n, rec.key)
  BY DEF PairInv, KeyInv
<1>4. \A g \in Gateways : node[n].peers[g] = IF node[n].cur.gw = g THEN node[n].cur.key ELSE NoKey
  BY DEF PairInv, NodeInv, NodeOK
<1> QED BY <1>2, <1>3, <1>4

\* An attempt before the commit round moves to another point before it.
LEMMA EarlyMoves ==
  ASSUME PairInv, Grows, NEW n \in Nodes, At(n).phase # "commit", NEW at \in Attempts, at.phase # "commit",
         at.phase = "reveal" => at.host \in Gateways,
         node' = [node EXCEPT ![n] = [node[n] EXCEPT !.at = at]], UNCHANGED GwSide,
         NEW x, air' = air \/ air' = air \cup {x}, air' # air => FrameOK(x)' /\ x.t \notin {"reveal", "confirm"}
  PROVE  PairInv'
<1>1. PICK v : v = [node[n] EXCEPT !.at = at]
  OBVIOUS
<1>2. /\ v \in NodeStates /\ v.at = at /\ v.cur = node[n].cur /\ v.stored = node[n].stored
      /\ v.peers = node[n].peers
      /\ \A rec \in {node[n].cur, node[n].stored} : rec = NoPairing \/ Allowed(rec.gw, n, rec.key)
      /\ \A g \in Gateways : node[n].peers[g] = IF node[n].cur.gw = g THEN node[n].cur.key ELSE NoKey
  BY <1>1, AttemptMoves
<1>3. node' = [node EXCEPT ![n] = v] BY <1>1
<1>4. node'[n] = v BY <1>2, <1>3, NodeSet DEF PairInv
<1>5. NodeOK(n)'
  <2>1. /\ node'[n].at.phase # "commit" /\ (node'[n].at.phase = "reveal" => node'[n].at.host \in Gateways)
        /\ \A g \in Gateways : node'[n].peers[g] = IF node'[n].cur.gw = g THEN node'[n].cur.key ELSE NoKey
    BY <1>2, <1>4
  <2> QED BY <2>1 DEF NodeOK, At
<1>6. \A rec \in {v.cur, v.stored} : rec = NoPairing \/ Allowed(rec.gw, n, rec.key) BY <1>2
<1>7. air' # air => FrameOK(x)' /\ x.t # "reveal" /\ x.t # "confirm"
  OBVIOUS
<1> QED BY <1>2, <1>3, <1>5, <1>6, <1>7, NodeMoves

LEMMA NewAttemptKeeps ==
  ASSUME PairInv, NEW n \in Nodes, At(n).phase # "commit", NewAttempt(n), UNCHANGED <<GwSide, used>>
  PROVE  PairInv'
<1>1. n \in Devices /\ PairShapes /\ BoundInv BY DEF Devices, PairInv
<1>2. CanDraw(n) /\ Drew(n) BY DEF NewAttempt
<1>3. Grows BY <1>1, <1>2, GrowsIs
<1>4. Drawn(n) \in Ephs BY <1>1, <1>2, DrewIs
<1>5. PICK at : at = [NoAttempt EXCEPT !.phase = "req", !.eph = Drawn(n)]
  OBVIOUS
<1>6. at \in Attempts /\ at.phase = "req" BY <1>4, <1>5, EmptyShapes DEF Attempts, Phases
<1>7. node' = [node EXCEPT ![n] = [node[n] EXCEPT !.at = at]] BY <1>5 DEF NewAttempt
<1>8. PICK x : x = Frame("req", n, NoKey, Drawn(n), <<>>)
  OBVIOUS
<1>9. air' = air \cup {x} /\ x.t = "req" /\ x.src = n /\ x.a = Drawn(n) BY <1>8 DEF NewAttempt, Frame
<1>10. FrameOK(x)' BY <1>4, <1>9 DEF FrameOK
<1> QED BY <1>3, <1>6, <1>7, <1>9, <1>10, EarlyMoves

LEMMA IdleKeeps ==
  ASSUME PairInv, NEW n \in Nodes, At(n).phase # "commit", node' = [node EXCEPT ![n].at = NoAttempt],
         UNCHANGED <<GwSide, air, draws, used>>
  PROVE  PairInv'
<1>1. Grows BY GrowsIs DEF PairInv
<1>2. node' = [node EXCEPT ![n] = [node[n] EXCEPT !.at = NoAttempt]]
  OBVIOUS
<1>3. NoAttempt \in Attempts /\ NoAttempt.phase = "idle" BY EmptyShapes
<1> QED BY <1>1, <1>2, <1>3, EarlyMoves

LEMMA EndAttemptKeeps ==
  ASSUME PairInv, NEW n \in Nodes, At(n).phase # "commit", EndAttempt(n), UNCHANGED <<GwSide, used>>
  PROVE  PairInv'
  BY NewAttemptKeeps, IdleKeeps DEF EndAttempt

LEMMA StartJoinKeeps ==
  ASSUME PairInv, NEW n \in Nodes, StartJoin(n)
  PROVE  PairInv'
  BY NewAttemptKeeps DEF StartJoin

LEMMA RevealTimeoutKeeps ==
  ASSUME PairInv, NEW n \in Nodes, RevealTimeout(n)
  PROVE  PairInv'
  BY EndAttemptKeeps DEF RevealTimeout

LEMMA JoinTimeoutKeeps ==
  ASSUME PairInv, NEW n \in Nodes, JoinTimeout(n)
  PROVE  PairInv'
  BY IdleKeeps DEF JoinTimeout

LEMMA TakeRespKeeps ==
  ASSUME PairInv, NEW n \in Nodes, NEW f \in air, NEW ok \in BOOLEAN, TakeResp(n, f, ok)
  PROVE  PairInv'
<1>1. At(n).phase = "req" /\ f.t = "resp" /\ UNCHANGED <<GwSide, used>> BY DEF TakeResp
<1>2. f.src \in Gateways /\ f.a \in Ephs /\ f.b \in Commits BY <1>1 DEF PairInv, FrameInv, FrameOK
<1>3. At(n) \in Attempts /\ At(n) = node[n].at /\ At(n).eph \in Ephs BY NodeTypes DEF PairInv
<1>4. CASE ok
  <2>1. PICK a1 : a1 = [At(n) EXCEPT !.phase = "reveal", !.host = f.src]
    OBVIOUS
  <2>2. a1 \in Attempts /\ a1.phase = "reveal" /\ a1.host = f.src BY <1>2, <1>3, <2>1 DEF Attempts, Phases
  <2>3. PICK at : at = [a1 EXCEPT !.eg = f.a, !.commit = f.b]
    OBVIOUS
  <2>4. at \in Attempts /\ at.phase = "reveal" /\ at.host = f.src BY <1>2, <2>2, <2>3 DEF Attempts
  <2>5. at = [node[n].at EXCEPT !.phase = "reveal", !.host = f.src, !.eg = f.a, !.commit = f.b]
    BY <1>3, <2>1, <2>3 DEF Attempts
  <2>6. PICK x : x = Frame("nonce", n, f.src, At(n).eph, <<>>)
    OBVIOUS
  <2>7. /\ air' = air \cup {x} /\ UNCHANGED draws
        /\ node' = [node EXCEPT ![n] = [node[n] EXCEPT !.at = at]]
    BY <1>4, <2>5, <2>6 DEF TakeResp, Continue
  <2>8. x.t = "nonce" /\ x.a = At(n).eph BY <2>6 DEF Frame
  <2>9. FrameOK(x)' BY <1>3, <2>8 DEF FrameOK
  <2>10. Grows BY <1>1, <2>7, GrowsIs DEF PairInv
  <2>11. UNCHANGED GwSide /\ At(n).phase # "commit" /\ at.phase # "commit" /\ at.host \in Gateways
    BY <1>1, <1>2, <2>4
  <2>12. x.t \notin {"reveal", "confirm"} /\ at \in Attempts BY <2>4, <2>8
  <2> QED BY <2>7, <2>9, <2>10, <2>11, <2>12, EarlyMoves
<1>5. CASE ~ok
  <2>1. EndAttempt(n) BY <1>5 DEF TakeResp, Continue
  <2> QED BY <1>1, <2>1, EndAttemptKeeps
<1> QED BY <1>4, <1>5

LEMMA TakeRevealKeeps ==
  ASSUME PairInv, NEW n \in Nodes, NEW f \in air, NEW ok \in BOOLEAN, TakeReveal(n, f, ok)
  PROVE  PairInv'
<1>1. PICK host, key : host = At(n).host /\ key = LinkKey(n, At(n).host, At(n).eph, At(n).eg, At(n).eph, f.a)
  OBVIOUS
<1>2. /\ At(n).phase = "reveal" /\ f.t = "reveal" /\ f.src = host /\ f.b = Tag("gw", key)
      /\ UNCHANGED <<GwSide, used>>
  BY <1>1 DEF TakeReveal, Reveals
<1>3. f.a \in Ephs BY <1>2 DEF PairInv, FrameInv, FrameOK
<1>4. /\ At(n) \in Attempts /\ At(n) = node[n].at /\ At(n).eph \in Ephs /\ At(n).eg \in Ephs
      /\ node[n] \in NodeStates /\ node[n].peers \in [Gateways -> PairKeys \cup {NoKey}]
  BY NodeTypes DEF PairInv
<1>5. host \in Gateways BY <1>1, <1>2 DEF PairInv, NodeInv, NodeOK
<1>6. key \in OtaKeys BY <1>1, <1>3, <1>4, <1>5 DEF LinkKey, OtaKeys
<1>7. CASE ok
  <2>1. PICK at : at = [At(n) EXCEPT !.phase = "commit", !.key = key]
    OBVIOUS
  <2>2. at \in Attempts /\ at.phase = "commit" /\ at.host = host /\ at.key = key
    BY <1>1, <1>4, <1>6, <2>1 DEF Attempts, Phases
  <2>3. PICK table : table = [node[n].peers EXCEPT ![host] = key]
    OBVIOUS
  <2>4. /\ table \in [Gateways -> PairKeys \cup {NoKey}] /\ table[host] = key
        /\ \A g \in Gateways : g # host => table[g] = node[n].peers[g]
    BY <1>4, <1>5, <1>6, <2>3, KeysAreSome
  <2>5. PICK v0 : v0 = [node[n] EXCEPT !.at = at]
    OBVIOUS
  <2>6. /\ v0 \in NodeStates /\ v0.at = at /\ v0.cur = node[n].cur /\ v0.stored = node[n].stored
        /\ v0.peers = node[n].peers
        /\ \A rec \in {node[n].cur, node[n].stored} : rec = NoPairing \/ Allowed(rec.gw, n, rec.key)
        /\ \A g \in Gateways : node[n].peers[g] = IF node[n].cur.gw = g THEN node[n].cur.key ELSE NoKey
    BY <1>2, <2>2, <2>5, AttemptMoves
  <2>7. PICK v : v = [v0 EXCEPT !.peers = table]
    OBVIOUS
  <2>8. v \in NodeStates /\ v.at = at /\ v.cur = node[n].cur /\ v.stored = node[n].stored /\ v.peers = table
    BY <2>4, <2>6, <2>7 DEF NodeStates
  <2>9. v = [node[n] EXCEPT !.at = [@ EXCEPT !.phase = "commit", !.key = key], !.peers[host] = key]
    BY <1>4, <2>1, <2>3, <2>5, <2>7 DEF NodeStates
  <2>10. PICK x : x = Frame("confirm", n, host, Tag("node", key), key)
    OBVIOUS
  <2>11. air' = air \cup {x} /\ UNCHANGED draws /\ node' = [node EXCEPT ![n] = v]
    BY <1>1, <1>7, <2>9, <2>10 DEF TakeReveal, Continue
  <2>12. x.t = "confirm" /\ x.src = n /\ x.dst = host /\ x.b = key BY <2>10 DEF Frame
  <2>13. FrameOK(x)' BY <1>2, <2>11, <2>12 DEF FrameOK
  <2>14. Grows BY <1>2, <2>11, GrowsIs DEF PairInv
  <2>15. node'[n] = v BY <2>8, <2>11, NodeSet DEF PairInv
  <2>16. NodeOK(n)'
    <3>1. /\ node'[n].at.phase = "commit" /\ node'[n].at.host = host /\ node'[n].at.key = key
          /\ node'[n].peers[host] = key
          /\ \A g \in Gateways : g # host =>
               node'[n].peers[g] = IF node'[n].cur.gw = g THEN node'[n].cur.key ELSE NoKey
      BY <2>2, <2>4, <2>6, <2>8, <2>15
    <3> QED BY <1>5, <1>6, <3>1 DEF NodeOK, At
  <2>17. \A rec \in {v.cur, v.stored} : rec = NoPairing \/ Allowed(rec.gw, n, rec.key) BY <2>6, <2>8
  <2>18. x.src = n /\ v.at.phase = "commit" /\ v.at.host = x.dst /\ v.at.key = x.b /\ x.t # "reveal"
    BY <2>2, <2>8, <2>12
  <2>19. At(n).phase # "commit" /\ UNCHANGED GwSide /\ v \in NodeStates BY <1>2, <2>8
  <2> QED BY <2>11, <2>13, <2>14, <2>16, <2>17, <2>18, <2>19, NodeMoves
<1>8. CASE ~ok
  <2>1. EndAttempt(n) BY <1>8 DEF TakeReveal, Continue
  <2> QED BY <1>2, <2>1, EndAttemptKeeps
<1> QED BY <1>7, <1>8

\* A node boots with a pairing.
LEMMA BootKeeps ==
  ASSUME PairInv, Grows, NEW n \in Nodes, NEW rec \in Pairings, rec = NoPairing \/ Allowed(rec.gw, n, rec.key),
         node' = [node EXCEPT ![n] = Booted(rec)], UNCHANGED <<GwSide, air>>,
         At(n).phase = "commit" => used'.resets > 0
  PROVE  PairInv'
<1>1. PICK v : v = Booted(rec)
  OBVIOUS
<1>2. rec.key \in PairKeys \cup {NoKey} /\ NoAttempt \in Attempts /\ NoAttempt.phase = "idle"
  BY EmptyShapes DEF Pairings
<1>3. /\ v \in NodeStates /\ v.at = NoAttempt /\ v.cur = rec /\ v.stored = rec
      /\ \A g \in Gateways : v.peers[g] = IF rec.gw = g THEN rec.key ELSE NoKey
  <2>1. PICK table : table = [g \in Gateways |-> IF rec.gw = g THEN rec.key ELSE NoKey]
    OBVIOUS
  <2>2. /\ table \in [Gateways -> PairKeys \cup {NoKey}]
        /\ \A g \in Gateways : table[g] = IF rec.gw = g THEN rec.key ELSE NoKey
    BY <1>2, <2>1
  <2>3. v = [stored |-> rec, cur |-> rec, at |-> NoAttempt, peers |-> table] BY <1>1, <2>1 DEF Booted
  <2> QED BY <1>2, <2>2, <2>3 DEF NodeStates
<1>4. node' = [node EXCEPT ![n] = v] BY <1>1
<1>5. node'[n] = v BY <1>3, <1>4, NodeSet DEF PairInv
<1>6. NodeOK(n)'
  <2>1. /\ node'[n].at.phase = "idle"
        /\ \A g \in Gateways : node'[n].peers[g] = IF node'[n].cur.gw = g THEN node'[n].cur.key ELSE NoKey
    BY <1>2, <1>3, <1>5
  <2> QED BY <2>1 DEF NodeOK, At
<1>7. \A r \in {v.cur, v.stored} : r = NoPairing \/ Allowed(r.gw, n, r.key) BY <1>3
<1>8. air' = air /\ UNCHANGED GwSide /\ v \in NodeStates BY <1>3
<1> QED BY <1>4, <1>6, <1>7, <1>8, NodeMoves

LEMMA NodeResetKeeps ==
  ASSUME PairInv, NEW n \in Nodes, NodeReset(n)
  PROVE  PairInv'
<1>1. Mishap("resets") /\ node' = [node EXCEPT ![n] = Booted(node[n].stored)] /\ UNCHANGED <<GwSide, air, draws>>
  BY DEF NodeReset
<1>2. Grows BY <1>1, GrowsIs DEF PairInv
<1>3. used'.resets = used.resets + 1 /\ used.resets \in Nat BY <1>1, MishapIs DEF PairInv
<1>4. used'.resets > 0 BY <1>3
<1>5. PICK rec : rec = node[n].stored
  OBVIOUS
<1>6. rec \in Pairings /\ (rec = NoPairing \/ Allowed(rec.gw, n, rec.key))
  BY <1>5, NodeTypes DEF PairInv, KeyInv
<1>7. node' = [node EXCEPT ![n] = Booted(rec)] BY <1>1, <1>5
<1> QED BY <1>1, <1>2, <1>4, <1>6, <1>7, BootKeeps

LEMMA ProvisionKeeps ==
  ASSUME PairInv, NEW n \in Nodes, NEW g \in Gateways, Provision(n, g)
  PROVE  PairInv'
<1>1. PICK rec : rec = [gw |-> g, key |-> CableKey(g, n)]
  OBVIOUS
<1>2. /\ At(n).phase = "idle" /\ Request /\ UNCHANGED <<GwSide, air, draws>>
      /\ node' = [node EXCEPT ![n] = Booted(rec)]
  BY <1>1 DEF Provision
<1>3. Grows BY <1>2, GrowsIs DEF PairInv
<1>4. rec \in Pairings /\ rec.gw = g /\ rec.key = CableKey(g, n) BY <1>1, KeysAreSome DEF Pairings
<1>5. Allowed(rec.gw, n, rec.key) BY <1>4 DEF Allowed
<1>6. rec \in Pairings /\ At(n).phase # "commit" BY <1>2, <1>4
<1> QED BY <1>2, <1>3, <1>5, <1>6, BootKeeps

\* The uplink was acknowledged.
LEMMA CommitKeeps ==
  ASSUME PairInv, NEW n \in Nodes, At(n).phase = "commit", NEW persisted \in BOOLEAN, Commit(n, persisted),
         UNCHANGED <<GwSide, air, draws, used>>
  PROVE  PairInv'
<1>1. PICK host, key : host = At(n).host /\ key = At(n).key
  OBVIOUS
<1>2. PICK rec : rec = [gw |-> host, key |-> key]
  OBVIOUS
<1>3. NodeOK(n) BY DEF PairInv, NodeInv
<1>4. host \in Gateways /\ key \in OtaKeys /\ node[n].peers[host] = key BY <1>1, <1>3 DEF NodeOK
<1>5. rec \in Pairings /\ rec.gw = host /\ rec.key = key BY <1>2, <1>4, KeysAreSome DEF Pairings
<1>6. gw[host].phase = "closed" /\ peers[host][n] = key BY <1>1 DEF Commit, Serves
<1>7. Allowed(host, n, key) BY <1>4, <1>6, KeysAreSome DEF PairInv, KeyInv
<1>8. PICK v : v = [stored |-> IF persisted THEN rec ELSE node[n].stored, cur |-> rec, at |-> NoAttempt,
                    peers |-> [g \in Gateways |-> IF g = node[n].cur.gw /\ g # rec.gw THEN NoKey
                                                  ELSE node[n].peers[g]]]
  OBVIOUS
<1>9. node' = [node EXCEPT ![n] = v] BY <1>1, <1>2, <1>8 DEF Commit
<1>10. /\ node[n].stored \in Pairings /\ node[n].peers \in [Gateways -> PairKeys \cup {NoKey}]
       /\ NoAttempt \in Attempts /\ NoAttempt.phase = "idle"
  BY NodeTypes, EmptyShapes DEF PairInv
<1>11. /\ v \in NodeStates /\ v.cur = rec /\ v.at = NoAttempt /\ v.stored \in {rec, node[n].stored}
       /\ \A g \in Gateways : v.peers[g] = IF g = node[n].cur.gw /\ g # host THEN NoKey ELSE node[n].peers[g]
  <2>1. PICK table : table = [g \in Gateways |-> IF g = node[n].cur.gw /\ g # rec.gw THEN NoKey
                                                 ELSE node[n].peers[g]]
    OBVIOUS
  <2>2. /\ table \in [Gateways -> PairKeys \cup {NoKey}]
        /\ \A g \in Gateways : table[g] = IF g = node[n].cur.gw /\ g # host THEN NoKey ELSE node[n].peers[g]
    BY <1>5, <1>10, <2>1
  <2>3. v = [stored |-> IF persisted THEN rec ELSE node[n].stored, cur |-> rec, at |-> NoAttempt, peers |-> table]
    BY <1>8, <2>1
  <2> QED BY <1>5, <1>10, <2>2, <2>3 DEF NodeStates
<1>12. node'[n] = v BY <1>9, <1>11, NodeSet DEF PairInv
<1>13. ASSUME NEW g \in Gateways
       PROVE  v.peers[g] = IF v.cur.gw = g THEN v.cur.key ELSE NoKey
  <2>1. CASE g = host BY <1>4, <1>5, <1>11, <2>1
  <2>2. CASE g # host
    <3>1. node[n].peers[g] = IF node[n].cur.gw = g THEN node[n].cur.key ELSE NoKey
      BY <1>1, <1>3, <2>2 DEF NodeOK
    <3> QED BY <1>5, <1>11, <2>2, <3>1
  <2> QED BY <2>1, <2>2
<1>14. NodeOK(n)'
  <2>1. /\ node'[n].at.phase = "idle"
        /\ \A g \in Gateways : node'[n].peers[g] = IF node'[n].cur.gw = g THEN node'[n].cur.key ELSE NoKey
    BY <1>10, <1>11, <1>12, <1>13
  <2> QED BY <2>1 DEF NodeOK, At
<1>15. \A r \in {v.cur, v.stored} : r = NoPairing \/ Allowed(r.gw, n, r.key)
  <2>1. node[n].stored = NoPairing \/ Allowed(node[n].stored.gw, n, node[n].stored.key)
    BY DEF PairInv, KeyInv
  <2> QED BY <1>5, <1>7, <1>11, <2>1
<1>16. Settled(n) BY <1>1, <1>6 DEF Settled
<1>17. Grows BY GrowsIs DEF PairInv
<1>18. air' = air /\ UNCHANGED GwSide /\ v \in NodeStates BY <1>11
<1> QED BY <1>9, <1>14, <1>15, <1>16, <1>17, <1>18, NodeMoves

LEMMA NoAckKeeps ==
  ASSUME PairInv, NEW n \in Nodes, At(n).phase = "commit", NoAck(n), UNCHANGED <<GwSide, air, draws, used>>
  PROVE  PairInv'
<1>1. PICK host : host = At(n).host
  OBVIOUS
<1>2. NodeOK(n) /\ \A rec \in {node[n].cur, node[n].stored} : rec = NoPairing \/ Allowed(rec.gw, n, rec.key)
  BY DEF PairInv, NodeInv, KeyInv
<1>3. /\ node[n] \in NodeStates /\ At(n) = node[n].at /\ At(n) \in Attempts
      /\ At(n).tries \in 0 .. CommitAttempts - 1 /\ node[n].cur \in Pairings
      /\ node[n].peers \in [Gateways -> PairKeys \cup {NoKey}]
  BY NodeTypes DEF PairInv
<1>4. Grows BY GrowsIs DEF PairInv
<1>5. CASE At(n).tries + 1 < CommitAttempts
  <2>1. PICK at : at = [At(n) EXCEPT !.tries = At(n).tries + 1]
    OBVIOUS
  <2>2. At(n).tries + 1 \in 0 .. CommitAttempts - 1 BY <1>3, <1>5, PairConstants
  <2>3. at \in Attempts /\ at.phase = At(n).phase /\ at.host = At(n).host /\ at.key = At(n).key
    BY <1>3, <2>1, <2>2 DEF Attempts
  <2>4. PICK v : v = [node[n] EXCEPT !.at = at]
    OBVIOUS
  <2>5. /\ v \in NodeStates /\ v.at = at /\ v.cur = node[n].cur /\ v.stored = node[n].stored
        /\ v.peers = node[n].peers
    BY <1>3, <2>3, <2>4 DEF NodeStates
  <2>6. node' = [node EXCEPT ![n] = v] BY <1>3, <1>5, <2>1, <2>4 DEF NoAck, At
  <2>7. node'[n] = v BY <2>5, <2>6, NodeSet DEF PairInv
  <2>8. NodeOK(n)'
    <3>1. /\ node'[n].at.phase = node[n].at.phase /\ node'[n].at.host = node[n].at.host
          /\ node'[n].at.key = node[n].at.key /\ node'[n].peers = node[n].peers /\ node'[n].cur = node[n].cur
      BY <1>3, <2>3, <2>5, <2>7
    <3> QED BY <1>2, <3>1 DEF NodeOK, At
  <2>9. \A rec \in {v.cur, v.stored} : rec = NoPairing \/ Allowed(rec.gw, n, rec.key) BY <1>2, <2>5
  <2>10. v.at.phase = "commit" /\ v.at.host = At(n).host /\ v.at.key = At(n).key /\ v \in NodeStates
    BY <2>3, <2>5
  <2>11. air' = air /\ UNCHANGED GwSide
    OBVIOUS
  <2> QED BY <1>4, <2>6, <2>8, <2>9, <2>10, <2>11, NodeMoves
<1>6. CASE ~(At(n).tries + 1 < CommitAttempts)
  <2>1. Settled(n) /\ node' = [node EXCEPT ![n] = Restored(node[n], host)] BY <1>1, <1>6 DEF NoAck
  <2>2. host \in Gateways BY <1>1, <1>2 DEF NodeOK
  <2>3. PICK k : k = IF node[n].cur.gw = host THEN node[n].cur.key ELSE NoKey
    OBVIOUS
  <2>4. k \in PairKeys \cup {NoKey} BY <1>3, <2>3 DEF Pairings
  <2>5. PICK table : table = [node[n].peers EXCEPT ![host] = k]
    OBVIOUS
  <2>6. /\ table \in [Gateways -> PairKeys \cup {NoKey}] /\ table[host] = k
        /\ \A g \in Gateways : g # host => table[g] = node[n].peers[g]
    BY <1>3, <2>2, <2>4, <2>5
  <2>7. PICK v : v = [node[n] EXCEPT !.at = NoAttempt, !.peers = table]
    OBVIOUS
  <2>8. NoAttempt \in Attempts /\ NoAttempt.phase = "idle" BY EmptyShapes
  <2>9. /\ v \in NodeStates /\ v.at = NoAttempt /\ v.cur = node[n].cur /\ v.stored = node[n].stored
        /\ v.peers = table
    BY <1>3, <2>6, <2>7, <2>8 DEF NodeStates
  <2>10. v = Restored(node[n], host) BY <1>3, <2>3, <2>5, <2>7 DEF Restored, NodeStates
  <2>11. node' = [node EXCEPT ![n] = v] BY <2>1, <2>10
  <2>12. node'[n] = v BY <2>9, <2>11, NodeSet DEF PairInv
  <2>13. ASSUME NEW g \in Gateways
         PROVE  v.peers[g] = IF v.cur.gw = g THEN v.cur.key ELSE NoKey
    <3>1. CASE g = host BY <2>3, <2>6, <2>9, <3>1
    <3>2. CASE g # host
      <4>1. node[n].peers[g] = IF node[n].cur.gw = g THEN node[n].cur.key ELSE NoKey
        BY <1>1, <1>2, <3>2 DEF NodeOK
      <4> QED BY <2>6, <2>9, <3>2, <4>1
    <3> QED BY <3>1, <3>2
  <2>14. NodeOK(n)'
    <3>1. /\ node'[n].at.phase = "idle"
          /\ \A g \in Gateways : node'[n].peers[g] = IF node'[n].cur.gw = g THEN node'[n].cur.key ELSE NoKey
      BY <2>8, <2>9, <2>12, <2>13
    <3> QED BY <3>1 DEF NodeOK, At
  <2>15. \A rec \in {v.cur, v.stored} : rec = NoPairing \/ Allowed(rec.gw, n, rec.key) BY <1>2, <2>9
  <2>16. air' = air /\ UNCHANGED GwSide /\ v \in NodeStates /\ Settled(n) BY <2>1, <2>9
  <2> QED BY <1>4, <2>11, <2>14, <2>15, <2>16, NodeMoves
<1> QED BY <1>5, <1>6

LEMMA CommitUplinkKeeps ==
  ASSUME PairInv, NEW n \in Nodes, NEW delivered \in BOOLEAN, NEW persisted \in BOOLEAN,
         CommitUplink(n, delivered, persisted)
  PROVE  PairInv'
<1>1. At(n).phase = "commit" /\ UNCHANGED <<GwSide, air, draws, used>> /\ (Commit(n, persisted) \/ NoAck(n))
  BY DEF CommitUplink
<1> QED BY <1>1, CommitKeeps, NoAckKeeps

-----------------------------------------------------------------------------
(***************************************************************************)
(* The theorems                                                            *)
(***************************************************************************)

LEMMA SeqWider ==
  ASSUME NEW A, NEW B, A \subseteq B, NEW s \in Seq(A)
  PROVE  s \in Seq(B)
<1>1. Len(s) \in Nat /\ s \in [1 .. Len(s) -> A]
  OBVIOUS
<1>2. s \in [1 .. Len(s) -> B] BY <1>1
<1> QED BY <1>1, <1>2

\* The registries the gateways start with are registries.
LEMMA StartsAreSound ==
  ASSUME NEW g \in Gateways, NEW bs, CableRegistry(g, bs)
  PROVE  /\ RegistryOK(bs)
         /\ \A i \in BucketIds : \A k \in DOMAIN bs[i].recs : bs[i].recs[k].key = CableKey(g, bs[i].recs[k].addr)
<1>1. PICK R : R = [addr : Nodes, key : {CableKey(g, n) : n \in Nodes}]
  OBVIOUS
<1>2. R \subseteq RegRecords BY <1>1, KeysAreSome DEF RegRecords
<1>3. bs \in [BucketIds -> [ok : BOOLEAN, recs : Seq(R)]] BY <1>1 DEF CableRegistry
<1>4. \A i \in BucketIds : bs[i] \in [ok : BOOLEAN, recs : Seq(RegRecords)]
  <2>1. ASSUME NEW i \in BucketIds PROVE bs[i] \in [ok : BOOLEAN, recs : Seq(RegRecords)]
    <3>1. bs[i] \in [ok : BOOLEAN, recs : Seq(R)] BY <1>3
    <3>2. bs[i].recs \in Seq(RegRecords) BY <1>2, <3>1, SeqWider
    <3> QED BY <3>1, <3>2
  <2> QED BY <2>1
<1>5. bs \in BucketShapes BY <1>3, <1>4 DEF BucketShapes
<1> QED BY <1>5 DEF CableRegistry, RegistryOK

LEMMA InitHolds == Init => PairInv
<1> SUFFICES ASSUME Init PROVE PairInv
  OBVIOUS
<1>1. /\ air = {} /\ gw = [g \in Gateways |-> NoSession] /\ buckets \in Starts
      /\ peers = [g \in Gateways |-> PeersOf(buckets[g])]
      /\ node = [n \in Nodes |-> Booted(NoPairing)] /\ draws = [d \in Devices |-> 0]
      /\ joins = {} /\ answers = {} /\ used = [ops |-> 0, resets |-> 0, rots |-> 0]
  BY DEF Init, Devices
<1>2. buckets = [g \in Gateways |-> buckets[g]] /\ \A g \in Gateways : CableRegistry(g, buckets[g])
  BY <1>1, PairingAssumption
<1>3. \A g \in Gateways :
        /\ RegistryOK(buckets[g])
        /\ \A i \in BucketIds : \A k \in DOMAIN buckets[g][i].recs :
             buckets[g][i].recs[k].key = CableKey(g, buckets[g][i].recs[k].addr)
  BY <1>2, StartsAreSound
<1>4. \A g \in Gateways :
        /\ PeersOf(buckets[g]) \in [Nodes -> PairKeys \cup {NoKey}]
        /\ \A n \in Nodes : PeersOf(buckets[g])[n] = Find(buckets[g], n)
        /\ \A n \in Nodes : PeersOf(buckets[g])[n] = NoKey \/
             \E i \in BucketIds : \E k \in DOMAIN buckets[g][i].recs :
               buckets[g][i].recs[k].addr = n /\ PeersOf(buckets[g])[n] = buckets[g][i].recs[k].key
  BY <1>3, PeersOfIs
<1>5. /\ NoSession \in Sessions /\ NoSession.phase = "closed" /\ NoSession.eph = <<>>
      /\ NoPairing \in Pairings /\ NoAttempt \in Attempts /\ NoAttempt.phase = "idle"
      /\ NoPairing.key = NoKey
  BY EmptyShapes DEF NoPairing
<1>6. PICK v : v = Booted(NoPairing)
  OBVIOUS
<1>7. /\ v \in NodeStates /\ v.cur = NoPairing /\ v.stored = NoPairing /\ v.at = NoAttempt
      /\ \A g \in Gateways : v.peers[g] = NoKey
  BY <1>5, <1>6 DEF Booted, NodeStates
<1>8. /\ \A g \in Gateways : gw[g] = NoSession /\ peers[g] = PeersOf(buckets[g])
      /\ \A n \in Nodes : node[n] = v
      /\ \A d \in Devices : draws[d] = 0
  BY <1>1, <1>6
<1>9. PairShapes
  <2>1. gw \in [Gateways -> Sessions] BY <1>1, <1>5
  <2>2. buckets \in [Gateways -> BucketShapes] BY <1>2, <1>3 DEF RegistryOK
  <2>3. peers \in [Gateways -> [Nodes -> PairKeys \cup {NoKey}]] BY <1>1, <1>4
  <2>4. node \in [Nodes -> NodeStates] BY <1>1, <1>6, <1>7
  <2>5. draws \in [Devices -> Nat] /\ used \in [ops : Nat, resets : Nat, rots : Nat] BY <1>1
  <2> QED BY <1>1, <2>1, <2>2, <2>3, <2>4, <2>5 DEF PairShapes
<1>10. BoundInv BY <1>1, <1>8, PairConstants DEF BoundInv
<1>11. FrameInv /\ SpentInv /\ MeetInv BY <1>1 DEF FrameInv, SpentInv, MeetInv
<1>12. SessionInv BY <1>5, <1>8 DEF SessionInv, SessionOK
<1>13. KeyInv
  <2>1. \A g \in Gateways, i \in BucketIds : \A k \in DOMAIN buckets[g][i].recs :
          Allowed(g, buckets[g][i].recs[k].addr, buckets[g][i].recs[k].key)
    BY <1>3 DEF Allowed
  <2>2. \A g \in Gateways, n \in Nodes : peers[g][n] = NoKey \/ Allowed(g, n, peers[g][n])
    BY <1>4, <1>8, <2>1
  <2> QED BY <1>7, <1>8, <2>1, <2>2 DEF KeyInv
<1>14. NodeInv
  <2>1. ASSUME NEW n \in Nodes PROVE NodeOK(n)
    <3>1. At(n) = NoAttempt /\ node[n].cur.key = NoKey /\ \A g \in Gateways : node[n].peers[g] = NoKey
      BY <1>5, <1>7, <1>8 DEF At
    <3> QED BY <1>5, <3>1 DEF NodeOK
  <2> QED BY <2>1 DEF NodeInv
<1>15. AnswerInv BY <1>1, <1>5, <1>8 DEF AnswerInv, WindowIsHonest
<1>16. ServeInv BY <1>3, <1>4, <1>8 DEF ServeInv, ServeOK
<1> QED BY <1>9, <1>10, <1>11, <1>12, <1>13, <1>14, <1>15, <1>16 DEF PairInv

LEMMA NextKeeps == PairInv /\ [Next]_vars => PairInv'
<1> SUFFICES ASSUME PairInv, [Next]_vars PROVE PairInv'
  OBVIOUS
<1>1. CASE UNCHANGED vars
  <2>1. Grows BY <1>1, GrowsIs DEF PairInv, vars
  <2> QED BY <1>1, <2>1, QuietKeeps DEF vars
<1>2. ASSUME NEW g \in Gateways, GatewayStep(g) PROVE PairInv'
  <2>1. CASE PairingOpen(g) BY <2>1, PairingOpenKeeps
  <2>2. CASE PairingCancel(g) BY <2>2, PairingCancelKeeps
  <2>3. CASE CloseWindow(g) BY <2>3, CloseWindowKeeps
  <2>4. CASE GwWait(g) BY <2>4, GwWaitKeeps
  <2>5. CASE Ready(g) BY <2>5, ReadyKeeps
  <2>6. CASE \E n \in Nodes, stored \in BOOLEAN : NodeAdd(g, n, stored) \/ NodeRemove(g, n, stored)
    BY <2>6, NodeAddKeeps, NodeRemoveKeeps
  <2>7. CASE \E f \in air, ok \in BOOLEAN : AnswerReq(g, f, ok) BY <2>7, AnswerReqKeeps
  <2>8. CASE \E f \in air, ok \in BOOLEAN, late \in 0 .. 1 : TakeNonce(g, f, ok, late)
    BY <2>8, TakeNonceKeeps
  <2>9. CASE \E f \in air, stored \in BOOLEAN : TakeConfirm(g, f, stored) BY <2>9, TakeConfirmKeeps
  <2>10. CASE GwReset(g) BY <2>10, GwResetKeeps
  <2>11. CASE \E i \in BucketIds : BucketRots(g, i) BY <2>11, BucketRotsKeeps
  <2> QED BY <1>2, <2>1, <2>2, <2>3, <2>4, <2>5, <2>6, <2>7, <2>8, <2>9, <2>10, <2>11 DEF GatewayStep
<1>3. ASSUME NEW n \in Nodes, NodeStep(n) PROVE PairInv'
  <2>1. CASE StartJoin(n) BY <2>1, StartJoinKeeps
  <2>2. CASE RevealTimeout(n) BY <2>2, RevealTimeoutKeeps
  <2>3. CASE JoinTimeout(n) BY <2>3, JoinTimeoutKeeps
  <2>4. CASE NodeReset(n) BY <2>4, NodeResetKeeps
  <2>5. CASE \E f \in air, ok \in BOOLEAN : TakeResp(n, f, ok) \/ TakeReveal(n, f, ok)
    BY <2>5, TakeRespKeeps, TakeRevealKeeps
  <2>6. CASE \E delivered, persisted \in BOOLEAN : CommitUplink(n, delivered, persisted)
    BY <2>6, CommitUplinkKeeps
  <2>7. CASE \E g \in Gateways : Provision(n, g) BY <2>7, ProvisionKeeps
  <2> QED BY <1>3, <2>1, <2>2, <2>3, <2>4, <2>5, <2>6, <2>7 DEF NodeStep
<1> QED BY <1>1, <1>2, <1>3 DEF Next

\* Every state of the pairing, whatever frames were lost, repeated or replayed, satisfies
\* the invariant: shapes, frames, handshakes, spent nonces, keys and the registry.
THEOREM PairInvariant == Spec => []PairInv
<1>1. Init => PairInv BY InitHolds
<1>2. PairInv /\ [Next]_vars => PairInv' BY NextKeeps
<1> QED BY <1>1, <1>2, PTL DEF Spec

\* A node never keeps a key from the air, in RAM or in its store, that its gateway did not
\* register, and an attempt that fails leaves the pairing in force before it (the commit
\* round of radio_push_button).
THEOREM PairingStaysWhole == Spec => []PairingIsWhole
<1>1. PairInv => PairingIsWhole
  <2> SUFFICES ASSUME PairInv PROVE PairingIsWhole
    OBVIOUS
  <2>1. \A n \in Nodes : \A rec \in {node[n].cur, node[n].stored} :
          rec = NoPairing \/ Allowed(rec.gw, n, rec.key)
    BY DEF PairInv, KeyInv
  <2>2. \A n \in Nodes, g \in Gateways :
          \/ At(n).phase = "commit" /\ At(n).host = g
          \/ node[n].peers[g] = IF node[n].cur.gw = g THEN node[n].cur.key ELSE NoKey
    BY DEF PairInv, NodeInv, NodeOK
  <2> QED BY <2>1, <2>2 DEF PairingIsWhole, Allowed
<1> QED BY <1>1, PairInvariant, PTL

LEMMA TypesHold == PairInv => TypeOK
<1> SUFFICES ASSUME PairInv PROVE TypeOK
  OBVIOUS
<1>1. \A g \in Gateways :
        /\ gw[g].phase \in {"closed", "listen", "nonce", "confirm"}
        /\ gw[g].left <= Window /\ gw[g].joiner \in Nodes \cup {NoKey}
  BY GatewayTypes, PairConstants DEF PairInv
<1>2. \A g \in Gateways, i \in BucketIds : Len(buckets[g][i].recs) <= PerBucket
  BY DEF PairInv, ServeInv, ServeOK, RegistryOK
<1>3. \A n \in Nodes : /\ At(n).phase \in Phases /\ At(n).tries \in 0 .. CommitAttempts - 1
                       /\ node[n].cur.gw \in Gateways \cup {NoKey}
  BY NodeTypes DEF PairInv, Pairings
<1>4. \A d \in Nodes \cup Gateways : draws[d] \in 0 .. MaxDraws[d]
  BY PairConstants DEF PairInv, PairShapes, BoundInv, Devices
<1> QED BY <1>1, <1>2, <1>3, <1>4 DEF TypeOK, PairInv, BoundInv

\* A gateway serves what its registry stores: one record for an address, never more records
\* than the capacity, and as long as every bucket can be read a peer table equal to the
\* registry (add, add_new, remove and Net::add_peer, whichever write fails).
THEOREM RegistryIsServed == Spec => []PeersServeRegistry
<1>1. PairInv => PeersServeRegistry
  <2> SUFFICES ASSUME PairInv PROVE PeersServeRegistry
    OBVIOUS
  <2>1. TypeOK BY TypesHold
  <2>2. \A g \in Gateways : RegistryOK(buckets[g]) /\ ServeOK(g) BY DEF PairInv, ServeInv, ServeOK
  <2> QED BY <2>1, <2>2 DEF PeersServeRegistry, ServeOK, RegistryOK, Readable
<1> QED BY <1>1, PairInvariant, PTL

\* A join ends inside its window and its request is told so; a request that was told
\* anything else never registers a node later (handshake_fits, commit_pairing).
THEOREM WindowStaysHonest == Spec => []WindowIsHonest
<1>1. PairInv => WindowIsHonest BY DEF PairInv, AnswerInv
<1> QED BY <1>1, PairInvariant, PTL

\* A gateway registers a node only while that node is in its commit round under the same
\* key, unless a device was reset, and never over an address it serves: no mix of frames of
\* earlier handshakes does it (the commitment, one ephemeral per answer, add_new).
THEOREM JoinsMeetTheirNode == Spec => JoinMeetsItsNode
<1>1. PairInv /\ [Next]_vars =>
        [\A j \in joins' \ joins :
          /\ \/ At(j.n).phase = "commit" /\ At(j.n).host = j.g /\ At(j.n).key = j.key
             \/ used.resets > 0
          /\ peers[j.g][j.n] = NoKey]_vars
  <2> SUFFICES ASSUME PairInv, [Next]_vars, NEW j \in joins' \ joins
               PROVE  /\ \/ At(j.n).phase = "commit" /\ At(j.n).host = j.g /\ At(j.n).key = j.key
                         \/ used.resets > 0
                      /\ peers[j.g][j.n] = NoKey
    OBVIOUS
  <2>1. PICK g \in Gateways : GatewayStep(g)
    BY ZenonT(30) DEF Next, vars, NodeStep, StartJoin, RevealTimeout, JoinTimeout, NodeReset, TakeResp, TakeReveal,
           CommitUplink, Provision, GwSide
  <2>2. PICK f \in air, stored \in BOOLEAN : TakeConfirm(g, f, stored)
    BY <2>1 DEF GatewayStep, PairingOpen, PairingCancel, CloseWindow, GwWait, Ready, NodeAdd, NodeRemove,
                AnswerReq, TakeNonce, GwReset, BucketRots
  <2>3. /\ gw[g].phase = "confirm" /\ f.t = "confirm" /\ f.src = gw[g].joiner /\ f.dst = g
        /\ f.b = gw[g].key
    BY <2>2 DEF TakeConfirm
  <2>4. j = [g |-> g, req |-> gw[g].req, n |-> gw[g].joiner, key |-> gw[g].key, left |-> gw[g].left - 1]
    BY <2>2 DEF TakeConfirm, CommitPairing
  <2>5. j.g = g /\ j.n = gw[g].joiner /\ j.key = gw[g].key BY <2>4
  <2>6. peers[g][gw[g].joiner] = NoKey BY <2>3 DEF PairInv, SessionInv, SessionOK
  <2>7. \/ At(f.src).phase = "commit" /\ At(f.src).host = g /\ At(f.src).key = f.b
        \/ used.resets > 0
    BY <2>3 DEF PairInv, MeetInv, MeetOK
  <2> QED BY <2>3, <2>5, <2>6, <2>7
<1> QED BY <1>1, PairInvariant, PTL DEF Spec, JoinMeetsItsNode
=============================================================================
