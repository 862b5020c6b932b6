-------------------------- MODULE HostEngineProofs --------------------------
(***************************************************************************)
(* Proofs about HostEngine.tla: every request of a client is answered once *)
(* and every join is told, however long the dongle is busy and whatever    *)
(* its full inbox drops, for every set of clients, nodes and names and     *)
(* every bound.                                                            *)
(*                                                                         *)
(* The handlers call each other, so the invariant is one of the engine     *)
(* record in a context (what the dongle holds and may still say) that each *)
(* call keeps, HInv, with two parameters for what is not settled between   *)
(* two calls: the clients whose request has left the list and who are owed *)
(* an answer, and what must have been told.  The recursive functions of    *)
(* the model are unfolded by least counterexample, lemma Least.            *)
(***************************************************************************)
EXTENDS HostEngine, NaturalsInduction, WellFoundedInduction, SequenceTheorems, TLAPS

\* The operations of the management protocol, and the fields of the engine.
Ops == {"NodeList", "NodeAdd", "NodeRemove", "NodeUpdate", "PairingOpen", "PairingCancel",
        "Query", "Describe"}
Fields == {"up", "mgmt", "next", "nodes", "synced", "gaps", "held", "recent", "unreg", "pair",
           "late", "out", "answers", "told"}
\* Requests and uplinks.
ReqRec ==
  [op : Ops, node : Addrs \cup {0}, name : OpNames \cup AutoNames \cup {NoName},
   rpc : Rpcs \cup {0}, id : Nat, sent : BOOLEAN, left : Int, holds : Int, asleep : BOOLEAN]
UpRec == [type : {"uplink"}, node : Addrs, ctr : Nat, power : {"awake", "asleep"}]

\* The seconds a request has.
Timeout(op) == IF op = "PairingOpen" THEN WindowTicks ELSE MgmtTimeout

\* The engine's fields.
Fit(e, P, T) ==
  /\ DOMAIN e = Fields
  /\ e.mgmt \in Seq(ReqRec) /\ e.out \in Seq(ReqRec)
  /\ e.next \in Nat /\ e.late \in Nat /\ e.late < e.next
  /\ e.answers \in [Rpcs -> Nat]
  /\ e.held \in Seq(UpRec) /\ e.recent \in Seq(P)
  /\ T \subseteq e.told

\* Request ids.
IdsOk(e, c) ==
  /\ \A i \in DOMAIN e.mgmt : 0 < e.mgmt[i].id /\ e.mgmt[i].id < e.next /\ e.mgmt[i].id # e.late
  /\ \A i, j \in DOMAIN e.mgmt : i # j => e.mgmt[i].id # e.mgmt[j].id
  /\ \A i \in DOMAIN e.mgmt : ~e.mgmt[i].sent =>
       e.mgmt[i].id \notin c.used /\ e.mgmt[i].left = Timeout(e.mgmt[i].op)
  /\ \A k \in DOMAIN e.out : e.out[k].id \notin c.used
  /\ \A x \in c.used : x < e.next

\* Request q, out for a seconds, is in the list of requests M, and its clock has run as long.
Carried(M, q, a) ==
  \E i \in DOMAIN M :
    M[i].id = q.id /\ M[i].op = q.op /\ M[i].sent /\ M[i].left + a = Timeout(q.op)

\* Request q went out: none that waits has its id.
Gone(e, q) ==
  0 < q.id /\ q.id < e.next /\ \A i \in DOMAIN e.mgmt : ~e.mgmt[i].sent => e.mgmt[i].id # q.id

\* What is on its way to the inbox or in it; a window there has not been given up.
SlotOk(e, c) ==
  /\ \A k \in DOMAIN c.box :
       Gone(e, c.box[k]) /\ (c.box[k].op = "PairingOpen" => Carried(e.mgmt, c.box[k], c.age))
  /\ \A k \in DOMAIN e.out :
       Gone(e, e.out[k]) /\ (e.out[k].op = "PairingOpen" => Carried(e.mgmt, e.out[k], 0))

\* A join that may still be told has its request in the list, or is the window given up; its
\* time ends before that of any later window, so no later one takes its place.
JoinsOk(e, c) ==
  /\ \A x \in c.joins :
       x = e.late \/ \E i \in DOMAIN e.mgmt :
                       e.mgmt[i].id = x /\ e.mgmt[i].op = "PairingOpen" /\ e.mgmt[i].sent
  /\ e.late \in c.joins =>
       /\ c.rem[e.late] < WindowTicks
       /\ \A i \in DOMAIN e.mgmt :
            e.mgmt[i].op = "PairingOpen" /\ e.mgmt[i].sent => c.rem[e.late] < e.mgmt[i].left
  /\ \A i \in DOMAIN e.mgmt :
       e.mgmt[i].id \in c.joins => c.rem[e.mgmt[i].id] < WindowTicks + e.mgmt[i].left
  /\ \A i, j \in DOMAIN e.mgmt :
       e.mgmt[i].op = "PairingOpen" /\ e.mgmt[j].op = "PairingOpen" => i = j

\* A request of client r is in the list.
Pending(M, r) == \E i \in DOMAIN M : M[i].rpc = r

\* The account of the clients: P posted a request, O of them are owed an answer that is no
\* longer in the list; every other one has had its answer or is in the list, once.
AccOk(e, P, O) ==
  /\ O \subseteq P /\ P \subseteq Rpcs
  /\ \A r \in Rpcs :
       /\ e.answers[r] <= 1
       /\ Pending(e.mgmt, r) => e.answers[r] = 0 /\ r \in P /\ r \notin O
       /\ r \in P /\ r \notin O /\ e.answers[r] = 0 => Pending(e.mgmt, r)
       /\ r \in O \/ r \notin P => e.answers[r] = 0
  /\ \A i, j \in DOMAIN e.mgmt :
       e.mgmt[i].rpc = e.mgmt[j].rpc /\ e.mgmt[i].rpc # 0 => i = j

\* What a handler keeps, between two of its calls too: T is what it has told.
HInv(e, c, P, O, T) ==
  Fit(e, P, T) /\ IdsOk(e, c) /\ SlotOk(e, c) /\ JoinsOk(e, c) /\ AccOk(e, P, O)

\* The answers under way, and those that tell of a join.
WireIds(w) == {w[k].id : k \in {j \in DOMAIN w : w[j].type = "answer"}}
JoinIds(w) == {w[k].id : k \in {j \in DOMAIN w : w[j].type = "answer" /\ w[j].ok /\ w[j].node # 0}}

\* The context of the handlers, from the dongle's side and the wire.
Ctx(b, a, x, w, wa, d) ==
  [box |-> b, age |-> a, used |-> {x} \cup WireIds(w), joins |-> ({x} \ {0}) \cup JoinIds(w),
   rem |-> [y \in ({x} \ {0}) \cup JoinIds(w) |->
              IF y = x THEN WindowTicks + LateTicks - wa + MaxDelay ELSE MaxDelay - d]]

\* A frame of the dongle.
MsgOk(m) ==
  \/ m.type = "answer" /\ m.id \in Nat \ {0}
  \/ m.type = "uplink" /\ m \in UpRec
  \/ m.type = "hello"

\* The frames under way: no id is answered twice.
WireOk(w) ==
  /\ w \in Seq({w[k] : k \in DOMAIN w})
  /\ \A k \in DOMAIN w : MsgOk(w[k])
  /\ \A j, k \in DOMAIN w : w[j].type = "answer" /\ w[k].type = "answer" /\ j # k => w[j].id # w[k].id

\* The dongle: what it answers, what it may still answer, and the request in its inbox differ.
DongleOk(b, a, x, w, wa, d) ==
  /\ b \in Seq(ReqRec) /\ a \in Nat /\ (b # <<>> => a < BusyTicks)
  /\ x \in Nat /\ wa \in 0 .. WindowTicks + LateTicks /\ d \in 0 .. MaxDelay
  /\ WireOk(w) /\ x \notin WireIds(w)
  /\ \A i \in DOMAIN b : 0 < b[i].id /\ b[i].id # x /\ b[i].id \notin WireIds(w)

\* The engine and the dongle between two steps.
StOk(e, b, a, x, w, wa, d, P) ==
  /\ DongleOk(b, a, x, w, wa, d)
  /\ e.out = <<>> /\ HInv(e, Ctx(b, a, x, w, wa, d), P, {}, {})

\* The clients that posted.
Posted == {r \in Rpcs : posted[r] # <<>>}

\* The inductive invariant.
EngInv ==
  /\ upCtr \in [Addrs -> Nat] /\ DOMAIN posted = Rpcs
  /\ StOk(eng, inbox, age, window, wire, winAge, delay, Posted)
  /\ ~silent

\* A context: the inbox and its age, the ids that were answered or may be, those among them
\* that may tell of a join, and the seconds until these are told at the latest.
CtxOk(c) ==
  /\ c.box \in Seq(ReqRec) /\ c.age \in Nat /\ (c.box # <<>> => c.age < BusyTicks)
  /\ c.used \subseteq Nat /\ c.joins \subseteq c.used \ {0} /\ c.rem \in [c.joins -> Nat]

\* M is a beginning of N, as far as the clock is concerned.
Ext(M, N) ==
  /\ Len(M) <= Len(N)
  /\ \A k \in 1 .. Len(M) :
       N[k].id = M[k].id /\ N[k].left = M[k].left /\ (M[k].sent => N[k].sent)

-----------------------------------------------------------------------------
\* A set of numbers that is not empty has a least one: the induction of these proofs.
LEMMA Least ==
  ASSUME NEW T, T \subseteq Nat, T # {}
  PROVE  \E n \in T : \A m \in T : n <= m
<1>1. IsWellFoundedOn(OpToRel(<, Nat), Nat) BY NatLessThanWellFounded
<1>2. \E x \in T : \A y \in T : ~ (<<y, x>> \in OpToRel(<, Nat)) BY <1>1, WFMin
<1>3. PICK x \in T : \A y \in T : ~ (<<y, x>> \in OpToRel(<, Nat)) BY <1>2
<1>4. \A y \in T : ~(y < x) BY <1>3 DEF OpToRel
<1> QED BY <1>4

\* What RemoveAt leaves, and where (Vec::remove).
LEMMA RemoveAtIs ==
  ASSUME NEW S, NEW s \in Seq(S), NEW k \in 1 .. Len(s)
  PROVE  /\ RemoveAt(s, k) \in Seq(S) /\ Len(RemoveAt(s, k)) = Len(s) - 1
         /\ \A l \in 1 .. Len(s) - 1 : RemoveAt(s, k)[l] = IF l < k THEN s[l] ELSE s[l + 1]
<1>1. PICK a : a = SubSeq(s, 1, k - 1)
  OBVIOUS
<1>2. PICK b : b = SubSeq(s, k + 1, Len(s))
  OBVIOUS
<1>3. a \in Seq(S) /\ Len(a) = k - 1 /\ \A l \in 1 .. k - 1 : a[l] = s[l] BY <1>1
<1>4. b \in Seq(S) /\ Len(b) = Len(s) - k /\ \A l \in 1 .. Len(s) - k : b[l] = s[l + k] BY <1>2
<1>5. RemoveAt(s, k) = a \o b BY <1>1, <1>2 DEF RemoveAt
<1>6. a \o b \in Seq(S) /\ Len(a \o b) = Len(s) - 1
  <2>1. a \o b \in Seq(S) /\ Len(a \o b) = Len(a) + Len(b)
    <3>1. a \in Seq(S) /\ b \in Seq(S) BY <1>3, <1>4
    <3> QED BY <3>1
  <2>2. Len(a) + Len(b) = Len(s) - 1 BY <1>3, <1>4
  <2> QED BY <2>1, <2>2
<1>7. \A l \in 1 .. Len(s) - 1 : (a \o b)[l] = IF l < k THEN s[l] ELSE s[l + 1] BY <1>3, <1>4
<1> QED BY <1>5, <1>6, <1>7

\* What Append leaves, and where (Vec::push).
LEMMA AppendFacts ==
  ASSUME NEW S, NEW s \in Seq(S), NEW x \in S
  PROVE  /\ Append(s, x) \in Seq(S) /\ Len(Append(s, x)) = Len(s) + 1
         /\ \A k \in 1 .. Len(s) : Append(s, x)[k] = s[k]
         /\ Append(s, x)[Len(s) + 1] = x
OBVIOUS

\* What send_next_mgmt does to the fields.
Marked(q) == [q EXCEPT !.sent = TRUE, !.holds = IF q.op = "PairingOpen" THEN PickupTicks ELSE -1]

\* A request that goes out is marked sent; its clock and its name stay.
LEMMA MarkedIs ==
  ASSUME NEW q \in ReqRec
  PROVE  /\ Marked(q) \in ReqRec
         /\ Marked(q).sent = TRUE
         /\ Marked(q).op = q.op /\ Marked(q).rpc = q.rpc /\ Marked(q).id = q.id
         /\ Marked(q).left = q.left
<1>1. PICK h : h = IF q.op = "PairingOpen" THEN PickupTicks ELSE -1
  OBVIOUS
<1>2. h \in Int BY <1>1, EngineAssumption
<1>3. PICK p : p = [q EXCEPT !.sent = TRUE]
  OBVIOUS
<1>4. p \in ReqRec /\ p.sent = TRUE /\ p.op = q.op /\ p.rpc = q.rpc /\ p.id = q.id /\ p.left = q.left
  BY <1>3 DEF ReqRec
<1>5. PICK r : r = [p EXCEPT !.holds = h]
  OBVIOUS
<1>6. r \in ReqRec /\ r.sent = TRUE /\ r.op = q.op /\ r.rpc = q.rpc /\ r.id = q.id /\ r.left = q.left
      /\ r.holds = h
  BY <1>2, <1>4, <1>5 DEF ReqRec
<1>7. Marked(q) = r BY <1>1, <1>3, <1>5 DEF Marked, ReqRec
<1> QED BY <1>1, <1>6, <1>7

\* send_next_mgmt marks one waiting request and sends it, or does nothing.
LEMMA SendNextIs ==
  ASSUME NEW e, DOMAIN e = Fields, e.mgmt \in Seq(ReqRec), e.out \in Seq(ReqRec),
         NEW f, f = send_next_mgmt(e), f # e
  PROVE  \E i \in 1 .. Len(e.mgmt) :
           /\ ~slotHeld(e) /\ ~e.mgmt[i].sent
           /\ DOMAIN f = Fields /\ f.mgmt \in Seq(ReqRec) /\ f.out = Append(e.out, e.mgmt[i])
           /\ \A x \in Fields \ {"mgmt", "out"} : f[x] = e[x]
           /\ Len(f.mgmt) = Len(e.mgmt)
           /\ \A k \in 1 .. Len(e.mgmt) : f.mgmt[k] = IF k = i THEN Marked(e.mgmt[i]) ELSE e.mgmt[k]
<1> DEFINE M == e.mgmt
<1>1. ~slotHeld(e) /\ ~ \A i \in DOMAIN M : M[i].sent BY DEF send_next_mgmt
<1>2. DOMAIN M = 1 .. Len(M) /\ Len(M) \in Nat
  OBVIOUS
<1> DEFINE T == {k \in 1 .. Len(M) : ~M[k].sent}
<1>3. T \subseteq Nat /\ T # {} BY <1>1, <1>2
<1>4. \E n \in T : \A m \in T : n <= m BY <1>3, Least
<1>5. \E k \in DOMAIN M : ~M[k].sent /\ \A j \in 1 .. k - 1 : M[j].sent BY <1>4, <1>2
<1> DEFINE i == CHOOSE k \in DOMAIN e.mgmt : ~e.mgmt[k].sent /\ \A j \in 1 .. k - 1 : e.mgmt[j].sent
<1>6. i \in DOMAIN M /\ ~M[i].sent BY <1>5
<1>7. f = [e EXCEPT !.mgmt[i] = Marked(e.mgmt[i]), !.out = Append(@, e.mgmt[i])]
  BY <1>1 DEF send_next_mgmt, Marked
<1> HIDE DEF i
<1>9. M[i] \in ReqRec BY <1>6
<1>10. PICK q : q = Marked(M[i])
  OBVIOUS
<1>11. q \in ReqRec BY <1>9, <1>10, MarkedIs
<1>12. PICK N : N = [M EXCEPT ![i] = q]
  OBVIOUS
<1>13. N \in Seq(ReqRec) /\ Len(N) = Len(M) /\ \A k \in 1 .. Len(M) : N[k] = IF k = i THEN q ELSE M[k]
  BY <1>6, <1>11, <1>12
<1>14. f = [e EXCEPT !.mgmt = N, !.out = Append(@, M[i])] BY <1>7, <1>10, <1>12
<1>15. DOMAIN f = Fields /\ f.mgmt = N /\ f.out = Append(e.out, M[i])
       /\ \A x \in Fields \ {"mgmt", "out"} : f[x] = e[x]
  BY <1>14 DEF Fields
<1>16. i \in 1 .. Len(M) BY <1>2, <1>6
<1> HIDE DEF M
<1> QED BY <1>1, <1>6, <1>10, <1>13, <1>15, <1>16 DEF M

\* send_next_mgmt keeps the invariant.
LEMMA SendNext ==
  ASSUME NEW e, NEW c, NEW P, NEW O, NEW T, CtxOk(c), HInv(e, c, P, O, T)
  PROVE  HInv(send_next_mgmt(e), c, P, O, T) /\ Ext(e.mgmt, send_next_mgmt(e).mgmt)
<1>0. /\ DOMAIN e = Fields /\ e.mgmt \in Seq(ReqRec) /\ e.out \in Seq(ReqRec)
      /\ Fit(e, P, T) /\ IdsOk(e, c) /\ SlotOk(e, c) /\ JoinsOk(e, c) /\ AccOk(e, P, O)
  BY DEF HInv, Fit
<1>1. CASE send_next_mgmt(e) = e
  <2>1. Ext(e.mgmt, e.mgmt) BY <1>0 DEF Ext
  <2> QED BY <1>1, <2>1
<1>2. CASE send_next_mgmt(e) # e
  <2>1. PICK f : f = send_next_mgmt(e)
    OBVIOUS
  <2>2. PICK i \in 1 .. Len(e.mgmt) :
           /\ ~slotHeld(e) /\ ~e.mgmt[i].sent
           /\ DOMAIN f = Fields /\ f.mgmt \in Seq(ReqRec) /\ f.out = Append(e.out, e.mgmt[i])
           /\ \A x \in Fields \ {"mgmt", "out"} : f[x] = e[x]
           /\ Len(f.mgmt) = Len(e.mgmt)
           /\ \A k \in 1 .. Len(e.mgmt) : f.mgmt[k] = IF k = i THEN Marked(e.mgmt[i]) ELSE e.mgmt[k]
    BY <1>0, <1>2, <2>1, SendNextIs, SMTT(30)
  <2> DEFINE M == e.mgmt
             N == f.mgmt
  <2>3. PICK q : q = M[i]
    OBVIOUS
  <2>4. /\ DOMAIN M = 1 .. Len(M) /\ DOMAIN N = 1 .. Len(M) /\ Len(M) \in Nat /\ i \in 1 .. Len(M)
        /\ M \in Seq(ReqRec) /\ N \in Seq(ReqRec) /\ Len(N) = Len(M) /\ q \in ReqRec /\ M[i] = q
    BY <1>0, <2>2, <2>3
  <2>5. /\ N[i] \in ReqRec /\ N[i].sent = TRUE
        /\ N[i].op = q.op /\ N[i].rpc = q.rpc /\ N[i].id = q.id /\ N[i].left = q.left
    <3>1. N[i] = Marked(q) BY <2>2, <2>3
    <3> QED BY <3>1, <2>4, MarkedIs, ZenonT(30)
  <2>6. \A k \in 1 .. Len(M) : k # i => N[k] = M[k] BY <2>2
  <2>7. \A k \in 1 .. Len(M) : N[k].id = M[k].id /\ N[k].op = M[k].op /\ N[k].rpc = M[k].rpc
                               /\ N[k].left = M[k].left /\ (M[k].sent => N[k].sent)
    BY <2>4, <2>5, <2>6
  <2>8. /\ f.next = e.next /\ f.late = e.late /\ f.answers = e.answers /\ f.held = e.held
        /\ f.recent = e.recent /\ f.told = e.told
    BY <2>2 DEF Fields
  <2>9. ~M[i].sent /\ ~slotHeld(e) /\ DOMAIN f = Fields /\ f.out = Append(e.out, q) BY <2>2, <2>3
  <2> HIDE DEF M, N
  <2>11. /\ f.out \in Seq(ReqRec) /\ DOMAIN f.out = 1 .. Len(e.out) + 1 /\ DOMAIN e.out = 1 .. Len(e.out)
         /\ Len(e.out) \in Nat /\ f.out[Len(e.out) + 1] = q /\ \A k \in DOMAIN e.out : f.out[k] = e.out[k]
    BY <1>0, <2>9, <2>4, AppendFacts
  <2>12. q.left \in Int /\ q.id \in Nat /\ q.op \in Ops BY <2>4 DEF ReqRec
  <2>13. Fit(f, P, T) BY <1>0, <2>4, <2>8, <2>9, <2>11 DEF Fit, M, N
  <2>14. q.id \notin c.used /\ q.left = Timeout(q.op) BY <1>0, <2>4, <2>9 DEF IdsOk, M
  <2>15. IdsOk(f, c)
    <3>1. \A k \in 1 .. Len(M) : ~N[k].sent => ~M[k].sent BY <2>7
    <3>2. \A k \in DOMAIN f.out : f.out[k].id \notin c.used BY <1>0, <2>11, <2>14 DEF IdsOk
    <3> QED BY <1>0, <2>4, <2>7, <2>8, <2>11, <2>14, <3>1, <3>2, SMTT(30) DEF IdsOk, M, N
  <2>16. SlotOk(f, c)
    <3>1. N[i].id = q.id /\ N[i].op = q.op /\ N[i].sent /\ N[i].left + 0 = Timeout(q.op)
      BY <2>5, <2>12, <2>14
    <3>2. Carried(N, q, 0) BY <3>1, <2>4 DEF Carried
    <3>3. \A x, a : Carried(M, x, a) => Carried(N, x, a) BY <2>4, <2>7 DEF Carried
    <3>4. \A k \in DOMAIN N : ~N[k].sent => N[k] = M[k] /\ k # i BY <2>4, <2>5, <2>6
    <3>5. \A x : Gone(e, x) => Gone(f, x) BY <2>4, <2>8, <3>4 DEF Gone, M, N
    <3>6. Gone(f, q) BY <1>0, <2>4, <2>8, <3>4 DEF Gone, IdsOk, M, N
    <3>7. \A k \in DOMAIN f.out : Gone(f, f.out[k]) /\ (f.out[k].op = "PairingOpen" => Carried(N, f.out[k], 0))
      BY <1>0, <2>11, <3>2, <3>3, <3>5, <3>6 DEF SlotOk, M
    <3> QED BY <1>0, <3>3, <3>5, <3>7 DEF SlotOk, M, N
  <2>17. JoinsOk(f, c)
    <3>2. q.op = "PairingOpen" => q.left = WindowTicks BY <2>14 DEF Timeout
    <3>3. \A x \in c.joins :
             x = f.late \/ \E k \in DOMAIN N : N[k].id = x /\ N[k].op = "PairingOpen" /\ N[k].sent
      BY <1>0, <2>4, <2>7, <2>8, SMTT(30) DEF JoinsOk, M
    <3>4. ASSUME f.late \in c.joins, NEW k \in DOMAIN N, N[k].op = "PairingOpen" /\ N[k].sent
          PROVE  c.rem[f.late] < N[k].left
      <4>1. CASE k = i BY <4>1, <3>2, <3>4, <1>0, <2>5, <2>8 DEF JoinsOk
      <4>2. CASE k # i BY <4>2, <3>4, <1>0, <2>4, <2>6, <2>8 DEF JoinsOk, M
      <4> QED BY <4>1, <4>2
    <3>5. \A k \in DOMAIN N : N[k].id \in c.joins => c.rem[N[k].id] < WindowTicks + N[k].left
      BY <1>0, <2>4, <2>7 DEF JoinsOk, M
    <3>6. \A j, k \in DOMAIN N : N[j].op = "PairingOpen" /\ N[k].op = "PairingOpen" => j = k
      BY <1>0, <2>4, <2>7 DEF JoinsOk, M
    <3>7. f.late \in c.joins => c.rem[f.late] < WindowTicks BY <1>0, <2>8 DEF JoinsOk
    <3> QED BY <3>3, <3>4, <3>5, <3>6, <3>7 DEF JoinsOk, N
  <2>18. AccOk(f, P, O)
    <3>1. \A r : Pending(N, r) <=> Pending(M, r) BY <2>4, <2>7 DEF Pending
    <3> QED BY <1>0, <2>4, <2>7, <2>8, <3>1 DEF AccOk, M, N
  <2>19. Ext(M, N) BY <2>4, <2>7 DEF Ext
  <2> QED BY <2>1, <2>13, <2>15, <2>16, <2>17, <2>18, <2>19 DEF HInv, M, N
<1> QED BY <1>1, <1>2

\* A request that was not sent yet.
Fresh(q) == q \in ReqRec /\ q.sent = FALSE /\ q.left = Timeout(q.op)

\* A new request was not sent and has all its time.
LEMMA ReqIsFresh ==
  ASSUME NEW op \in Ops, NEW node \in Addrs \cup {0},
         NEW name \in OpNames \cup AutoNames \cup {NoName}, NEW rpc \in Rpcs \cup {0}
  PROVE  Fresh(Req(op, node, name, rpc)) /\ Req(op, node, name, rpc).rpc = rpc
         /\ Req(op, node, name, rpc).op = op
<1>1. PICK l : l = IF op = "PairingOpen" THEN WindowTicks ELSE MgmtTimeout
  OBVIOUS
<1>2. l \in Int /\ -1 \in Int BY <1>1, EngineAssumption
<1>3. Req(op, node, name, rpc) =
        [op |-> op, node |-> node, name |-> name, rpc |-> rpc, id |-> 0, sent |-> FALSE,
         left |-> l, holds |-> -1, asleep |-> FALSE]
  BY <1>1 DEF Req
<1>4. Req(op, node, name, rpc) \in ReqRec BY <1>2, <1>3 DEF ReqRec
<1> QED BY <1>1, <1>3, <1>4 DEF Fresh, Timeout

\* The request at the end of the waiting ones, not yet considered for the slot.
Enqueued(e, q) ==
  [e EXCEPT !.mgmt = Append(@, [q EXCEPT !.id = e.next]), !.next = @ + 1]

\* A request is queued under a new id: its client is no longer owed an answer by others.
LEMMA Enqueue ==
  ASSUME NEW e, NEW c, NEW P, NEW O, NEW T, CtxOk(c), HInv(e, c, P, O, T),
         NEW q, Fresh(q), q.rpc \in O \cup {0},
         q.op = "PairingOpen" => ~pendingOp(e, "PairingOpen"),
         NEW f, f = Enqueued(e, q)
  PROVE  HInv(f, c, P, O \ {q.rpc}, T) /\ Ext(e.mgmt, f.mgmt)
<1>0. /\ DOMAIN e = Fields /\ e.mgmt \in Seq(ReqRec) /\ e.next \in Nat /\ e.late \in Nat /\ e.late < e.next
      /\ Fit(e, P, T) /\ IdsOk(e, c) /\ SlotOk(e, c) /\ JoinsOk(e, c) /\ AccOk(e, P, O)
      /\ q \in ReqRec /\ q.sent = FALSE /\ q.left = Timeout(q.op)
  BY DEF HInv, Fit, Fresh
<1>1. PICK p : p = [q EXCEPT !.id = e.next]
  OBVIOUS
<1>2. /\ p \in ReqRec /\ p.id = e.next /\ p.sent = FALSE /\ p.left = Timeout(p.op)
      /\ p.op = q.op /\ p.rpc = q.rpc
  BY <1>0, <1>1 DEF ReqRec
<1>3. PICK M : M = e.mgmt
  OBVIOUS
<1>4. PICK N : N = Append(M, p)
  OBVIOUS
<1>5. f = [e EXCEPT !.mgmt = N, !.next = @ + 1] BY <1>1, <1>3, <1>4 DEF Enqueued
<1>6. /\ DOMAIN f = Fields /\ f.mgmt = N /\ f.next = e.next + 1
      /\ f.late = e.late /\ f.answers = e.answers /\ f.held = e.held
      /\ f.recent = e.recent /\ f.told = e.told /\ f.out = e.out
  BY <1>0, <1>5 DEF Fields
<1>7. PICK n : n = Len(M) + 1
  OBVIOUS
<1>8. /\ M \in Seq(ReqRec) /\ N \in Seq(ReqRec) /\ Len(M) \in Nat /\ Len(N) = n
      /\ DOMAIN M = 1 .. Len(M) /\ DOMAIN N = 1 .. n /\ n \in 1 .. n /\ n = Len(M) + 1
      /\ (\A k \in 1 .. Len(M) : N[k] = M[k]) /\ N[n] = p
  BY <1>0, <1>2, <1>3, <1>4, <1>7, AppendFacts
<1>9. \A k \in DOMAIN N : k \in DOMAIN M \/ k = n BY <1>8
<1>10. \A k \in DOMAIN M : k \in DOMAIN N /\ N[k] = M[k] /\ k # n BY <1>8
<1>11. Fit(f, P, T) BY <1>0, <1>6, <1>8 DEF Fit
<1>12. IdsOk(f, c)
  <2>0. \A k \in DOMAIN M : M[k].id \in Nat
    <3>1. \A k \in DOMAIN M : M[k] \in ReqRec BY <1>8
    <3> QED BY <3>1 DEF ReqRec
  <2>2. \A k \in DOMAIN M : 0 < M[k].id /\ M[k].id < e.next /\ M[k].id # e.next /\ M[k].id # e.late
    BY <1>0, <1>3, <2>0 DEF IdsOk
  <2>1. \A k \in DOMAIN N : 0 < N[k].id /\ N[k].id < f.next /\ N[k].id # f.late
    BY <1>0, <1>2, <1>6, <1>8, <1>9, <1>10, <2>0, <2>2
  <2>3. \A j, k \in DOMAIN N : j # k => N[j].id # N[k].id
    BY <1>0, <1>2, <1>3, <1>8, <1>9, <1>10, <2>2 DEF IdsOk
  <2>4. e.next \notin c.used /\ \A x \in c.used : x < e.next + 1 BY <1>0 DEF IdsOk, CtxOk
  <2>5. \A k \in DOMAIN N : ~N[k].sent => N[k].id \notin c.used /\ N[k].left = Timeout(N[k].op)
    BY <1>0, <1>2, <1>3, <1>8, <1>9, <1>10, <2>4 DEF IdsOk
  <2> QED BY <1>0, <1>6, <2>1, <2>3, <2>4, <2>5 DEF IdsOk
<1>13. SlotOk(f, c)
  <2>1. \A x, a : Carried(M, x, a) => Carried(N, x, a) BY <1>10 DEF Carried
  <2>2. \A x \in ReqRec : Gone(e, x) => Gone(f, x)
    <3> SUFFICES ASSUME NEW x \in ReqRec, Gone(e, x) PROVE Gone(f, x)
      OBVIOUS
    <3>1. x.id \in Nat /\ 0 < x.id /\ x.id < e.next /\ x.id < f.next /\ N[n].id # x.id
      BY <1>0, <1>2, <1>6, <1>8 DEF Gone, ReqRec
    <3> QED BY <1>3, <1>6, <1>9, <1>10, <3>1 DEF Gone
  <2>3. (\A k \in DOMAIN c.box : c.box[k] \in ReqRec) /\ \A k \in DOMAIN e.out : e.out[k] \in ReqRec
    BY <1>0 DEF CtxOk, Fit
  <2> QED BY <1>0, <1>3, <1>6, <2>1, <2>2, <2>3 DEF SlotOk
<1>14. JoinsOk(f, c)
  <2>1. \A x \in c.joins :
             x = f.late \/ \E k \in DOMAIN N : N[k].id = x /\ N[k].op = "PairingOpen" /\ N[k].sent
    BY <1>0, <1>3, <1>6, <1>10 DEF JoinsOk
  <2>2. f.late \in c.joins =>
          /\ c.rem[f.late] < WindowTicks
          /\ \A k \in DOMAIN N : N[k].op = "PairingOpen" /\ N[k].sent => c.rem[f.late] < N[k].left
    BY <1>0, <1>2, <1>3, <1>6, <1>8, <1>9, <1>10 DEF JoinsOk
  <2>3. e.next \notin c.joins BY <1>0 DEF IdsOk, CtxOk
  <2>4. \A k \in DOMAIN N : N[k].id \in c.joins => c.rem[N[k].id] < WindowTicks + N[k].left
    BY <1>0, <1>2, <1>3, <1>8, <1>9, <1>10, <2>3 DEF JoinsOk
  <2>5. q.op = "PairingOpen" => \A k \in DOMAIN M : M[k].op # "PairingOpen" BY <1>3 DEF pendingOp
  <2>6. \A j, k \in DOMAIN N : N[j].op = "PairingOpen" /\ N[k].op = "PairingOpen" => j = k
    BY <1>0, <1>2, <1>3, <1>8, <1>9, <1>10, <2>5 DEF JoinsOk
  <2> QED BY <1>6, <2>1, <2>2, <2>4, <2>6 DEF JoinsOk
<1>15. AccOk(f, P, O \ {q.rpc})
  <2>1. \A r : Pending(N, r) <=> Pending(M, r) \/ r = q.rpc BY <1>2, <1>8, <1>9, <1>10 DEF Pending
  <2>2. q.rpc # 0 => q.rpc \in O /\ q.rpc \in Rpcs /\ q.rpc \in P /\ e.answers[q.rpc] = 0
    BY <1>0, EngineAssumption DEF AccOk
  <2>3. q.rpc # 0 => ~Pending(M, q.rpc) BY <1>0, <1>3, <2>2 DEF AccOk
  <2>4. \A j, k \in DOMAIN N : N[j].rpc = N[k].rpc /\ N[j].rpc # 0 => j = k
    BY <1>0, <1>2, <1>3, <1>8, <1>9, <1>10, <2>3 DEF AccOk, Pending
  <2>5. ASSUME NEW r \in Rpcs
        PROVE  /\ f.answers[r] <= 1
               /\ Pending(N, r) => f.answers[r] = 0 /\ r \in P /\ r \notin O \ {q.rpc}
               /\ r \in P /\ r \notin O \ {q.rpc} /\ f.answers[r] = 0 => Pending(N, r)
               /\ r \in O \ {q.rpc} \/ r \notin P => f.answers[r] = 0
    <3>1. r # 0 BY EngineAssumption
    <3> QED BY <1>0, <1>3, <1>6, <2>1, <2>2, <3>1 DEF AccOk
  <2>6. O \ {q.rpc} \subseteq P /\ P \subseteq Rpcs BY <1>0 DEF AccOk
  <2>7. \A j, k \in DOMAIN f.mgmt : f.mgmt[j].rpc = f.mgmt[k].rpc /\ f.mgmt[j].rpc # 0 => j = k
    BY <1>6, <2>4
  <2>8. \A r \in Rpcs :
               /\ f.answers[r] <= 1
               /\ Pending(f.mgmt, r) => f.answers[r] = 0 /\ r \in P /\ r \notin O \ {q.rpc}
               /\ r \in P /\ r \notin O \ {q.rpc} /\ f.answers[r] = 0 => Pending(f.mgmt, r)
               /\ r \in O \ {q.rpc} \/ r \notin P => f.answers[r] = 0
    BY <1>6, <2>5
  <2> QED BY <2>6, <2>7, <2>8, Zenon DEF AccOk
<1>16. Ext(M, N) BY <1>8 DEF Ext
<1> QED BY <1>3, <1>6, <1>11, <1>12, <1>13, <1>14, <1>15, <1>16 DEF HInv

\* Ext is transitive.
LEMMA ExtTrans ==
  ASSUME NEW L \in Seq(ReqRec), NEW M \in Seq(ReqRec), NEW N \in Seq(ReqRec), Ext(L, M), Ext(M, N)
  PROVE  Ext(L, N)
BY DEF Ext

\* queue_mgmt keeps the invariant.
LEMMA Queue ==
  ASSUME NEW e, NEW c, NEW P, NEW O, NEW T, CtxOk(c), HInv(e, c, P, O, T),
         NEW q, Fresh(q), q.rpc \in O \cup {0},
         q.op = "PairingOpen" => ~pendingOp(e, "PairingOpen")
  PROVE  HInv(queue_mgmt(e, q), c, P, O \ {q.rpc}, T) /\ Ext(e.mgmt, queue_mgmt(e, q).mgmt)
<1>1. PICK f : f = Enqueued(e, q)
  OBVIOUS
<1>2. HInv(f, c, P, O \ {q.rpc}, T) /\ Ext(e.mgmt, f.mgmt) BY <1>1, Enqueue
<1>3. PICK g : g = send_next_mgmt(f)
  OBVIOUS
<1>4. HInv(g, c, P, O \ {q.rpc}, T) /\ Ext(f.mgmt, g.mgmt) BY <1>2, <1>3, SendNext
<1>5. e.mgmt \in Seq(ReqRec) /\ f.mgmt \in Seq(ReqRec) /\ g.mgmt \in Seq(ReqRec) BY <1>2, <1>4 DEF HInv, Fit
<1>6. Ext(e.mgmt, g.mgmt) BY <1>2, <1>4, <1>5, ExtTrans
<1>7. queue_mgmt(e, q) = g BY <1>1, <1>3 DEF queue_mgmt, Enqueued
<1> QED BY <1>4, <1>6, <1>7

\* A step that leaves the requests, the ids and the answers alone.
LEMMA Touch ==
  ASSUME NEW e, NEW c, NEW P, NEW O, NEW T, HInv(e, c, P, O, T),
         NEW f, NEW S, DOMAIN f = Fields, f.held \in Seq(UpRec), S \subseteq f.told,
         f.mgmt = e.mgmt, f.out = e.out, f.next = e.next, f.late = e.late,
         f.answers = e.answers, f.recent = e.recent
  PROVE  HInv(f, c, P, O, S) /\ Ext(e.mgmt, f.mgmt)
<1>1. Fit(f, P, S) BY DEF HInv, Fit
<1>2. IdsOk(f, c) BY DEF HInv, IdsOk
<1>3. SlotOk(f, c) BY DEF HInv, SlotOk, Gone
<1>4. JoinsOk(f, c) BY DEF HInv, JoinsOk
<1>5. AccOk(f, P, O) BY DEF HInv, AccOk
<1>6. Ext(e.mgmt, f.mgmt)
  <2>1. e.mgmt \in Seq(ReqRec) BY DEF HInv, Fit
  <2> QED BY <2>1 DEF Ext
<1> QED BY <1>1, <1>2, <1>3, <1>4, <1>5, <1>6 DEF HInv

\* respond: a client that is owed an answer gets one.
LEMMA Respond ==
  ASSUME NEW e, NEW c, NEW P, NEW O, NEW T, HInv(e, c, P, O, T), NEW rpc \in O \cup {0}
  PROVE  HInv(respond(e, rpc), c, P, O \ {rpc}, T) /\ Ext(e.mgmt, respond(e, rpc).mgmt)
<1>0. /\ DOMAIN e = Fields /\ e.mgmt \in Seq(ReqRec) /\ e.answers \in [Rpcs -> Nat]
      /\ Fit(e, P, T) /\ IdsOk(e, c) /\ SlotOk(e, c) /\ JoinsOk(e, c) /\ AccOk(e, P, O)
      /\ O \subseteq P /\ P \subseteq Rpcs
  BY DEF HInv, Fit, AccOk
<1>1. Ext(e.mgmt, e.mgmt) BY <1>0 DEF Ext
<1>2. CASE rpc = 0
  <2>1. respond(e, rpc) = e /\ O \ {rpc} = O BY <1>0, <1>2, EngineAssumption DEF respond
  <2> QED BY <1>1, <2>1
<1>3. CASE rpc # 0
  <2>1. rpc \in O /\ rpc \in Rpcs /\ rpc \in P BY <1>0, <1>3
  <2>2. PICK f : f = respond(e, rpc)
    OBVIOUS
  <2>3. f = [e EXCEPT !.answers[rpc] = @ + 1] BY <1>3, <2>2 DEF respond
  <2>4. PICK A : A = [e.answers EXCEPT ![rpc] = @ + 1]
    OBVIOUS
  <2>5. A \in [Rpcs -> Nat] /\ A[rpc] = e.answers[rpc] + 1 /\ \A r \in Rpcs : r # rpc => A[r] = e.answers[r]
    BY <1>0, <2>1, <2>4
  <2>6. f = [e EXCEPT !.answers = A] BY <2>3, <2>4
  <2>7. /\ DOMAIN f = Fields /\ f.mgmt = e.mgmt /\ f.out = e.out /\ f.next = e.next /\ f.late = e.late
        /\ f.answers = A /\ f.recent = e.recent /\ f.told = e.told /\ f.held = e.held
    BY <1>0, <2>6 DEF Fields
  <2>8. Fit(f, P, T) BY <1>0, <2>5, <2>7 DEF Fit
  <2>9. IdsOk(f, c) BY <1>0, <2>7 DEF IdsOk
  <2>10. SlotOk(f, c) BY <1>0, <2>7 DEF SlotOk, Gone
  <2>11. JoinsOk(f, c) BY <1>0, <2>7 DEF JoinsOk
  <2>12. AccOk(f, P, O \ {rpc})
    <3>1. e.answers[rpc] = 0 /\ ~Pending(e.mgmt, rpc) BY <1>0, <2>1 DEF AccOk
    <3>2. A[rpc] = 1 BY <2>5, <3>1
    <3>3. ASSUME NEW r \in Rpcs
          PROVE  /\ A[r] <= 1
                 /\ Pending(e.mgmt, r) => A[r] = 0 /\ r \in P /\ r \notin O \ {rpc}
                 /\ r \in P /\ r \notin O \ {rpc} /\ A[r] = 0 => Pending(e.mgmt, r)
                 /\ r \in O \ {rpc} \/ r \notin P => A[r] = 0
      <4>1. CASE r = rpc BY <4>1, <3>1, <3>2, <2>1
      <4>2. CASE r # rpc BY <4>2, <2>5, <1>0 DEF AccOk
      <4> QED BY <4>1, <4>2
    <3>4. \A j, k \in DOMAIN e.mgmt : e.mgmt[j].rpc = e.mgmt[k].rpc /\ e.mgmt[j].rpc # 0 => j = k
      BY <1>0 DEF AccOk
    <3>5. O \ {rpc} \subseteq P /\ P \subseteq Rpcs BY <1>0
    <3> QED BY <2>7, <3>3, <3>4, <3>5, Zenon DEF AccOk
  <2> QED BY <1>1, <2>2, <2>7, <2>8, <2>9, <2>10, <2>11, <2>12 DEF HInv
<1> QED BY <1>2, <1>3

\* end_pairing touches only the window the engine shows.
LEMMA EndPairing ==
  ASSUME NEW e, NEW c, NEW P, NEW O, NEW T, HInv(e, c, P, O, T), NEW id
  PROVE  HInv(end_pairing(e, id), c, P, O, T) /\ Ext(e.mgmt, end_pairing(e, id).mgmt)
<1>1. DOMAIN e = Fields /\ e.held \in Seq(UpRec) /\ T \subseteq e.told /\ e.mgmt \in Seq(ReqRec)
  BY DEF HInv, Fit
<1>2. CASE end_pairing(e, id) = e BY <1>1, <1>2 DEF Ext
<1>3. CASE end_pairing(e, id) # e
  <2>1. PICK f : f = end_pairing(e, id)
    OBVIOUS
  <2>2. f = [e EXCEPT !.pair = 0] BY <1>3, <2>1 DEF end_pairing
  <2>3. /\ DOMAIN f = Fields /\ f.mgmt = e.mgmt /\ f.out = e.out /\ f.next = e.next /\ f.late = e.late
        /\ f.answers = e.answers /\ f.recent = e.recent /\ f.told = e.told /\ f.held = e.held
    BY <1>1, <2>2 DEF Fields
  <2>4. f.held \in Seq(UpRec) /\ T \subseteq f.told BY <1>1, <2>3
  <2> QED BY <2>1, <2>3, <2>4, Touch
<1> QED BY <1>2, <1>3

\* A listing of the engine's own is a new request.
LEMMA NodeListFresh ==
  Fresh(NodeListReq) /\ NodeListReq.rpc = 0 /\ NodeListReq.op = "NodeList"
<1>1. "NodeList" \in Ops /\ 0 \in Addrs \cup {0} /\ NoName \in OpNames \cup AutoNames \cup {NoName}
      /\ 0 \in Rpcs \cup {0}
  BY DEF Ops
<1> QED BY <1>1, ReqIsFresh DEF NodeListReq

\* A listing of the engine's own, queued.
LEMMA QueueList ==
  ASSUME NEW e, NEW c, NEW P, NEW O, NEW T, CtxOk(c), HInv(e, c, P, O, T)
  PROVE  HInv(queue_mgmt(e, NodeListReq), c, P, O, T)
         /\ Ext(e.mgmt, queue_mgmt(e, NodeListReq).mgmt)
<1>1. PICK q : q = NodeListReq
  OBVIOUS
<1>2. Fresh(q) /\ q.rpc = 0 /\ q.op # "PairingOpen" BY <1>1, NodeListFresh
<1>3. O \ {q.rpc} = O BY <1>2, EngineAssumption DEF HInv, AccOk
<1>4. q.rpc \in O \cup {0} /\ (q.op = "PairingOpen" => ~pendingOp(e, "PairingOpen")) BY <1>2
<1>5. HInv(queue_mgmt(e, q), c, P, O \ {q.rpc}, T) /\ Ext(e.mgmt, queue_mgmt(e, q).mgmt)
  BY <1>2, <1>4, Queue
<1> QED BY <1>1, <1>3, <1>5

\* fail_op keeps the invariant and answers the client of the request.
LEMMA FailOp ==
  ASSUME NEW e, NEW c, NEW P, NEW O, NEW T, CtxOk(c), HInv(e, c, P, O, T),
         NEW q, q.rpc \in O \cup {0}
  PROVE  HInv(fail_op(e, q), c, P, O \ {q.rpc}, T) /\ Ext(e.mgmt, fail_op(e, q).mgmt)
<1>1. PICK f : f = IF q.op = "PairingOpen" THEN end_pairing(e, q.id)
                   ELSE IF q.op = "NodeUpdate" /\ e.up THEN queue_mgmt(e, NodeListReq)
                   ELSE e
  OBVIOUS
<1>2. Ext(e.mgmt, e.mgmt) BY DEF HInv, Fit, Ext
<1>3. HInv(f, c, P, O, T) /\ Ext(e.mgmt, f.mgmt) BY <1>1, <1>2, EndPairing, QueueList
<1>4. fail_op(e, q) = respond(f, q.rpc) BY <1>1 DEF fail_op
<1>5. HInv(respond(f, q.rpc), c, P, O \ {q.rpc}, T) /\ Ext(f.mgmt, respond(f, q.rpc).mgmt) BY <1>3, Respond
<1>6. PICK g : g = respond(f, q.rpc)
  OBVIOUS
<1>7. e.mgmt \in Seq(ReqRec) /\ f.mgmt \in Seq(ReqRec) /\ g.mgmt \in Seq(ReqRec)
  BY <1>3, <1>5, <1>6 DEF HInv, Fit
<1>8. Ext(e.mgmt, g.mgmt) BY <1>3, <1>5, <1>6, <1>7, ExtTrans
<1> QED BY <1>4, <1>5, <1>6, <1>8

\* issue: the request is queued, or its client told.
LEMMA Issue ==
  ASSUME NEW e, NEW c, NEW P, NEW O, NEW T, CtxOk(c), HInv(e, c, P, O, T),
         NEW q, Fresh(q), q.rpc \in O \cup {0},
         q.op = "PairingOpen" => ~pendingOp(e, "PairingOpen")
  PROVE  HInv(issue(e, q), c, P, O \ {q.rpc}, T)
BY Queue, FailOp DEF issue

\* issue of a listing of the engine's own.
LEMMA IssueList ==
  ASSUME NEW e, NEW c, NEW P, NEW O, NEW T, CtxOk(c), HInv(e, c, P, O, T)
  PROVE  HInv(issue(e, NodeListReq), c, P, O, T)
<1>1. PICK q : q = NodeListReq
  OBVIOUS
<1>2. Fresh(q) /\ q.rpc = 0 /\ q.op # "PairingOpen" BY <1>1, NodeListFresh
<1>3. O \ {q.rpc} = O BY <1>2, EngineAssumption DEF HInv, AccOk
<1>4. q.rpc \in O \cup {0} /\ (q.op = "PairingOpen" => ~pendingOp(e, "PairingOpen")) BY <1>2
<1>5. HInv(issue(e, q), c, P, O \ {q.rpc}, T) BY <1>2, <1>4, Issue
<1> QED BY <1>1, <1>3, <1>5

-----------------------------------------------------------------------------
(***************************************************************************)
(* The mirror                                                              *)
(***************************************************************************)

\* issue of any request but a window.
LEMMA IssueReq ==
  ASSUME NEW e, NEW c, NEW P, NEW O, NEW T, CtxOk(c), HInv(e, c, P, O, T),
         NEW op \in Ops \ {"PairingOpen"}, NEW node \in Addrs \cup {0},
         NEW name \in OpNames \cup AutoNames \cup {NoName}, NEW rpc \in O \cup {0}
  PROVE  HInv(issue(e, Req(op, node, name, rpc)), c, P, O \ {rpc}, T)
<1>1. rpc \in Rpcs \cup {0} BY DEF HInv, AccOk
<1>2. PICK q : q = Req(op, node, name, rpc)
  OBVIOUS
<1>3. Fresh(q) /\ q.rpc = rpc /\ q.op = op BY <1>1, <1>2, ReqIsFresh
<1>4. HInv(issue(e, q), c, P, O \ {q.rpc}, T) BY <1>3, Issue
<1> QED BY <1>2, <1>3, <1>4

\* A step that changes only what the mirror is made of.
LEMMA TouchNodes ==
  ASSUME NEW e, NEW c, NEW P, NEW O, NEW T, HInv(e, c, P, O, T), NEW x
  PROVE  HInv([e EXCEPT !.nodes = x], c, P, O, T)
<1>1. DOMAIN e = Fields /\ e.held \in Seq(UpRec) /\ T \subseteq e.told BY DEF HInv, Fit
<1>2. PICK f : f = [e EXCEPT !.nodes = x]
  OBVIOUS
<1>3. /\ DOMAIN f = Fields /\ f.mgmt = e.mgmt /\ f.out = e.out /\ f.next = e.next /\ f.late = e.late
      /\ f.answers = e.answers /\ f.recent = e.recent /\ f.told = e.told /\ f.held = e.held
  BY <1>1, <1>2 DEF Fields
<1>4. f.held \in Seq(UpRec) /\ T \subseteq f.told BY <1>1, <1>3
<1>5. HInv(f, c, P, O, T) BY <1>3, <1>4, Touch
<1> QED BY <1>2, <1>5

\* A row takes a name, a flag, a highest published counter.
LEMMA TouchRow ==
  ASSUME NEW e, NEW c, NEW P, NEW O, NEW T, HInv(e, c, P, O, T), NEW n, NEW x
  PROVE  /\ HInv([e EXCEPT !.nodes[n].name = x], c, P, O, T)
         /\ HInv([e EXCEPT !.nodes[n].power = x], c, P, O, T)
         /\ HInv([e EXCEPT !.nodes[n].last = x], c, P, O, T)
         /\ HInv([e EXCEPT !.nodes[n].name = x, !.nodes[n].unnamed = FALSE], c, P, O, T)
<1>1. \A g : HInv(g, c, P, O, T) =>
        /\ HInv([g EXCEPT !.nodes = [@ EXCEPT ![n].name = x]], c, P, O, T)
        /\ HInv([g EXCEPT !.nodes = [@ EXCEPT ![n].power = x]], c, P, O, T)
        /\ HInv([g EXCEPT !.nodes = [@ EXCEPT ![n].last = x]], c, P, O, T)
        /\ HInv([g EXCEPT !.nodes = [@ EXCEPT ![n].unnamed = FALSE]], c, P, O, T)
  BY TouchNodes
<1>2. PICK f : f = [e EXCEPT !.nodes[n].name = x]
  OBVIOUS
<1>3. HInv(f, c, P, O, T) BY <1>1, <1>2
<1>4. [e EXCEPT !.nodes[n].name = x, !.nodes[n].unnamed = FALSE] = [f EXCEPT !.nodes[n].unnamed = FALSE]
  BY <1>2
<1> QED BY <1>1, <1>2, <1>3, <1>4

\* provisional_node touches only the mirror.
LEMMA ProvisionalNode ==
  ASSUME NEW e, NEW c, NEW P, NEW O, NEW T, HInv(e, c, P, O, T), NEW n, NEW name
  PROVE  HInv(provisional_node(e, n, name), c, P, O, T)
<1>1. PICK x : x = With(e.nodes, n, Row(name, name = NoName))
  OBVIOUS
<1>2. DOMAIN e = Fields BY DEF HInv, Fit
<1>3. n \notin DOMAIN e.nodes => provisional_node(e, n, name) = [e EXCEPT !.nodes = x]
  BY <1>1, <1>2 DEF provisional_node
<1>4. n \in DOMAIN e.nodes => provisional_node(e, n, name) = e BY DEF provisional_node
<1> QED BY <1>3, <1>4, TouchNodes

\* issue of new flags, and maybe a name, for a node.
LEMMA IssueUpdate ==
  ASSUME NEW e, NEW c, NEW P, NEW O, NEW T, CtxOk(c), HInv(e, c, P, O, T), NEW n \in Addrs \cup {0},
         NEW name \in OpNames \cup AutoNames \cup {NoName}, NEW power, NEW rpc \in O \cup {0}
  PROVE  HInv(issue(e, UpdateReq(n, name, power, rpc)), c, P, O \ {rpc}, T)
<1>1. rpc \in Rpcs \cup {0} /\ "NodeUpdate" \in Ops BY DEF HInv, AccOk, Ops
<1>2. PICK p : p = Req("NodeUpdate", n, name, rpc)
  OBVIOUS
<1>3. Fresh(p) /\ p.rpc = rpc /\ p.op = "NodeUpdate" BY <1>1, <1>2, ReqIsFresh
<1>4. PICK q : q = [p EXCEPT !.asleep = (power = "asleep")]
  OBVIOUS
<1>5. q \in ReqRec /\ q.sent = p.sent /\ q.left = p.left /\ q.op = p.op /\ q.rpc = p.rpc
  BY <1>3, <1>4 DEF Fresh, ReqRec
<1>6. Fresh(q) /\ q.rpc = rpc /\ q.op # "PairingOpen" BY <1>3, <1>5 DEF Fresh
<1>7. HInv(issue(e, q), c, P, O \ {q.rpc}, T) BY <1>6, Issue
<1> QED BY <1>2, <1>4, <1>6, <1>7 DEF UpdateReq

\* on_node_info: a heartbeat may queue an auto-name or a changed flag.
LEMMA OnNodeInfo ==
  ASSUME NEW e, NEW c, NEW P, NEW O, NEW T, CtxOk(c), HInv(e, c, P, O, T), NEW n \in Addrs, NEW power
  PROVE  HInv(on_node_info(e, n, power), c, P, O, T)
<1>1. PICK name : name = IF e.nodes[n].unnamed THEN auto_name(e.nodes) ELSE NoName
  OBVIOUS
<1>2. name \in OpNames \cup AutoNames \cup {NoName} BY <1>1 DEF auto_name, AutoNames
<1>3. O \ {0} = O BY EngineAssumption DEF HInv, AccOk
<1>4. PICK f : f = issue(e, UpdateReq(n, name, power, 0))
  OBVIOUS
<1>5. HInv(f, c, P, O, T) BY <1>2, <1>3, <1>4, IssueUpdate
<1>6. PICK g : g = [f EXCEPT !.nodes[n].name = name, !.nodes[n].unnamed = FALSE]
  OBVIOUS
<1>7. HInv(g, c, P, O, T) BY <1>5, <1>6, TouchRow
<1>8. HInv([f EXCEPT !.nodes[n].power = power], c, P, O, T) /\ HInv([g EXCEPT !.nodes[n].power = power], c, P, O, T)
  BY <1>5, <1>7, TouchRow
<1>9. \/ on_node_info(e, n, power) = e
      \/ on_node_info(e, n, power) = f
      \/ on_node_info(e, n, power) = [f EXCEPT !.nodes[n].power = power]
      \/ on_node_info(e, n, power) = [g EXCEPT !.nodes[n].power = power]
  BY <1>1, <1>4, <1>6 DEF on_node_info
<1> QED BY <1>5, <1>8, <1>9

\* drop_unregistered: an unknown node may queue a listing.
LEMMA DropUnregistered ==
  ASSUME NEW e, NEW c, NEW P, NEW O, NEW T, CtxOk(c), HInv(e, c, P, O, T), NEW n
  PROVE  HInv(drop_unregistered(e, n), c, P, O, T)
<1>1. DOMAIN e = Fields /\ e.held \in Seq(UpRec) /\ T \subseteq e.told BY DEF HInv, Fit
<1>2. PICK f : f = [e EXCEPT !.unreg = @ \cup {n}]
  OBVIOUS
<1>3. /\ DOMAIN f = Fields /\ f.mgmt = e.mgmt /\ f.out = e.out /\ f.next = e.next /\ f.late = e.late
      /\ f.answers = e.answers /\ f.recent = e.recent /\ f.told = e.told /\ f.held = e.held
  BY <1>1, <1>2 DEF Fields
<1>4. f.held \in Seq(UpRec) /\ T \subseteq f.told BY <1>1, <1>3
<1>5. HInv(f, c, P, O, T) BY <1>3, <1>4, Touch
<1>6. HInv(issue(f, NodeListReq), c, P, O, T) BY <1>5, IssueList
<1>7. drop_unregistered(e, n) = e \/ drop_unregistered(e, n) = issue(f, NodeListReq)
  BY <1>2 DEF drop_unregistered
<1> QED BY <1>6, <1>7

\* on_uplink keeps the invariant.
LEMMA OnUplink ==
  ASSUME NEW e, NEW c, NEW P, NEW O, NEW T, CtxOk(c), HInv(e, c, P, O, T), NEW u \in UpRec
  PROVE  HInv(on_uplink(e, u), c, P, O, T)
<1>1. DOMAIN e = Fields /\ e.held \in Seq(UpRec) /\ T \subseteq e.told BY DEF HInv, Fit
<1>2. u.node \in Addrs BY DEF UpRec
<1>3. HInv([e EXCEPT !.held = Append(@, u)], c, P, O, T)
  <2>1. PICK h : h = Append(e.held, u)
    OBVIOUS
  <2>2. h \in Seq(UpRec) BY <1>1, <2>1
  <2>3. PICK f : f = [e EXCEPT !.held = h]
    OBVIOUS
  <2>4. /\ DOMAIN f = Fields /\ f.mgmt = e.mgmt /\ f.out = e.out /\ f.next = e.next /\ f.late = e.late
        /\ f.answers = e.answers /\ f.recent = e.recent /\ f.told = e.told /\ f.held = h
    BY <1>1, <2>3 DEF Fields
  <2>5. f.held \in Seq(UpRec) /\ T \subseteq f.told BY <1>1, <2>2, <2>4
  <2>6. HInv(f, c, P, O, T) BY <2>4, <2>5, Touch
  <2> QED BY <2>1, <2>3, <2>6
<1>4. PICK g : g = [e EXCEPT !.nodes[u.node].last = u.ctr]
  OBVIOUS
<1>5. HInv(g, c, P, O, T) BY <1>4, TouchRow
<1>6. HInv(on_node_info(g, u.node, u.power), c, P, O, T) BY <1>2, <1>5, OnNodeInfo
<1>7. HInv(drop_unregistered(e, u.node), c, P, O, T) BY DropUnregistered
<1>8. \/ on_uplink(e, u) = e
      \/ on_uplink(e, u) = [e EXCEPT !.held = Append(@, u)]
      \/ on_uplink(e, u) = on_node_info(g, u.node, u.power)
      \/ on_uplink(e, u) = drop_unregistered(e, u.node)
  BY <1>4 DEF on_uplink
<1> QED BY <1>3, <1>6, <1>7, <1>8

\* on_paired: the join is told, and a listing queued.
LEMMA OnPaired ==
  ASSUME NEW e, NEW c, NEW P, NEW O, NEW T, CtxOk(c), HInv(e, c, P, O, T), NEW n
  PROVE  HInv(on_paired(e, n), c, P, O, {n})
<1>1. PICK g : g = provisional_node(e, n, NoName)
  OBVIOUS
<1>2. HInv(g, c, P, O, T) BY <1>1, ProvisionalNode
<1>3. DOMAIN g = Fields /\ g.held \in Seq(UpRec) BY <1>2 DEF HInv, Fit
<1>4. PICK f : f = [g EXCEPT !.told = @ \cup {n}]
  OBVIOUS
<1>5. /\ DOMAIN f = Fields /\ f.mgmt = g.mgmt /\ f.out = g.out /\ f.next = g.next /\ f.late = g.late
      /\ f.answers = g.answers /\ f.recent = g.recent /\ f.held = g.held /\ {n} \subseteq f.told
  BY <1>3, <1>4 DEF Fields
<1>6. f.held \in Seq(UpRec) BY <1>3, <1>5
<1>7. HInv(f, c, P, O, {n}) BY <1>2, <1>5, <1>6, Touch
<1>8. HInv(issue(f, NodeListReq), c, P, O, {n}) BY <1>7, IssueList
<1>9. on_paired(e, n) = issue(f, NodeListReq) BY <1>1, <1>4 DEF on_paired
<1> QED BY <1>8, <1>9

-----------------------------------------------------------------------------
(***************************************************************************)
(* Answers of the dongle                                                   *)
(***************************************************************************)

\* The recursive function of on_uplinks exists.
UplinksRun(run, e, us, k) ==
  run = [n \in 0 .. k |-> IF n = 0 THEN e ELSE on_uplink(run[n - 1], us[n])]

\* Were there a least length without such a function, the one before extends.
LEMMA UplinksRunExists ==
  ASSUME NEW e, NEW us, NEW k \in Nat
  PROVE  \E run : UplinksRun(run, e, us, k)
<1> DEFINE T == {n \in Nat : ~ \E run : UplinksRun(run, e, us, n)}
<1> SUFFICES ASSUME T # {} PROVE FALSE
  OBVIOUS
<1>1. PICK n \in T : \A m \in T : n <= m BY Least
<1>2. n # 0
  <2>1. PICK g : g = [i \in 0 .. 0 |-> e]
    OBVIOUS
  <2>2. UplinksRun(g, e, us, 0) BY <2>1 DEF UplinksRun
  <2> QED BY <1>1, <2>2
<1>3. n - 1 \in Nat /\ n - 1 \notin T BY <1>1, <1>2
<1>4. PICK g : UplinksRun(g, e, us, n - 1) BY <1>3
<1>5. PICK h : h = [i \in 0 .. n |-> IF i < n THEN g[i] ELSE on_uplink(g[n - 1], us[n])]
  OBVIOUS
<1>6. ASSUME NEW i \in 0 .. n
      PROVE  h[i] = IF i = 0 THEN e ELSE on_uplink(h[i - 1], us[i])
  <2>1. CASE i = 0 BY <2>1, <1>2, <1>4, <1>5 DEF UplinksRun
  <2>2. CASE i # 0 /\ i < n BY <2>2, <1>4, <1>5 DEF UplinksRun
  <2>3. CASE i = n BY <2>3, <1>2, <1>5
  <2> QED BY <2>1, <2>2, <2>3
<1>7. UplinksRun(h, e, us, n) BY <1>5, <1>6 DEF UplinksRun
<1> QED BY <1>1, <1>7

\* on_uplinks: so do the uplinks that were held.
LEMMA OnUplinks ==
  ASSUME NEW e, NEW c, NEW P, NEW O, NEW T, CtxOk(c), HInv(e, c, P, O, T), NEW us \in Seq(UpRec)
  PROVE  HInv(on_uplinks(e, us), c, P, O, T)
<1>1. Len(us) \in Nat
  OBVIOUS
<1>2. \E run : UplinksRun(run, e, us, Len(us)) BY <1>1, UplinksRunExists
<1> DEFINE run == CHOOSE run : run = [n \in 0 .. Len(us) |-> IF n = 0 THEN e ELSE on_uplink(run[n - 1], us[n])]
<1>3. run = [n \in 0 .. Len(us) |-> IF n = 0 THEN e ELSE on_uplink(run[n - 1], us[n])]
  <2>1. \E r : r = [n \in 0 .. Len(us) |-> IF n = 0 THEN e ELSE on_uplink(r[n - 1], us[n])]
    BY <1>2 DEF UplinksRun
  <2> QED BY <2>1, Zenon
<1>4. on_uplinks(e, us) = run[Len(us)] BY DEF on_uplinks
<1> HIDE DEF run
<1> DEFINE B == {n \in 0 .. Len(us) : ~HInv(run[n], c, P, O, T)}
<1> SUFFICES ASSUME B # {} PROVE FALSE BY <1>1, <1>4
<1>12. B \subseteq Nat BY <1>1
<1>5. PICK n \in B : \A m \in B : n <= m BY <1>12, Least
<1>6. run[0] = e BY <1>3, <1>1
<1>7. n \in 1 .. Len(us) /\ n - 1 \in 0 .. Len(us) /\ n - 1 \notin B BY <1>5, <1>6, <1>1
<1>8. run[n] = on_uplink(run[n - 1], us[n]) BY <1>3, <1>7, <1>1
<1>9. HInv(run[n - 1], c, P, O, T) /\ us[n] \in UpRec BY <1>7
<1>10. HInv(run[n], c, P, O, T) BY <1>8, <1>9, OnUplink
<1> QED BY <1>5, <1>10

\* The count of listings with a gap changes.
LEMMA TouchGaps ==
  ASSUME NEW e, NEW c, NEW P, NEW O, NEW T, HInv(e, c, P, O, T), NEW x
  PROVE  HInv([e EXCEPT !.gaps = x], c, P, O, T)
<1>1. DOMAIN e = Fields /\ e.held \in Seq(UpRec) /\ T \subseteq e.told BY DEF HInv, Fit
<1>2. PICK f : f = [e EXCEPT !.gaps = x]
  OBVIOUS
<1>3. /\ DOMAIN f = Fields /\ f.mgmt = e.mgmt /\ f.out = e.out /\ f.next = e.next /\ f.late = e.late
      /\ f.answers = e.answers /\ f.recent = e.recent /\ f.told = e.told /\ f.held = e.held
  BY <1>1, <1>2 DEF Fields
<1>4. f.held \in Seq(UpRec) /\ T \subseteq f.told BY <1>1, <1>3
<1>5. HInv(f, c, P, O, T) BY <1>3, <1>4, Touch
<1> QED BY <1>2, <1>5

\* on_listed keeps the invariant.
LEMMA OnListed ==
  ASSUME NEW e, NEW c, NEW P, NEW O, NEW T, CtxOk(c), HInv(e, c, P, O, T),
         NEW q, q.rpc \in O \cup {0}, NEW m
  PROVE  HInv(on_listed(e, q, m), c, P, O \ {q.rpc}, T)
<1>1. PICK Q : Q = O \ {q.rpc}
  OBVIOUS
<1>2. CASE ~m.whole
  <2>1. PICK g : g = [e EXCEPT !.gaps = @ + 1]
    OBVIOUS
  <2>2. HInv(g, c, P, O, T) BY <2>1, TouchGaps
  <2>3. PICK f : f = respond(g, q.rpc)
    OBVIOUS
  <2>4. HInv(f, c, P, Q, T) BY <1>1, <2>2, <2>3, Respond
  <2>5. HInv(issue(f, NodeListReq), c, P, Q, T) BY <2>4, IssueList
  <2>6. on_listed(e, q, m) = f \/ on_listed(e, q, m) = issue(f, NodeListReq)
    BY <1>2, <2>1, <2>3 DEF on_listed
  <2> QED BY <1>1, <2>4, <2>5, <2>6
<1>3. CASE m.whole
  <2>1. PICK g : g = [e EXCEPT !.gaps = 0]
    OBVIOUS
  <2>2. HInv(g, c, P, O, T) BY <2>1, TouchGaps
  <2>3. PICK h : h = merge_registry(g, m.list)
    OBVIOUS
  <2>4. HInv(h, c, P, O, T) BY <2>2, <2>3, TouchNodes DEF merge_registry
  <2>5. PICK f : f = respond(h, q.rpc)
    OBVIOUS
  <2>6. HInv(f, c, P, Q, T) BY <1>1, <2>4, <2>5, Respond
  <2>7. DOMAIN f = Fields /\ f.held \in Seq(UpRec) /\ T \subseteq f.told BY <2>6 DEF HInv, Fit
  <2>8. PICK k : k = [f EXCEPT !.synced = TRUE, !.held = <<>>]
    OBVIOUS
  <2>9. /\ DOMAIN k = Fields /\ k.mgmt = f.mgmt /\ k.out = f.out /\ k.next = f.next /\ k.late = f.late
        /\ k.answers = f.answers /\ k.recent = f.recent /\ k.told = f.told /\ k.held = <<>>
    BY <2>7, <2>8 DEF Fields
  <2>10. k.held \in Seq(UpRec) /\ T \subseteq k.told BY <2>7, <2>9
  <2>11. HInv(k, c, P, Q, T) BY <2>6, <2>9, <2>10, Touch
  <2>12. HInv(on_uplinks(k, f.held), c, P, Q, T) BY <2>7, <2>11, OnUplinks
  <2>13. on_listed(e, q, m) = f \/ on_listed(e, q, m) = on_uplinks(k, f.held)
    BY <1>3, <2>1, <2>3, <2>5, <2>8 DEF on_listed
  <2> QED BY <1>1, <2>6, <2>12, <2>13
<1> QED BY <1>2, <1>3

\* on_window_done answers the client and tells the join.
LEMMA OnWindowDone ==
  ASSUME NEW e, NEW c, NEW P, NEW O, NEW T, CtxOk(c), HInv(e, c, P, O, T),
         NEW q, q.rpc \in O \cup {0}, NEW m
  PROVE  HInv(on_window_done(e, q, m), c, P, O \ {q.rpc}, {m.node})
<1>1. HInv(end_pairing(e, q.id), c, P, O, T) BY EndPairing
<1>2. HInv(on_paired(end_pairing(e, q.id), m.node), c, P, O, {m.node}) BY <1>1, OnPaired
<1> QED BY <1>2, Respond DEF on_window_done

\* on_refused answers the client.
LEMMA OnRefused ==
  ASSUME NEW e, NEW c, NEW P, NEW O, NEW T, CtxOk(c), HInv(e, c, P, O, T),
         NEW q, q.rpc \in O \cup {0}
  PROVE  HInv(on_refused(e, q), c, P, O \ {q.rpc}, T)
<1>1. HInv(end_pairing(e, q.id), c, P, O, T) BY EndPairing
<1>2. PICK g : g = IF q.op = "PairingOpen" THEN end_pairing(e, q.id) ELSE e
  OBVIOUS
<1>3. HInv(g, c, P, O, T) BY <1>1, <1>2
<1>4. PICK f : f = respond(g, q.rpc)
  OBVIOUS
<1>5. PICK Q : Q = O \ {q.rpc}
  OBVIOUS
<1>6. HInv(f, c, P, Q, T) BY <1>3, <1>4, <1>5, Respond
<1>7. HInv(issue(f, NodeListReq), c, P, Q, T) BY <1>6, IssueList
<1>8. on_refused(e, q) = f \/ on_refused(e, q) = issue(f, NodeListReq) BY <1>2, <1>4 DEF on_refused
<1> QED BY <1>5, <1>6, <1>7, <1>8

\* on_mgmt_done answers the client of the request that left the list.
LEMMA OnMgmtDone ==
  ASSUME NEW e, NEW c, NEW P, NEW O, NEW T, CtxOk(c), HInv(e, c, P, O, T),
         NEW q, q.rpc \in O \cup {0}, q.op \in Ops, NEW m
  PROVE  /\ HInv(on_mgmt_done(e, q, m), c, P, O \ {q.rpc}, {})
         /\ q.op = "PairingOpen" /\ m.ok => HInv(on_mgmt_done(e, q, m), c, P, O \ {q.rpc}, {m.node})
<1>0. PICK Q : Q = O \ {q.rpc}
  OBVIOUS
<1>1. \A f, S : HInv(f, c, P, Q, S) => HInv(f, c, P, Q, {}) BY DEF HInv, Fit
<1>2. CASE ~m.ok
  <2>1. on_mgmt_done(e, q, m) = on_refused(e, q) BY <1>2 DEF on_mgmt_done
  <2> QED BY <1>0, <1>1, <1>2, <2>1, OnRefused
<1>3. CASE m.ok /\ q.op = "NodeList"
  <2>1. on_mgmt_done(e, q, m) = on_listed(e, q, m) BY <1>3 DEF on_mgmt_done
  <2> QED BY <1>0, <1>1, <1>3, <2>1, OnListed
<1>4. CASE m.ok /\ q.op = "NodeAdd"
  <2>1. PICK g : g = provisional_node(e, q.node, q.name)
    OBVIOUS
  <2>2. HInv(g, c, P, O, T) BY <2>1, ProvisionalNode
  <2>3. PICK h : h = [g EXCEPT !.nodes[q.node].last = 0]
    OBVIOUS
  <2>4. HInv(h, c, P, O, T) BY <2>2, <2>3, TouchRow
  <2>5. HInv(respond(h, q.rpc), c, P, Q, T) BY <1>0, <2>4, Respond
  <2>6. HInv(issue(respond(h, q.rpc), NodeListReq), c, P, Q, T) BY <2>5, IssueList
  <2>7. on_mgmt_done(e, q, m) = issue(respond(h, q.rpc), NodeListReq) BY <1>4, <2>1, <2>3 DEF on_mgmt_done
  <2> QED BY <1>0, <1>1, <1>4, <2>6, <2>7
<1>5. CASE m.ok /\ q.op = "NodeRemove"
  <2>1. PICK h : h = [e EXCEPT !.nodes = Without(@, {q.node})]
    OBVIOUS
  <2>2. HInv(h, c, P, O, T) BY <2>1, TouchNodes
  <2>3. HInv(respond(h, q.rpc), c, P, Q, T) BY <1>0, <2>2, Respond
  <2>4. on_mgmt_done(e, q, m) = respond(h, q.rpc) BY <1>5, <2>1 DEF on_mgmt_done
  <2> QED BY <1>0, <1>1, <1>5, <2>3, <2>4
<1>6. CASE m.ok /\ q.op = "NodeUpdate"
  <2>1. HInv(respond(e, q.rpc), c, P, Q, T) BY <1>0, Respond
  <2>2. HInv(issue(respond(e, q.rpc), NodeListReq), c, P, Q, T) BY <2>1, IssueList
  <2>3. on_mgmt_done(e, q, m) = issue(respond(e, q.rpc), NodeListReq) BY <1>6 DEF on_mgmt_done
  <2> QED BY <1>0, <1>1, <1>6, <2>2, <2>3
<1>7. CASE m.ok /\ q.op = "PairingOpen"
  <2>1. on_mgmt_done(e, q, m) = on_window_done(e, q, m) BY <1>7 DEF on_mgmt_done
  <2> QED BY <1>0, <1>1, <1>7, <2>1, OnWindowDone
<1>8. CASE m.ok /\ q.op \in {"Query", "Describe", "PairingCancel"}
  <2>1. on_mgmt_done(e, q, m) = respond(e, q.rpc) BY <1>8 DEF on_mgmt_done
  <2> QED BY <1>0, <1>1, <1>8, <2>1, Respond
<1> QED BY <1>2, <1>3, <1>4, <1>5, <1>6, <1>7, <1>8 DEF Ops

\* A sequence without one element: what is left, and where.
LEMMA Without1 ==
  ASSUME NEW M \in Seq(ReqRec), NEW i \in DOMAIN M, NEW N, N = RemoveAt(M, i)
  PROVE  /\ N \in Seq(ReqRec) /\ Len(N) = Len(M) - 1
         /\ \A k \in DOMAIN N : \E l \in DOMAIN M \ {i} : N[k] = M[l]
         /\ \A l \in DOMAIN M \ {i} : \E k \in DOMAIN N : N[k] = M[l]
         /\ \A j, k \in DOMAIN N : j # k => \E l, n \in DOMAIN M : l # n /\ N[j] = M[l] /\ N[k] = M[n]
<1>1. DOMAIN M = 1 .. Len(M) /\ Len(M) \in Nat /\ i \in 1 .. Len(M)
  OBVIOUS
<1>2. /\ N \in Seq(ReqRec) /\ Len(N) = Len(M) - 1
      /\ \A l \in 1 .. Len(M) - 1 : N[l] = IF l < i THEN M[l] ELSE M[l + 1]
  BY <1>1, RemoveAtIs
<1>3. DOMAIN N = 1 .. Len(M) - 1 BY <1>2
<1> DEFINE at(k) == IF k < i THEN k ELSE k + 1
<1>4. \A k \in DOMAIN N : at(k) \in DOMAIN M \ {i} /\ N[k] = M[at(k)] BY <1>1, <1>2, <1>3
<1>5. \A j, k \in DOMAIN N : j # k => at(j) # at(k) BY <1>1, <1>3
<1>6. ASSUME NEW l \in DOMAIN M \ {i}
      PROVE  \E k \in DOMAIN N : N[k] = M[l]
  <2>1. CASE l < i BY <2>1, <1>1, <1>2, <1>3
  <2>2. CASE l > i
    <3>1. l - 1 \in DOMAIN N /\ N[l - 1] = M[l] BY <2>2, <1>1, <1>2, <1>3
    <3> QED BY <3>1
  <2> QED BY <1>1, <2>1, <2>2
<1>7. \A k \in DOMAIN N : at(k) \in DOMAIN M BY <1>4
<1> HIDE DEF at
<1>8. \A j, k \in DOMAIN N : j # k => \E l, n \in DOMAIN M : l # n /\ N[j] = M[l] /\ N[k] = M[n]
  BY <1>4, <1>5, <1>7
<1> QED BY <1>2, <1>4, <1>6, <1>8

\* A request leaves the list: its client is owed an answer.
LEMMA Removed ==
  ASSUME NEW e, NEW c, NEW P, NEW O, NEW T, CtxOk(c), HInv(e, c, P, O, T),
         NEW i \in DOMAIN e.mgmt,
         \A k \in DOMAIN c.box : c.box[k].op = "PairingOpen" => c.box[k].id # e.mgmt[i].id,
         \A k \in DOMAIN e.out : e.out[k].op = "PairingOpen" => e.out[k].id # e.mgmt[i].id,
         NEW f, DOMAIN f = Fields, f.mgmt = RemoveAt(e.mgmt, i),
         f.late = e.late \/ f.late = e.mgmt[i].id,
         f.out = e.out, f.next = e.next, f.answers = e.answers, f.recent = e.recent,
         f.told = e.told, f.held = e.held, JoinsOk(f, c)
  PROVE  HInv(f, c, P, O \cup ({e.mgmt[i].rpc} \ {0}), T)
<1>0. /\ e.mgmt \in Seq(ReqRec) /\ e.next \in Nat
      /\ Fit(e, P, T) /\ IdsOk(e, c) /\ SlotOk(e, c) /\ AccOk(e, P, O)
  BY DEF HInv, Fit
<1>1. PICK M, N : M = e.mgmt /\ N = f.mgmt
  OBVIOUS
<1>2. M \in Seq(ReqRec) /\ i \in DOMAIN M /\ N = RemoveAt(M, i) BY <1>0, <1>1
<1>3. /\ N \in Seq(ReqRec) /\ Len(N) = Len(M) - 1
      /\ \A k \in DOMAIN N : \E l \in DOMAIN M \ {i} : N[k] = M[l]
      /\ \A l \in DOMAIN M \ {i} : \E k \in DOMAIN N : N[k] = M[l]
      /\ \A j, k \in DOMAIN N : j # k => \E l, n \in DOMAIN M : l # n /\ N[j] = M[l] /\ N[k] = M[n]
  BY <1>2, Without1
<1>4. M[i] \in ReqRec /\ M[i].id \in Nat /\ M[i].id < e.next /\ M[i].rpc \in Rpcs \cup {0}
  <2>1. M[i] \in ReqRec BY <1>2
  <2>2. M[i].id < e.next BY <1>0, <1>1 DEF IdsOk
  <2> QED BY <2>1, <2>2 DEF ReqRec
<1>5. \A l \in DOMAIN M \ {i} : M[l].id # M[i].id /\ (M[l].rpc # 0 => M[l].rpc # M[i].rpc)
  BY <1>0, <1>1 DEF IdsOk, AccOk
<1>6. Fit(f, P, T) BY <1>0, <1>1, <1>3, <1>4 DEF Fit
<1>7. IdsOk(f, c)
  <2>1. \A k \in DOMAIN N : 0 < N[k].id /\ N[k].id < f.next /\ N[k].id # f.late
    BY <1>0, <1>1, <1>3, <1>5 DEF IdsOk
  <2>4. \A j, k \in DOMAIN M : j # k => M[j].id # M[k].id BY <1>0, <1>1 DEF IdsOk
  <2>2. ASSUME NEW j \in DOMAIN N, NEW k \in DOMAIN N, j # k
        PROVE  N[j].id # N[k].id
    <3>1. PICK l, n \in DOMAIN M : l # n /\ N[j] = M[l] /\ N[k] = M[n] BY <1>3, <2>2
    <3> QED BY <3>1, <2>4
  <2>3. \A k \in DOMAIN N : ~N[k].sent => N[k].id \notin c.used /\ N[k].left = Timeout(N[k].op)
    BY <1>0, <1>1, <1>3 DEF IdsOk
  <2> QED BY <1>0, <1>1, <2>1, <2>2, <2>3 DEF IdsOk
<1>8. SlotOk(f, c)
  <2>1. \A q, a : Carried(M, q, a) /\ q.id # M[i].id => Carried(N, q, a)
    <3> SUFFICES ASSUME NEW q, NEW a, Carried(M, q, a), q.id # M[i].id PROVE Carried(N, q, a)
      OBVIOUS
    <3>1. PICK l \in DOMAIN M :
            /\ M[l].id = q.id /\ M[l].op = q.op /\ M[l].sent
            /\ M[l].left + a = Timeout(q.op)
      BY DEF Carried
    <3>2. l \in DOMAIN M \ {i} BY <3>1
    <3>3. PICK k \in DOMAIN N : N[k] = M[l] BY <3>2, <1>3
    <3> QED BY <3>1, <3>3 DEF Carried
  <2>2. \A q : Gone(e, q) => Gone(f, q) BY <1>1, <1>3 DEF Gone
  <2> QED BY <1>0, <1>1, <2>1, <2>2 DEF SlotOk
<1>9. AccOk(f, P, O \cup ({M[i].rpc} \ {0}))
  <2>1. PICK Q : Q = O \cup ({M[i].rpc} \ {0})
    OBVIOUS
  <2>2. \A r \in Rpcs : Pending(N, r) <=> Pending(M, r) /\ r # M[i].rpc
    <3>1. ASSUME NEW r \in Rpcs, Pending(N, r) PROVE Pending(M, r) /\ r # M[i].rpc
      <4>1. r # 0 BY EngineAssumption
      <4> QED BY <3>1, <4>1, <1>3, <1>5 DEF Pending
    <3>2. ASSUME NEW r \in Rpcs, Pending(M, r), r # M[i].rpc PROVE Pending(N, r)
      <4>1. PICK l \in DOMAIN M : M[l].rpc = r BY <3>2 DEF Pending
      <4>2. l \in DOMAIN M \ {i} BY <4>1, <3>2
      <4> QED BY <4>1, <4>2, <1>3 DEF Pending
    <3> QED BY <3>1, <3>2
  <2>3. M[i].rpc # 0 => Pending(M, M[i].rpc) /\ M[i].rpc \in Rpcs BY <1>2, <1>4 DEF Pending
  <2>4. Q \subseteq P /\ P \subseteq Rpcs BY <1>0, <1>1, <2>1, <2>3 DEF AccOk
  <2>5. ASSUME NEW r \in Rpcs
        PROVE  /\ f.answers[r] <= 1
               /\ Pending(N, r) => f.answers[r] = 0 /\ r \in P /\ r \notin Q
               /\ r \in P /\ r \notin Q /\ f.answers[r] = 0 => Pending(N, r)
               /\ r \in Q \/ r \notin P => f.answers[r] = 0
    <3>1. r # 0 BY EngineAssumption
    <3>2. Pending(N, r) <=> Pending(M, r) /\ r # M[i].rpc BY <2>2
    <3>3. r \in Q <=> r \in O \/ r = M[i].rpc BY <2>1, <3>1
    <3>4. r = M[i].rpc => Pending(M, r) BY <2>3, <3>1
    <3>5. /\ e.answers[r] <= 1
          /\ Pending(M, r) => e.answers[r] = 0 /\ r \in P /\ r \notin O
          /\ r \in P /\ r \notin O /\ e.answers[r] = 0 => Pending(M, r)
          /\ r \in O \/ r \notin P => e.answers[r] = 0
      BY <1>0, <1>1 DEF AccOk
    <3> QED BY <3>2, <3>3, <3>4, <3>5
  <2>6. \A j, k \in DOMAIN N : N[j].rpc = N[k].rpc /\ N[j].rpc # 0 => j = k
    BY <1>0, <1>1, <1>3, SMTT(30) DEF AccOk
  <2> QED BY <1>1, <2>1, <2>4, <2>5, <2>6, Zenon DEF AccOk
<1> QED BY <1>1, <1>6, <1>7, <1>8, <1>9 DEF HInv

\* An answered request leaves: no join depends on it.
LEMMA Answered ==
  ASSUME NEW e, NEW c, NEW P, NEW O, NEW T, CtxOk(c), HInv(e, c, P, O, T),
         NEW i \in DOMAIN e.mgmt, e.out = <<>>, e.mgmt[i].id \notin c.joins,
         \A k \in DOMAIN c.box : c.box[k].id # e.mgmt[i].id
  PROVE  HInv([e EXCEPT !.mgmt = RemoveAt(@, i)], c, P, O \cup ({e.mgmt[i].rpc} \ {0}), T)
<1>0. e.mgmt \in Seq(ReqRec) /\ DOMAIN e = Fields /\ JoinsOk(e, c) BY DEF HInv, Fit
<1>1. PICK M, N : M = e.mgmt /\ N = RemoveAt(M, i)
  OBVIOUS
<1>2. PICK f : f = [e EXCEPT !.mgmt = N]
  OBVIOUS
<1>3. /\ DOMAIN f = Fields /\ f.mgmt = N /\ f.out = e.out /\ f.next = e.next /\ f.late = e.late
      /\ f.answers = e.answers /\ f.recent = e.recent /\ f.told = e.told /\ f.held = e.held
  BY <1>0, <1>2 DEF Fields
<1>4. M \in Seq(ReqRec) /\ i \in DOMAIN M /\ N = RemoveAt(M, i) BY <1>0, <1>1
<1>5. /\ \A k \in DOMAIN N : \E l \in DOMAIN M \ {i} : N[k] = M[l]
      /\ \A l \in DOMAIN M \ {i} : \E k \in DOMAIN N : N[k] = M[l]
      /\ \A j, k \in DOMAIN N : j # k => \E l, n \in DOMAIN M : l # n /\ N[j] = M[l] /\ N[k] = M[n]
  BY <1>4, Without1
<1>6. JoinsOk(f, c)
  <2>1. \A x \in c.joins :
             x = f.late \/ \E k \in DOMAIN N : N[k].id = x /\ N[k].op = "PairingOpen" /\ N[k].sent
    <3> SUFFICES ASSUME NEW x \in c.joins, x # f.late
                 PROVE  \E k \in DOMAIN N : N[k].id = x /\ N[k].op = "PairingOpen" /\ N[k].sent
      OBVIOUS
    <3>1. PICK l \in DOMAIN M : M[l].id = x /\ M[l].op = "PairingOpen" /\ M[l].sent
      BY <1>0, <1>1, <1>3 DEF JoinsOk
    <3>2. l \in DOMAIN M \ {i} BY <3>1, <1>1
    <3> QED BY <3>1, <3>2, <1>5
  <2>2. f.late \in c.joins =>
          /\ c.rem[f.late] < WindowTicks
          /\ \A k \in DOMAIN N : N[k].op = "PairingOpen" /\ N[k].sent => c.rem[f.late] < N[k].left
    BY <1>0, <1>1, <1>3, <1>5 DEF JoinsOk
  <2>3. \A k \in DOMAIN N : N[k].id \in c.joins => c.rem[N[k].id] < WindowTicks + N[k].left
    BY <1>0, <1>1, <1>5 DEF JoinsOk
  <2>4. \A j, k \in DOMAIN N : N[j].op = "PairingOpen" /\ N[k].op = "PairingOpen" => j = k
    BY <1>0, <1>1, <1>5 DEF JoinsOk
  <2> QED BY <1>3, <2>1, <2>2, <2>3, <2>4 DEF JoinsOk
<1>7. \A k \in DOMAIN e.out : e.out[k].id # e.mgmt[i].id
  OBVIOUS
<1>8. f.mgmt = RemoveAt(e.mgmt, i) BY <1>1, <1>3
<1>9. HInv(f, c, P, O \cup ({e.mgmt[i].rpc} \ {0}), T) BY <1>3, <1>6, <1>7, <1>8, Removed
<1> QED BY <1>1, <1>2, <1>9

\* The window given up on is over.
LEMMA LateAnswered ==
  ASSUME NEW e, NEW c, NEW P, NEW O, NEW T, CtxOk(c), HInv(e, c, P, O, T), e.late \notin c.joins
  PROVE  HInv([e EXCEPT !.late = 0], c, P, O, T)
<1>0. /\ DOMAIN e = Fields /\ e.next \in Nat /\ e.late \in Nat /\ e.late < e.next
      /\ Fit(e, P, T) /\ IdsOk(e, c) /\ SlotOk(e, c) /\ JoinsOk(e, c) /\ AccOk(e, P, O)
  BY DEF HInv, Fit
<1>1. PICK f : f = [e EXCEPT !.late = 0]
  OBVIOUS
<1>2. /\ DOMAIN f = Fields /\ f.mgmt = e.mgmt /\ f.out = e.out /\ f.next = e.next /\ f.late = 0
      /\ f.answers = e.answers /\ f.recent = e.recent /\ f.told = e.told /\ f.held = e.held
  BY <1>0, <1>1 DEF Fields
<1>3. Fit(f, P, T) BY <1>0, <1>2 DEF Fit
<1>4. IdsOk(f, c) BY <1>0, <1>2 DEF IdsOk
<1>5. SlotOk(f, c) BY <1>0, <1>2 DEF SlotOk, Gone
<1>6. JoinsOk(f, c) BY <1>0, <1>2 DEF JoinsOk, CtxOk
<1>7. AccOk(f, P, O) BY <1>0, <1>2 DEF AccOk
<1> QED BY <1>1, <1>3, <1>4, <1>5, <1>6, <1>7 DEF HInv

\* on_mgmt_chunk keeps the invariant, and an answer with a join is told: its request
\* is still there, or is the window that was given up.
LEMMA OnMgmtChunk ==
  ASSUME NEW e, NEW c, NEW P, CtxOk(c), HInv(e, c, P, {}, {}), e.out = <<>>,
         NEW m, m.id \notin c.joins, \A k \in DOMAIN c.box : c.box[k].id # m.id,
         m.ok /\ m.node # 0 =>
           m.id = e.late \/ \E i \in DOMAIN e.mgmt : e.mgmt[i].id = m.id /\ e.mgmt[i].op = "PairingOpen"
  PROVE  /\ HInv(on_mgmt_chunk(e, m), c, P, {}, {})
         /\ m.ok /\ m.node # 0 => m.node \in on_mgmt_chunk(e, m).told
<1>0. e.mgmt \in Seq(ReqRec) BY DEF HInv, Fit
<1>1. CASE \E i \in DOMAIN e.mgmt : e.mgmt[i].id = m.id
  <2> DEFINE i == CHOOSE k \in DOMAIN e.mgmt : e.mgmt[k].id = m.id
  <2>1. i \in DOMAIN e.mgmt /\ e.mgmt[i].id = m.id BY <1>1
  <2>2. on_mgmt_chunk(e, m) =
          send_next_mgmt(on_mgmt_done([e EXCEPT !.mgmt = RemoveAt(@, i)], e.mgmt[i], m))
    BY <1>1 DEF on_mgmt_chunk
  <2> HIDE DEF i
  <2>3. PICK q : q = e.mgmt[i]
    OBVIOUS
  <2>4. q \in ReqRec BY <1>0, <2>1, <2>3
  <2>5. q.op \in Ops /\ q.rpc \in Rpcs \cup {0} BY <2>4 DEF ReqRec
  <2>6. PICK g, Q : g = [e EXCEPT !.mgmt = RemoveAt(@, i)] /\ Q = {} \cup ({q.rpc} \ {0})
    OBVIOUS
  <2>7. HInv(g, c, P, Q, {}) BY <2>1, <2>3, <2>6, Answered
  <2>8. q.rpc \in Q \cup {0} /\ Q \ {q.rpc} = {} BY <2>6
  <2>9. PICK f : f = on_mgmt_done(g, q, m)
    OBVIOUS
  <2>10. /\ HInv(f, c, P, {}, {})
         /\ q.op = "PairingOpen" /\ m.ok => HInv(f, c, P, {}, {m.node})
    <3>1. /\ HInv(f, c, P, Q \ {q.rpc}, {})
          /\ q.op = "PairingOpen" /\ m.ok => HInv(f, c, P, Q \ {q.rpc}, {m.node})
      BY <2>5, <2>7, <2>8, <2>9, OnMgmtDone
    <3> QED BY <3>1, <2>8
  <2>11. on_mgmt_chunk(e, m) = send_next_mgmt(f) BY <2>2, <2>3, <2>6, <2>9
  <2>12. HInv(send_next_mgmt(f), c, P, {}, {}) BY <2>10, SendNext
  <2>13. ASSUME m.ok /\ m.node # 0
         PROVE  m.node \in send_next_mgmt(f).told
    <3>1. q.op = "PairingOpen"
      <4>1. \A k \in DOMAIN e.mgmt : e.mgmt[k].id # e.late BY DEF HInv, IdsOk
      <4>2. m.id # e.late BY <2>1, <4>1
      <4>3. \E k \in DOMAIN e.mgmt : e.mgmt[k].id = m.id /\ e.mgmt[k].op = "PairingOpen" BY <4>2, <2>13
      <4>4. \A j, k \in DOMAIN e.mgmt : j # k => e.mgmt[j].id # e.mgmt[k].id BY DEF HInv, IdsOk
      <4> QED BY <2>1, <2>3, <4>3, <4>4
    <3>2. HInv(f, c, P, {}, {m.node}) BY <2>10, <2>13, <3>1
    <3>3. HInv(send_next_mgmt(f), c, P, {}, {m.node}) BY <3>2, SendNext
    <3> QED BY <3>3 DEF HInv, Fit
  <2> QED BY <2>11, <2>12, <2>13
<1>2. CASE ~(\E i \in DOMAIN e.mgmt : e.mgmt[i].id = m.id) /\ e.late = m.id
  <2>1. PICK g : g = [e EXCEPT !.late = 0]
    OBVIOUS
  <2>2. HInv(g, c, P, {}, {}) BY <1>2, <2>1, LateAnswered
  <2>3. HInv(on_paired(g, m.node), c, P, {}, {m.node}) BY <2>2, OnPaired
  <2>4. on_mgmt_chunk(e, m) = IF m.ok THEN on_paired(g, m.node) ELSE g BY <1>2, <2>1 DEF on_mgmt_chunk
  <2>5. m.node \in on_paired(g, m.node).told /\ HInv(on_paired(g, m.node), c, P, {}, {})
    BY <2>3 DEF HInv, Fit
  <2> QED BY <2>2, <2>4, <2>5
<1>3. CASE ~(\E i \in DOMAIN e.mgmt : e.mgmt[i].id = m.id) /\ e.late # m.id
  <2>1. on_mgmt_chunk(e, m) = e BY <1>3 DEF on_mgmt_chunk
  <2> QED BY <1>3, <2>1
<1> QED BY <1>1, <1>2, <1>3

\* on_hello keeps the invariant.
LEMMA OnHello ==
  ASSUME NEW e, NEW c, NEW P, NEW O, NEW T, CtxOk(c), HInv(e, c, P, O, T)
  PROVE  HInv(on_hello(e), c, P, O, T)
<1>1. "Describe" \in Ops \ {"PairingOpen"} /\ 0 \in Addrs \cup {0} /\ 0 \in O \cup {0}
      /\ NoName \in OpNames \cup AutoNames \cup {NoName}
  BY DEF Ops
<1>2. O \ {0} = O BY EngineAssumption DEF HInv, AccOk
<1>3. PICK f : f = issue(e, Req("Describe", 0, NoName, 0))
  OBVIOUS
<1>4. HInv(f, c, P, O \ {0}, T) BY <1>1, <1>3, IssueReq
<1>5. HInv(issue(f, NodeListReq), c, P, O, T) BY <1>2, <1>4, IssueList
<1> QED BY <1>3, <1>5 DEF on_hello

-----------------------------------------------------------------------------
(***************************************************************************)
(* Requests of the clients                                                 *)
(***************************************************************************)

\* The window the engine shows changes.
LEMMA TouchPair ==
  ASSUME NEW e, NEW c, NEW P, NEW O, NEW T, HInv(e, c, P, O, T), NEW x
  PROVE  HInv([e EXCEPT !.pair = x], c, P, O, T)
<1>1. DOMAIN e = Fields /\ e.held \in Seq(UpRec) /\ T \subseteq e.told BY DEF HInv, Fit
<1>2. PICK f : f = [e EXCEPT !.pair = x]
  OBVIOUS
<1>3. /\ DOMAIN f = Fields /\ f.mgmt = e.mgmt /\ f.out = e.out /\ f.next = e.next /\ f.late = e.late
      /\ f.answers = e.answers /\ f.recent = e.recent /\ f.told = e.told /\ f.held = e.held
  BY <1>1, <1>2 DEF Fields
<1>4. f.held \in Seq(UpRec) /\ T \subseteq f.told BY <1>1, <1>3
<1>5. HInv(f, c, P, O, T) BY <1>3, <1>4, Touch
<1> QED BY <1>2, <1>5

\* A request that is issued, or refused, is not owed any more.
LEMMA RpcIssued ==
  ASSUME NEW e, NEW c, NEW P, NEW T, NEW id \in Rpcs, CtxOk(c), HInv(e, c, P, {id}, T),
         NEW op \in Ops \ {"PairingOpen"}, NEW node \in Addrs \cup {0},
         NEW name \in OpNames \cup AutoNames \cup {NoName}
  PROVE  HInv(issue(e, Req(op, node, name, id)), c, P, {}, T)
<1>1. {id} \ {id} = {} /\ id \in {id} \cup {0}
  OBVIOUS
<1>2. HInv(issue(e, Req(op, node, name, id)), c, P, {id} \ {id}, T) BY <1>1, IssueReq
<1> QED BY <1>1, <1>2

\* A request refused at once is answered.
LEMMA RpcRefused ==
  ASSUME NEW e, NEW c, NEW P, NEW T, NEW id \in Rpcs, HInv(e, c, P, {id}, T)
  PROVE  HInv(respond(e, id), c, P, {}, T)
<1>1. {id} \ {id} = {} /\ id \in {id} \cup {0}
  OBVIOUS
<1>2. HInv(respond(e, id), c, P, {id} \ {id}, T) BY <1>1, Respond
<1> QED BY <1>1, <1>2

\* What a request of a client carries.
LEMMA RequestsAre ==
  ASSUME NEW r \in Requests
  PROVE  /\ r.node \in Addrs \cup {0} /\ r.name \in OpNames \cup AutoNames \cup {NoName}
         /\ r.op \in {"query", "node_list", "node_add_ota", "pairing_cancel", "node_remove",
                      "node_rename", "node_add"}
<1>1. CASE r \in [op : {"query", "node_list", "node_add_ota", "pairing_cancel"}, node : {0}, name : {NoName}]
  BY <1>1
<1>2. CASE r \in [op : {"node_remove"}, node : Addrs, name : {NoName}] BY <1>2
<1>3. CASE r \in [op : {"node_rename", "node_add"}, node : Addrs, name : OpNames] BY <1>3
<1> QED BY <1>1, <1>2, <1>3 DEF Requests

\* on_node_rpc: the request is queued or answered.
LEMMA OnNodeRpc ==
  ASSUME NEW e, NEW c, NEW P, NEW T, NEW id \in Rpcs, CtxOk(c), HInv(e, c, P, {id}, T),
         NEW r, r.node \in Addrs \cup {0}, r.name \in OpNames \cup AutoNames \cup {NoName},
         r.op \in {"node_list", "node_add", "node_remove", "node_rename"}
  PROVE  HInv(on_node_rpc(e, r, id), c, P, {}, T)
<1>1. {"NodeList", "NodeAdd", "NodeRemove", "NodeUpdate"} \subseteq Ops \ {"PairingOpen"}
      /\ 0 \in Addrs \cup {0} /\ NoName \in OpNames \cup AutoNames \cup {NoName}
  BY DEF Ops
<1>2. HInv(respond(e, id), c, P, {}, T) BY RpcRefused
<1>3. CASE r.op = "node_list"
  <2>1. on_node_rpc(e, r, id) = issue(e, Req("NodeList", 0, NoName, id)) BY <1>3 DEF on_node_rpc
  <2> QED BY <1>1, <2>1, RpcIssued
<1>4. CASE r.op = "node_add"
  <2>1. on_node_rpc(e, r, id) = respond(e, id)
        \/ on_node_rpc(e, r, id) = issue(e, Req("NodeAdd", r.node, r.name, id))
    BY <1>4 DEF on_node_rpc
  <2>2. HInv(issue(e, Req("NodeAdd", r.node, r.name, id)), c, P, {}, T) BY <1>1, RpcIssued
  <2> QED BY <1>2, <2>1, <2>2
<1>5. CASE r.op = "node_remove"
  <2>1. on_node_rpc(e, r, id) = issue(e, Req("NodeRemove", r.node, NoName, id)) BY <1>5 DEF on_node_rpc
  <2> QED BY <1>1, <2>1, RpcIssued
<1>6. CASE r.op = "node_rename"
  <2>1. PICK f : f = issue(e, UpdateReq(r.node, r.name, e.nodes[r.node].power, id))
    OBVIOUS
  <2>2. HInv(f, c, P, {}, T)
    <3>1. {id} \ {id} = {} /\ id \in {id} \cup {0}
      OBVIOUS
    <3>2. PICK w : w = e.nodes[r.node].power
      OBVIOUS
    <3>3. HInv(issue(e, UpdateReq(r.node, r.name, w, id)), c, P, {id} \ {id}, T) BY <3>1, IssueUpdate
    <3> QED BY <2>1, <3>1, <3>2, <3>3
  <2>3. HInv([f EXCEPT !.nodes[r.node].name = r.name, !.nodes[r.node].unnamed = FALSE], c, P, {}, T)
    BY <2>2, TouchRow
  <2>4. \/ on_node_rpc(e, r, id) = respond(e, id)
        \/ on_node_rpc(e, r, id) = f
        \/ on_node_rpc(e, r, id) = [f EXCEPT !.nodes[r.node].name = r.name, !.nodes[r.node].unnamed = FALSE]
    BY <1>6, <2>1 DEF on_node_rpc
  <2> QED BY <1>2, <2>2, <2>3, <2>4
<1> QED BY <1>3, <1>4, <1>5, <1>6

\* on_gateway_rpc: so are those of the window, one at a time.
LEMMA OnGatewayRpc ==
  ASSUME NEW e, NEW c, NEW P, NEW T, NEW id \in Rpcs, CtxOk(c), HInv(e, c, P, {id}, T),
         NEW r, r.op \in {"query", "node_add_ota", "pairing_cancel"}
  PROVE  HInv(on_gateway_rpc(e, r, id), c, P, {}, T)
<1>1. {"Query", "PairingCancel"} \subseteq Ops \ {"PairingOpen"} /\ "PairingOpen" \in Ops
      /\ 0 \in Addrs \cup {0} /\ NoName \in OpNames \cup AutoNames \cup {NoName}
  BY DEF Ops
<1>2. HInv(respond(e, id), c, P, {}, T) BY RpcRefused
<1>3. CASE r.op = "query"
  <2>1. on_gateway_rpc(e, r, id) = issue(e, Req("Query", 0, NoName, id)) BY <1>3 DEF on_gateway_rpc
  <2> QED BY <1>1, <2>1, RpcIssued
<1>4. CASE r.op = "pairing_cancel"
  <2>1. PICK g : g = [e EXCEPT !.pair = 0]
    OBVIOUS
  <2>2. HInv(g, c, P, {id}, T) BY <2>1, TouchPair
  <2>3. HInv(issue(g, Req("PairingCancel", 0, NoName, id)), c, P, {}, T) BY <1>1, <2>2, RpcIssued
  <2>4. on_gateway_rpc(e, r, id) = issue(g, Req("PairingCancel", 0, NoName, id))
    BY <1>4, <2>1 DEF on_gateway_rpc
  <2> QED BY <2>3, <2>4
<1>5. CASE r.op = "node_add_ota" /\ (e.pair # 0 \/ pendingOp(e, "PairingOpen"))
  <2>1. on_gateway_rpc(e, r, id) = respond(e, id) BY <1>5 DEF on_gateway_rpc
  <2> QED BY <1>2, <2>1
<1>6. CASE r.op = "node_add_ota" /\ ~(e.pair # 0 \/ pendingOp(e, "PairingOpen"))
  <2>1. PICK q : q = Req("PairingOpen", 0, NoName, id)
    OBVIOUS
  <2>2. Fresh(q) /\ q.rpc = id BY <1>1, <2>1, ReqIsFresh
  <2>3. {id} \ {q.rpc} = {} /\ q.rpc \in {id} \cup {0} BY <2>2
  <2>4. PICK f : f = issue(e, q)
    OBVIOUS
  <2>5. HInv(f, c, P, {id} \ {q.rpc}, T) BY <1>6, <2>2, <2>3, <2>4, Issue
  <2>6. HInv(f, c, P, {}, T) BY <2>3, <2>5
  <2>7. HInv([f EXCEPT !.pair = e.next], c, P, {}, T) BY <2>6, TouchPair
  <2>8. on_gateway_rpc(e, r, id) = f \/ on_gateway_rpc(e, r, id) = [f EXCEPT !.pair = e.next]
    BY <1>6, <2>1, <2>4 DEF on_gateway_rpc
  <2> QED BY <2>6, <2>7, <2>8
<1> QED BY <1>3, <1>4, <1>5, <1>6

\* on_rpc keeps the invariant.
LEMMA OnRpc ==
  ASSUME NEW e, NEW c, NEW P, NEW T, NEW id \in Rpcs, CtxOk(c), HInv(e, c, P, {id}, T),
         NEW r \in Requests
  PROVE  HInv(on_rpc(e, r, id), c, P, {}, T)
BY RequestsAre, OnNodeRpc, OnGatewayRpc DEF on_rpc

\* A request that was not posted before is remembered, and owed an answer.
LEMMA Remember ==
  ASSUME NEW e, NEW c, NEW P, NEW T, NEW id \in Rpcs \ P, HInv(e, c, P, {}, T)
  PROVE  accept_request_id(e, id) /\ HInv(remember(e, id), c, P \cup {id}, {id}, T)
<1>0. /\ DOMAIN e = Fields /\ e.recent \in Seq(P)
      /\ Fit(e, P, T) /\ IdsOk(e, c) /\ SlotOk(e, c) /\ JoinsOk(e, c) /\ AccOk(e, P, {})
  BY DEF HInv, Fit
<1>1. accept_request_id(e, id) BY <1>0 DEF accept_request_id
<1>2. PICK s : s = IF Len(e.recent) >= RecentIds THEN Tail(e.recent) ELSE e.recent
  OBVIOUS
<1>3. PICK Q : Q = P \cup {id}
  OBVIOUS
<1>4. e.recent \in Seq(Q) /\ id \in Q BY <1>0, <1>3
<1>5. PICK t : t = Append(s, id)
  OBVIOUS
<1>6. PICK f : f = [e EXCEPT !.recent = t]
  OBVIOUS
<1>7. remember(e, id) = f BY <1>2, <1>5, <1>6 DEF remember
<1>8. /\ DOMAIN f = Fields /\ f.mgmt = e.mgmt /\ f.out = e.out /\ f.next = e.next /\ f.late = e.late
      /\ f.answers = e.answers /\ f.recent = t /\ f.told = e.told /\ f.held = e.held
  BY <1>0, <1>6 DEF Fields
<1>9. s \in Seq(Q)
  <2>1. CASE Len(e.recent) >= RecentIds
    <3>1. e.recent # <<>> BY <2>1, EngineAssumption
    <3> QED BY <1>2, <1>4, <2>1, <3>1
  <2>2. CASE ~(Len(e.recent) >= RecentIds) BY <1>2, <1>4, <2>2
  <2> QED BY <2>1, <2>2
<1>10. t \in Seq(Q) BY <1>4, <1>5, <1>9
<1>11. Fit(f, Q, T) BY <1>0, <1>8, <1>10 DEF Fit
<1>12. IdsOk(f, c) BY <1>0, <1>8 DEF IdsOk
<1>13. SlotOk(f, c) BY <1>0, <1>8 DEF SlotOk, Gone
<1>14. JoinsOk(f, c) BY <1>0, <1>8 DEF JoinsOk
<1>15. AccOk(f, Q, {id})
  <2>1. {id} \subseteq Q /\ Q \subseteq Rpcs BY <1>0, <1>3 DEF AccOk
  <2>2. ASSUME NEW r \in Rpcs
        PROVE  /\ e.answers[r] <= 1
               /\ Pending(e.mgmt, r) => e.answers[r] = 0 /\ r \in Q /\ r \notin {id}
               /\ r \in Q /\ r \notin {id} /\ e.answers[r] = 0 => Pending(e.mgmt, r)
               /\ r \in {id} \/ r \notin Q => e.answers[r] = 0
    BY <1>0, <1>3 DEF AccOk
  <2>3. \A j, k \in DOMAIN e.mgmt : e.mgmt[j].rpc = e.mgmt[k].rpc /\ e.mgmt[j].rpc # 0 => j = k
    BY <1>0 DEF AccOk
  <2>4. \A r \in Rpcs :
               /\ f.answers[r] <= 1
               /\ Pending(f.mgmt, r) => f.answers[r] = 0 /\ r \in Q /\ r \notin {id}
               /\ r \in Q /\ r \notin {id} /\ f.answers[r] = 0 => Pending(f.mgmt, r)
               /\ r \in {id} \/ r \notin Q => f.answers[r] = 0
    BY <1>8, <2>2
  <2>5. \A j, k \in DOMAIN f.mgmt : f.mgmt[j].rpc = f.mgmt[k].rpc /\ f.mgmt[j].rpc # 0 => j = k
    BY <1>8, <2>3
  <2> QED BY <2>1, <2>4, <2>5, Zenon DEF AccOk
<1> QED BY <1>1, <1>3, <1>7, <1>11, <1>12, <1>13, <1>14, <1>15 DEF HInv

-----------------------------------------------------------------------------
(***************************************************************************)
(* The clock                                                               *)
(***************************************************************************)

Older(q) == [q EXCEPT !.left = @ - 1, !.holds = IF @ > 0 THEN @ - 1 ELSE @]

\* A second less; the rest of the request stays.
LEMMA OlderIs ==
  ASSUME NEW q \in ReqRec
  PROVE  /\ Older(q) \in ReqRec
         /\ Older(q).left = q.left - 1
         /\ Older(q).op = q.op /\ Older(q).rpc = q.rpc /\ Older(q).id = q.id
         /\ Older(q).sent = q.sent
<1>0. q.left \in Int /\ q.holds \in Int BY DEF ReqRec
<1>1. PICK p : p = [q EXCEPT !.left = @ - 1]
  OBVIOUS
<1>2. /\ p \in ReqRec /\ p.left = q.left - 1 /\ p.op = q.op /\ p.rpc = q.rpc /\ p.id = q.id
      /\ p.sent = q.sent /\ p.holds = q.holds
  BY <1>0, <1>1 DEF ReqRec
<1>3. PICK h : h = IF q.holds > 0 THEN q.holds - 1 ELSE q.holds
  OBVIOUS
<1>4. h \in Int BY <1>0, <1>3
<1>5. PICK r : r = [p EXCEPT !.holds = h]
  OBVIOUS
<1>6. /\ r \in ReqRec /\ r.left = q.left - 1 /\ r.op = q.op /\ r.rpc = q.rpc /\ r.id = q.id
      /\ r.sent = q.sent /\ r.holds = h
  BY <1>2, <1>4, <1>5 DEF ReqRec
<1>7. Older(q) = r BY <1>1, <1>2, <1>3, <1>5 DEF Older, ReqRec
<1> QED BY <1>3, <1>6, <1>7

\* A second later; d is the context c a second later.
LEMMA Aged ==
  ASSUME NEW e, NEW c, NEW d, NEW P, NEW O, NEW T, CtxOk(c), CtxOk(d), HInv(e, c, P, O, T),
         e.out = <<>>, d.box = c.box, d.used = c.used, d.joins = c.joins,
         c.box # <<>> => d.age = c.age + 1,
         \A x \in c.joins : d.rem[x] = c.rem[x] - 1
  PROVE  HInv(aged(e), d, P, O, T)
<1>0. /\ DOMAIN e = Fields /\ e.mgmt \in Seq(ReqRec)
      /\ Fit(e, P, T) /\ IdsOk(e, c) /\ SlotOk(e, c) /\ JoinsOk(e, c) /\ AccOk(e, P, O)
  BY DEF HInv, Fit
<1>1. PICK M : M = e.mgmt
  OBVIOUS
<1>2. PICK N : N = [k \in DOMAIN M |-> IF ~M[k].sent THEN M[k] ELSE Older(M[k])]
  OBVIOUS
<1>3. PICK f : f = [e EXCEPT !.mgmt = N]
  OBVIOUS
<1>4. aged(e) = f BY <1>1, <1>2, <1>3 DEF aged, Older
<1>5. /\ DOMAIN f = Fields /\ f.mgmt = N /\ f.out = e.out /\ f.next = e.next /\ f.late = e.late
      /\ f.answers = e.answers /\ f.recent = e.recent /\ f.told = e.told /\ f.held = e.held
  BY <1>0, <1>3 DEF Fields
<1>6. /\ DOMAIN M = 1 .. Len(M) /\ Len(M) \in Nat /\ DOMAIN N = DOMAIN M
      /\ \A k \in DOMAIN M : M[k] \in ReqRec
  BY <1>0, <1>1, <1>2
<1>7. ASSUME NEW k \in DOMAIN M
      PROVE  /\ N[k] \in ReqRec /\ N[k].id = M[k].id /\ N[k].op = M[k].op /\ N[k].rpc = M[k].rpc
             /\ N[k].sent = M[k].sent
             /\ M[k].left \in Int /\ N[k].left = IF M[k].sent THEN M[k].left - 1 ELSE M[k].left
  <2>1. M[k] \in ReqRec /\ N[k] = IF ~M[k].sent THEN M[k] ELSE Older(M[k]) BY <1>2, <1>6
  <2>2. M[k].left \in Int BY <2>1 DEF ReqRec
  <2>3. CASE M[k].sent BY <2>1, <2>2, <2>3, OlderIs
  <2>4. CASE ~M[k].sent BY <2>1, <2>2, <2>4
  <2> QED BY <2>3, <2>4
<1>8. N \in Seq(ReqRec) BY <1>2, <1>6, <1>7
<1>9. Fit(f, P, T) BY <1>0, <1>5, <1>8 DEF Fit
<1>10. IdsOk(f, d)
  <2>1. \A k \in DOMAIN N : 0 < N[k].id /\ N[k].id < f.next /\ N[k].id # f.late
    BY <1>0, <1>1, <1>5, <1>6, <1>7 DEF IdsOk
  <2>2. \A j, k \in DOMAIN N : j # k => N[j].id # N[k].id BY <1>0, <1>1, <1>6, <1>7 DEF IdsOk
  <2>3. \A k \in DOMAIN N : ~N[k].sent => N[k].id \notin d.used /\ N[k].left = Timeout(N[k].op)
    BY <1>0, <1>1, <1>6, <1>7 DEF IdsOk
  <2> QED BY <1>0, <1>5, <2>1, <2>2, <2>3 DEF IdsOk
<1>11. SlotOk(f, d)
  <2>1. ASSUME NEW k \in DOMAIN c.box, c.box[k].op = "PairingOpen" PROVE Carried(N, c.box[k], d.age)
    <3>1. d.age = c.age + 1 /\ c.age \in Nat BY <2>1 DEF CtxOk
    <3>2. PICK q : q = c.box[k]
      OBVIOUS
    <3>3. PICK i \in DOMAIN M :
            M[i].id = q.id /\ M[i].op = q.op /\ M[i].sent /\ M[i].left + c.age = Timeout(q.op)
      BY <1>0, <1>1, <2>1, <3>2 DEF SlotOk, Carried
    <3>4. N[i].id = q.id /\ N[i].op = q.op /\ N[i].sent /\ N[i].left = M[i].left - 1 /\ M[i].left \in Int
      BY <1>7, <3>3
    <3>5. N[i].left + d.age = Timeout(q.op) BY <3>1, <3>3, <3>4
    <3> QED BY <1>6, <3>2, <3>4, <3>5 DEF Carried
  <2>2. \A q : Gone(e, q) => Gone(f, q) BY <1>1, <1>5, <1>6, <1>7 DEF Gone
  <2>3. f.out = <<>> BY <1>5
  <2> QED BY <1>0, <1>5, <2>1, <2>2, <2>3 DEF SlotOk
<1>12. JoinsOk(f, d)
  <2>1. \A x \in d.joins :
             x = f.late \/ \E k \in DOMAIN N : N[k].id = x /\ N[k].op = "PairingOpen" /\ N[k].sent
    BY <1>0, <1>1, <1>5, <1>6, <1>7 DEF JoinsOk
  <2>2. \A x \in c.joins : c.rem[x] \in Nat BY DEF CtxOk
  <2>3. f.late \in d.joins =>
          /\ d.rem[f.late] < WindowTicks
          /\ \A k \in DOMAIN N : N[k].op = "PairingOpen" /\ N[k].sent => d.rem[f.late] < N[k].left
    <3> SUFFICES ASSUME f.late \in d.joins
                 PROVE  /\ d.rem[f.late] < WindowTicks
                        /\ \A k \in DOMAIN N :
                             N[k].op = "PairingOpen" /\ N[k].sent => d.rem[f.late] < N[k].left
      OBVIOUS
    <3>1. PICK x : x = c.rem[e.late]
      OBVIOUS
    <3>2. x \in Nat /\ d.rem[f.late] = x - 1 BY <1>5, <2>2, <3>1
    <3>3. x < WindowTicks /\ \A k \in DOMAIN M : M[k].op = "PairingOpen" /\ M[k].sent => x < M[k].left
      BY <1>0, <1>1, <1>5, <3>1 DEF JoinsOk
    <3>4. x - 1 < WindowTicks BY <3>2, <3>3, EngineAssumption
    <3>5. ASSUME NEW k \in DOMAIN N, N[k].op = "PairingOpen" /\ N[k].sent
          PROVE  x - 1 < N[k].left
      BY <1>6, <1>7, <3>2, <3>3, <3>5
    <3> QED BY <3>2, <3>4, <3>5
  <2>4. ASSUME NEW k \in DOMAIN N, N[k].id \in d.joins
        PROVE  d.rem[N[k].id] < WindowTicks + N[k].left
    <3>1. PICK x : x = c.rem[M[k].id]
      OBVIOUS
    <3>2. x \in Nat /\ d.rem[N[k].id] = x - 1 BY <1>6, <1>7, <2>2, <2>4, <3>1
    <3>3. x < WindowTicks + M[k].left BY <1>0, <1>1, <1>6, <1>7, <2>4, <3>1 DEF JoinsOk
    <3> QED BY <1>6, <1>7, <3>2, <3>3, EngineAssumption
  <2>5. \A j, k \in DOMAIN N : N[j].op = "PairingOpen" /\ N[k].op = "PairingOpen" => j = k
    BY <1>0, <1>1, <1>6, <1>7 DEF JoinsOk
  <2> QED BY <1>5, <2>1, <2>3, <2>4, <2>5 DEF JoinsOk
<1>13. AccOk(f, P, O)
  <2>1. \A r : Pending(N, r) <=> Pending(M, r) BY <1>6, <1>7 DEF Pending
  <2>2. \A j, k \in DOMAIN N : N[j].rpc = N[k].rpc /\ N[j].rpc # 0 => j = k
    BY <1>0, <1>1, <1>6, <1>7 DEF AccOk
  <2> QED BY <1>0, <1>1, <1>5, <2>1, <2>2 DEF AccOk
<1> QED BY <1>4, <1>9, <1>10, <1>11, <1>12, <1>13 DEF HInv

\* A request whose time is up leaves, and its client is told.
LEMMA Expire ==
  ASSUME NEW e, NEW c, NEW P, NEW T, CtxOk(c), HInv(e, c, P, {}, T),
         NEW i \in DOMAIN e.mgmt, e.mgmt[i].sent, e.mgmt[i].left = 0
  PROVE  /\ HInv(expire(e, i), c, P, {}, T)
         /\ i - 1 <= Len(expire(e, i).mgmt)
         /\ \A k \in 1 .. i - 1 : /\ expire(e, i).mgmt[k].left = e.mgmt[k].left
                                  /\ e.mgmt[k].sent => expire(e, i).mgmt[k].sent
<1>0. /\ DOMAIN e = Fields /\ e.mgmt \in Seq(ReqRec) /\ e.out \in Seq(ReqRec)
      /\ Fit(e, P, T) /\ IdsOk(e, c) /\ SlotOk(e, c) /\ JoinsOk(e, c) /\ AccOk(e, P, {})
  BY DEF HInv, Fit
<1>1. PICK M, N : M = e.mgmt /\ N = RemoveAt(M, i)
  OBVIOUS
<1>2. PICK l : l = IF M[i].op = "PairingOpen" THEN M[i].id ELSE e.late
  OBVIOUS
<1>3. PICK f : f = [e EXCEPT !.mgmt = N, !.late = l]
  OBVIOUS
<1>4. /\ DOMAIN f = Fields /\ f.mgmt = N /\ f.out = e.out /\ f.next = e.next /\ f.late = l
      /\ f.answers = e.answers /\ f.recent = e.recent /\ f.told = e.told /\ f.held = e.held
  BY <1>0, <1>3 DEF Fields
<1>5. expire(e, i) = fail_op(f, M[i]) BY <1>1, <1>2, <1>3 DEF expire
<1>6. M \in Seq(ReqRec) /\ i \in DOMAIN M /\ N = RemoveAt(M, i) /\ M[i].sent /\ M[i].left = 0 BY <1>0, <1>1
<1>7. /\ \A k \in DOMAIN N : \E n \in DOMAIN M \ {i} : N[k] = M[n]
      /\ \A n \in DOMAIN M \ {i} : \E k \in DOMAIN N : N[k] = M[n]
      /\ \A j, k \in DOMAIN N : j # k => \E m, n \in DOMAIN M : m # n /\ N[j] = M[m] /\ N[k] = M[n]
      /\ N \in Seq(ReqRec) /\ Len(N) = Len(M) - 1
  BY <1>6, Without1
<1>8. \A q : \A a \in Nat : q.op = "PairingOpen" /\ Carried(M, q, a) /\ a < BusyTicks => q.id # M[i].id
  <2> SUFFICES ASSUME NEW q, NEW a \in Nat, q.op = "PairingOpen", Carried(M, q, a), a < BusyTicks
               PROVE  q.id # M[i].id
    OBVIOUS
  <2>1. PICK k \in DOMAIN M : M[k].id = q.id /\ M[k].left + a = WindowTicks BY DEF Carried, Timeout
  <2>2. a < WindowTicks BY EngineAssumption
  <2>3. k # i BY <1>6, <2>1, <2>2, EngineAssumption
  <2> QED BY <1>0, <1>1, <1>6, <2>1, <2>3 DEF IdsOk
<1>9. \A k \in DOMAIN c.box : c.box[k].op = "PairingOpen" => c.box[k].id # e.mgmt[i].id
  <2>1. \A k \in DOMAIN c.box : c.age \in Nat /\ c.age < BusyTicks BY DEF CtxOk
  <2> QED BY <1>0, <1>1, <1>8, <2>1 DEF SlotOk
<1>10. \A k \in DOMAIN e.out : e.out[k].op = "PairingOpen" => e.out[k].id # e.mgmt[i].id
  <2>1. 0 \in Nat /\ 0 < BusyTicks BY EngineAssumption
  <2> QED BY <1>0, <1>1, <1>8, <2>1 DEF SlotOk
<1>11. JoinsOk(f, c)
  <2>1. \A j, k \in DOMAIN M : M[j].op = "PairingOpen" /\ M[k].op = "PairingOpen" => j = k
    BY <1>0, <1>1 DEF JoinsOk
  <2>2. ASSUME NEW j \in DOMAIN N, NEW k \in DOMAIN N, N[j].op = "PairingOpen" /\ N[k].op = "PairingOpen"
        PROVE  j = k
    <3> SUFFICES ASSUME j # k PROVE FALSE
      OBVIOUS
    <3>1. PICK m, n \in DOMAIN M : m # n /\ N[j] = M[m] /\ N[k] = M[n] BY <1>7
    <3> QED BY <2>1, <2>2, <3>1
  <2>3. ASSUME NEW k \in DOMAIN N, N[k].id \in c.joins
        PROVE  c.rem[N[k].id] < WindowTicks + N[k].left
    <3>1. PICK n \in DOMAIN M : N[k] = M[n] BY <1>7
    <3> QED BY <1>0, <1>1, <2>3, <3>1 DEF JoinsOk
  <2>4. CASE M[i].op = "PairingOpen"
    <3>1. \A k \in DOMAIN N : N[k].op # "PairingOpen" BY <1>6, <1>7, <2>1, <2>4
    <3>2. e.late \notin c.joins
      <4> SUFFICES ASSUME e.late \in c.joins PROVE FALSE
        OBVIOUS
      <4>1. c.rem[e.late] < M[i].left BY <1>0, <1>1, <1>6, <2>4 DEF JoinsOk
      <4>2. c.rem[e.late] \in Nat BY DEF CtxOk
      <4> QED BY <1>6, <4>1, <4>2
    <3>3. \A x \in c.joins : x = M[i].id BY <1>0, <1>1, <1>6, <2>1, <2>4, <3>2 DEF JoinsOk
    <3>4. M[i].id \in c.joins => c.rem[M[i].id] < WindowTicks
      <4>1. M[i].id \in c.joins => c.rem[M[i].id] < WindowTicks + M[i].left BY <1>0, <1>1, <1>6 DEF JoinsOk
      <4>2. WindowTicks + M[i].left = WindowTicks BY <1>6, EngineAssumption
      <4> QED BY <4>1, <4>2
    <3>5. f.late = M[i].id BY <1>2, <1>4, <2>4
    <3> QED BY <1>4, <2>2, <2>3, <3>1, <3>3, <3>4, <3>5 DEF JoinsOk
  <2>5. CASE M[i].op # "PairingOpen"
    <3>1. f.late = e.late BY <1>2, <1>4, <2>5
    <3>2. \A x \in c.joins :
             x = f.late \/ \E k \in DOMAIN N : N[k].id = x /\ N[k].op = "PairingOpen" /\ N[k].sent
      <4> SUFFICES ASSUME NEW x \in c.joins, x # f.late
                   PROVE  \E k \in DOMAIN N : N[k].id = x /\ N[k].op = "PairingOpen" /\ N[k].sent
        OBVIOUS
      <4>1. PICK n \in DOMAIN M : M[n].id = x /\ M[n].op = "PairingOpen" /\ M[n].sent
        BY <1>0, <1>1, <3>1 DEF JoinsOk
      <4>2. n \in DOMAIN M \ {i} BY <4>1, <2>5
      <4> QED BY <4>1, <4>2, <1>7
    <3>3. f.late \in c.joins =>
            /\ c.rem[f.late] < WindowTicks
            /\ \A k \in DOMAIN N : N[k].op = "PairingOpen" /\ N[k].sent => c.rem[f.late] < N[k].left
      BY <1>0, <1>1, <1>7, <3>1 DEF JoinsOk
    <3> QED BY <1>4, <2>2, <2>3, <3>2, <3>3 DEF JoinsOk
  <2> QED BY <2>4, <2>5
<1>12. f.mgmt = RemoveAt(e.mgmt, i) /\ (f.late = e.late \/ f.late = e.mgmt[i].id) BY <1>1, <1>2, <1>4
<1>13. PICK Q : Q = {} \cup ({e.mgmt[i].rpc} \ {0})
  OBVIOUS
<1>14. HInv(f, c, P, Q, T) BY <1>4, <1>9, <1>10, <1>11, <1>12, <1>13, Removed
<1>15. PICK q, g : q = M[i] /\ g = fail_op(f, q)
  OBVIOUS
<1>16. q.rpc \in Q \cup {0} /\ Q \ {q.rpc} = {} BY <1>1, <1>13, <1>15
<1>17. HInv(g, c, P, Q \ {q.rpc}, T) /\ Ext(f.mgmt, g.mgmt) BY <1>14, <1>15, <1>16, FailOp
<1>18. HInv(g, c, P, {}, T) BY <1>16, <1>17
<1>19. g.mgmt \in Seq(ReqRec) BY <1>18 DEF HInv, Fit
<1>20. i \in 1 .. Len(M) /\ \A k \in 1 .. Len(M) - 1 : N[k] = IF k < i THEN M[k] ELSE M[k + 1]
  BY <1>6, RemoveAtIs
<1>21. i - 1 <= Len(g.mgmt) /\ \A k \in 1 .. i - 1 : g.mgmt[k].left = M[k].left /\ (M[k].sent => g.mgmt[k].sent)
  <2>1. Len(M) \in Nat /\ Len(g.mgmt) \in Nat /\ Len(N) = Len(M) - 1 /\ Len(N) <= Len(g.mgmt)
    BY <1>4, <1>6, <1>7, <1>17, <1>19 DEF Ext
  <2>2. i - 1 <= Len(g.mgmt) BY <1>20, <2>1
  <2>3. ASSUME NEW k \in 1 .. i - 1
        PROVE  g.mgmt[k].left = M[k].left /\ (M[k].sent => g.mgmt[k].sent)
    <3>1. k \in 1 .. Len(M) - 1 /\ N[k] = M[k] /\ k \in 1 .. Len(N) BY <1>20, <2>1
    <3> QED BY <1>4, <1>17, <3>1 DEF Ext
  <2> QED BY <2>2, <2>3
<1> QED BY <1>1, <1>5, <1>15, <1>18, <1>21

\* The recursive function of expire_all exists.
ExpireRun(run, e, k) ==
  run = [n \in 0 .. k |->
           IF n = 0 THEN e
           ELSE LET i == Len(e.mgmt) - n + 1
                IN  IF e.mgmt[i].sent /\ e.mgmt[i].left = 0 THEN expire(run[n - 1], i) ELSE run[n - 1]]

\* Were there a least length without such a function, the one before extends.
LEMMA ExpireRunExists ==
  ASSUME NEW e, NEW k \in Nat
  PROVE  \E run : ExpireRun(run, e, k)
<1> DEFINE Up(x, n) ==
      LET i == Len(e.mgmt) - n + 1
      IN  IF e.mgmt[i].sent /\ e.mgmt[i].left = 0 THEN expire(x, i) ELSE x
<1>0. \A run, n : ExpireRun(run, e, n) <=> run = [i \in 0 .. n |-> IF i = 0 THEN e ELSE Up(run[i - 1], i)]
  BY DEF ExpireRun
<1> HIDE DEF Up
<1> DEFINE T == {n \in Nat : ~ \E run : ExpireRun(run, e, n)}
<1> SUFFICES ASSUME T # {} PROVE FALSE
  OBVIOUS
<1>1. PICK n \in T : \A m \in T : n <= m BY Least
<1>2. n # 0
  <2>1. PICK g : g = [i \in 0 .. 0 |-> e]
    OBVIOUS
  <2>3. g = [i \in 0 .. 0 |-> IF i = 0 THEN e ELSE Up(g[i - 1], i)] BY <2>1
  <2>2. ExpireRun(g, e, 0) BY <2>3, <1>0
  <2> QED BY <1>1, <2>2
<1>3. n - 1 \in Nat /\ n - 1 \notin T BY <1>1, <1>2
<1>4. PICK g : ExpireRun(g, e, n - 1) BY <1>3
<1>5. PICK h : h = [i \in 0 .. n |-> IF i < n THEN g[i] ELSE Up(g[n - 1], n)]
  OBVIOUS
<1>8. g = [i \in 0 .. n - 1 |-> IF i = 0 THEN e ELSE Up(g[i - 1], i)] BY <1>0, <1>4
<1>6. ASSUME NEW i \in 0 .. n
      PROVE  h[i] = IF i = 0 THEN e ELSE Up(h[i - 1], i)
  <2>1. CASE i = 0 BY <2>1, <1>2, <1>8, <1>5
  <2>2. CASE i # 0 /\ i < n BY <2>2, <1>8, <1>5
  <2>3. CASE i = n BY <2>3, <1>2, <1>5
  <2> QED BY <2>1, <2>2, <2>3
<1>7. ExpireRun(h, e, n) BY <1>0, <1>5, <1>6
<1> QED BY <1>1, <1>7

\* expire_all keeps the invariant: a request before the one that leaves stays in its place.
LEMMA ExpireAll ==
  ASSUME NEW e, NEW c, NEW P, NEW T, CtxOk(c), HInv(e, c, P, {}, T)
  PROVE  HInv(expire_all(e), c, P, {}, T)
<1> DEFINE M == e.mgmt
           L == Len(M)
<1>1. M \in Seq(ReqRec) /\ L \in Nat /\ DOMAIN M = 1 .. L BY DEF HInv, Fit
<1>2. \E run : ExpireRun(run, e, L) BY <1>1, ExpireRunExists
<1> DEFINE run == CHOOSE run : run =
             [n \in 0 .. Len(e.mgmt) |->
                IF n = 0 THEN e
                ELSE LET i == Len(e.mgmt) - n + 1
                     IN  IF e.mgmt[i].sent /\ e.mgmt[i].left = 0 THEN expire(run[n - 1], i) ELSE run[n - 1]]
<1>3. ExpireRun(run, e, L)
  <2>1. \E r : r =
             [n \in 0 .. Len(e.mgmt) |->
                IF n = 0 THEN e
                ELSE LET i == Len(e.mgmt) - n + 1
                     IN  IF e.mgmt[i].sent /\ e.mgmt[i].left = 0 THEN expire(r[n - 1], i) ELSE r[n - 1]]
    BY <1>2 DEF ExpireRun
  <2> QED BY <2>1, Zenon DEF ExpireRun
<1>4. expire_all(e) = run[L] BY DEF expire_all
<1> HIDE DEF run
<1> DEFINE Good(n) == /\ HInv(run[n], c, P, {}, T)
                      /\ L - n <= Len(run[n].mgmt)
                      /\ \A k \in 1 .. L - n : /\ run[n].mgmt[k].left = M[k].left
                                               /\ M[k].sent => run[n].mgmt[k].sent
           B == {n \in 0 .. L : ~Good(n)}
<1>5. run[0] = e BY <1>1, <1>3 DEF ExpireRun
<1>6. Good(0) BY <1>1, <1>5
<1>7. ASSUME NEW n \in 1 .. L, Good(n - 1)
      PROVE  Good(n)
  <2>1. PICK i : i = L - n + 1
    OBVIOUS
  <2>2. i \in 1 .. L /\ L - (n - 1) = i /\ L - n = i - 1 /\ i \in 1 .. i BY <1>1, <2>1
  <2>3. PICK g : g = run[n - 1]
    OBVIOUS
  <2>4. run[n] = IF M[i].sent /\ M[i].left = 0 THEN expire(g, i) ELSE g
    <3>1. n \in 0 .. L /\ n # 0 BY <1>1
    <3>2. run[n] = LET j == Len(e.mgmt) - n + 1
                   IN  IF e.mgmt[j].sent /\ e.mgmt[j].left = 0 THEN expire(run[n - 1], j) ELSE run[n - 1]
      BY <1>3, <3>1, Zenon DEF ExpireRun
    <3>3. Len(e.mgmt) - n + 1 = i BY <2>1
    <3> QED BY <2>3, <3>2, <3>3, Zenon
  <2>5. /\ HInv(g, c, P, {}, T) /\ i <= Len(g.mgmt) /\ g.mgmt \in Seq(ReqRec)
        /\ \A k \in 1 .. i : g.mgmt[k].left = M[k].left /\ (M[k].sent => g.mgmt[k].sent)
    BY <1>7, <2>2, <2>3 DEF HInv, Fit
  <2>6. CASE ~(M[i].sent /\ M[i].left = 0)
    <3>1. run[n] = g BY <2>4, <2>6
    <3>2. Len(g.mgmt) \in Nat /\ i - 1 <= Len(g.mgmt) BY <2>2, <2>5
    <3> QED BY <2>2, <2>5, <3>1, <3>2
  <2>7. CASE M[i].sent /\ M[i].left = 0
    <3>1. run[n] = expire(g, i) BY <2>4, <2>7
    <3>2. i \in DOMAIN g.mgmt /\ g.mgmt[i].sent /\ g.mgmt[i].left = 0 BY <2>2, <2>5, <2>7
    <3>3. /\ HInv(expire(g, i), c, P, {}, T)
          /\ i - 1 <= Len(expire(g, i).mgmt)
          /\ \A k \in 1 .. i - 1 : /\ expire(g, i).mgmt[k].left = g.mgmt[k].left
                                   /\ g.mgmt[k].sent => expire(g, i).mgmt[k].sent
      BY <2>5, <3>2, Expire
    <3>4. \A k \in 1 .. i - 1 : k \in 1 .. i BY <2>2
    <3> QED BY <2>2, <2>5, <3>1, <3>3, <3>4
  <2> QED BY <2>6, <2>7
<1> HIDE DEF Good
<1> SUFFICES ASSUME B # {} PROVE FALSE
  <2>1. L \in 0 .. L /\ L \notin B BY <1>1
  <2> QED BY <1>4, <2>1 DEF Good
<1>8. B \subseteq Nat BY <1>1
<1>9. PICK n \in B : \A m \in B : n <= m BY <1>8, Least
<1>10. n \in 1 .. L /\ n - 1 \in 0 .. L /\ n - 1 \notin B BY <1>1, <1>6, <1>9
<1>11. Good(n) BY <1>7, <1>10
<1> QED BY <1>9, <1>11

\* on_tick keeps the invariant.
LEMMA OnTick ==
  ASSUME NEW e, NEW c, NEW d, NEW P, CtxOk(c), CtxOk(d), HInv(e, c, P, {}, {}),
         e.out = <<>>, d.box = c.box, d.used = c.used, d.joins = c.joins,
         c.box # <<>> => d.age = c.age + 1,
         \A x \in c.joins : d.rem[x] = c.rem[x] - 1
  PROVE  HInv(on_tick(e), d, P, {}, {})
<1>1. HInv(aged(e), d, P, {}, {}) BY Aged
<1>2. HInv(expire_all(aged(e)), d, P, {}, {}) BY <1>1, ExpireAll
<1>3. PICK f : f = send_next_mgmt(expire_all(aged(e)))
  OBVIOUS
<1>4. HInv(f, d, P, {}, {}) BY <1>2, <1>3, SendNext
<1>5. HInv(issue(f, NodeListReq), d, P, {}, {}) BY <1>4, IssueList
<1> QED BY <1>3, <1>4, <1>5 DEF on_tick

-----------------------------------------------------------------------------
(***************************************************************************)
(* The link drops                                                          *)
(***************************************************************************)

\* The recursive function of sent_of exists.
SentRun(run, M, k) ==
  run = [n \in 0 .. k |-> IF n = 0 THEN <<>>
                          ELSE IF M[n].sent THEN Append(run[n - 1], M[n]) ELSE run[n - 1]]

\* Were there a least length without such a function, the one before extends.
LEMMA SentRunExists ==
  ASSUME NEW M, NEW k \in Nat
  PROVE  \E run : SentRun(run, M, k)
<1> DEFINE Up(x, n) == IF M[n].sent THEN Append(x, M[n]) ELSE x
<1>0. \A run, n : SentRun(run, M, n) <=> run = [i \in 0 .. n |-> IF i = 0 THEN <<>> ELSE Up(run[i - 1], i)]
  BY DEF SentRun
<1> HIDE DEF Up
<1> DEFINE T == {n \in Nat : ~ \E run : SentRun(run, M, n)}
<1> SUFFICES ASSUME T # {} PROVE FALSE
  OBVIOUS
<1>1. PICK n \in T : \A m \in T : n <= m BY Least
<1>2. n # 0
  <2>1. PICK g : g = [i \in 0 .. 0 |-> <<>>]
    OBVIOUS
  <2>2. g = [i \in 0 .. 0 |-> IF i = 0 THEN <<>> ELSE Up(g[i - 1], i)] BY <2>1
  <2>3. SentRun(g, M, 0) BY <2>2, <1>0
  <2> QED BY <1>1, <2>3
<1>3. n - 1 \in Nat /\ n - 1 \notin T BY <1>1, <1>2
<1>4. PICK g : SentRun(g, M, n - 1) BY <1>3
<1>5. g = [i \in 0 .. n - 1 |-> IF i = 0 THEN <<>> ELSE Up(g[i - 1], i)] BY <1>0, <1>4
<1>6. PICK h : h = [i \in 0 .. n |-> IF i < n THEN g[i] ELSE Up(g[n - 1], n)]
  OBVIOUS
<1>7. ASSUME NEW i \in 0 .. n
      PROVE  h[i] = IF i = 0 THEN <<>> ELSE Up(h[i - 1], i)
  <2>1. CASE i = 0 BY <2>1, <1>2, <1>5, <1>6
  <2>2. CASE i # 0 /\ i < n BY <2>2, <1>5, <1>6
  <2>3. CASE i = n BY <2>3, <1>2, <1>6
  <2> QED BY <2>1, <2>2, <2>3
<1>8. SentRun(h, M, n) BY <1>0, <1>6, <1>7
<1> QED BY <1>1, <1>8

\* What is left of M's requests D: the ones that were sent, each once.
Kept(N, M, D) ==
  /\ N \in Seq(ReqRec)
  /\ \A k \in DOMAIN N : \E l \in D : M[l].sent /\ N[k] = M[l]
  /\ \A l \in D : M[l].sent => \E k \in DOMAIN N : N[k] = M[l]
  /\ \A j, k \in DOMAIN N : j # k => \E l, m \in D : l # m /\ N[j] = M[l] /\ N[k] = M[m]

\* sent_of keeps exactly those that were sent.
LEMMA SentOf ==
  ASSUME NEW M \in Seq(ReqRec)
  PROVE  Kept(sent_of(M), M, DOMAIN M)
<1> DEFINE L == Len(M)
<1>1. L \in Nat /\ DOMAIN M = 1 .. L
  OBVIOUS
<1>2. \E run : SentRun(run, M, L) BY <1>1, SentRunExists
<1> DEFINE run == CHOOSE run : run =
             [n \in 0 .. Len(M) |-> IF n = 0 THEN <<>>
                                    ELSE IF M[n].sent THEN Append(run[n - 1], M[n]) ELSE run[n - 1]]
<1>3. SentRun(run, M, L)
  <2>1. \E r : r = [n \in 0 .. Len(M) |-> IF n = 0 THEN <<>>
                                    ELSE IF M[n].sent THEN Append(r[n - 1], M[n]) ELSE r[n - 1]]
    BY <1>2 DEF SentRun
  <2> QED BY <2>1, Zenon DEF SentRun
<1>4. sent_of(M) = run[L] BY DEF sent_of
<1> HIDE DEF run
<1>5. run[0] = <<>> BY <1>1, <1>3 DEF SentRun
<1>6. Kept(run[0], M, 1 .. 0) BY <1>5 DEF Kept
<1>7. ASSUME NEW n \in 1 .. L, Kept(run[n - 1], M, 1 .. n - 1)
      PROVE  Kept(run[n], M, 1 .. n)
  <2>1. PICK K, N : K = run[n - 1] /\ N = run[n]
    OBVIOUS
  <2>2. N = IF M[n].sent THEN Append(K, M[n]) ELSE K
    <3>1. n \in 0 .. L /\ n # 0 BY <1>1
    <3>2. \A x \in 0 .. L : run[x] = IF x = 0 THEN <<>>
                              ELSE IF M[x].sent THEN Append(run[x - 1], M[x]) ELSE run[x - 1]
      BY <1>3, Zenon DEF SentRun
    <3>3. run[n] = IF M[n].sent THEN Append(run[n - 1], M[n]) ELSE run[n - 1] BY <3>1, <3>2, Zenon
    <3> QED BY <2>1, <3>3
  <2>3. /\ K \in Seq(ReqRec)
        /\ \A k \in DOMAIN K : \E l \in 1 .. n - 1 : M[l].sent /\ K[k] = M[l]
        /\ \A l \in 1 .. n - 1 : M[l].sent => \E k \in DOMAIN K : K[k] = M[l]
        /\ \A j, k \in DOMAIN K : j # k => \E l, m \in 1 .. n - 1 : l # m /\ K[j] = M[l] /\ K[k] = M[m]
    BY <1>7, <2>1 DEF Kept
  <2>4. /\ \A l \in 1 .. n - 1 : l \in 1 .. n /\ l # n
        /\ \A l \in 1 .. n : l \in 1 .. n - 1 \/ l = n
        /\ n \in 1 .. n /\ M[n] \in ReqRec
    BY <1>1
  <2>5. CASE ~M[n].sent BY <2>1, <2>2, <2>3, <2>4, <2>5 DEF Kept
  <2>6. CASE M[n].sent
    <3>1. N = Append(K, M[n]) BY <2>2, <2>6
    <3>2. PICK p : p = Len(K) + 1
      OBVIOUS
    <3>3. /\ N \in Seq(ReqRec) /\ N[p] = M[n]
          /\ DOMAIN K = 1 .. Len(K) /\ Len(K) \in Nat /\ DOMAIN N = 1 .. p
          /\ \A k \in 1 .. Len(K) : N[k] = K[k]
      BY <2>3, <2>4, <3>1, <3>2, AppendFacts
    <3>4. /\ \A k \in DOMAIN K : k \in DOMAIN N /\ k # p /\ N[k] = K[k]
          /\ \A k \in DOMAIN N : k \in DOMAIN K \/ k = p
          /\ p \in DOMAIN N
      BY <3>2, <3>3
    <3>5. \A k \in DOMAIN N : \E l \in 1 .. n : M[l].sent /\ N[k] = M[l] BY <2>3, <2>4, <2>6, <3>3, <3>4
    <3>6. \A l \in 1 .. n : M[l].sent => \E k \in DOMAIN N : N[k] = M[l] BY <2>3, <2>4, <3>3, <3>4
    <3>7. ASSUME NEW j \in DOMAIN N, NEW k \in DOMAIN N, j # k
          PROVE  \E l, m \in 1 .. n : l # m /\ N[j] = M[l] /\ N[k] = M[m]
      <4>1. CASE j = p
        <5>1. k \in DOMAIN K BY <3>4, <3>7, <4>1
        <5>2. PICK l \in 1 .. n - 1 : K[k] = M[l] BY <2>3, <5>1
        <5> QED BY <2>4, <3>3, <3>4, <4>1, <5>1, <5>2
      <4>2. CASE k = p
        <5>1. j \in DOMAIN K BY <3>4, <3>7, <4>2
        <5>2. PICK l \in 1 .. n - 1 : K[j] = M[l] BY <2>3, <5>1
        <5> QED BY <2>4, <3>3, <3>4, <4>2, <5>1, <5>2
      <4>3. CASE j # p /\ k # p
        <5>1. j \in DOMAIN K /\ k \in DOMAIN K BY <3>4, <4>3
        <5>2. PICK l, m \in 1 .. n - 1 : l # m /\ K[j] = M[l] /\ K[k] = M[m] BY <2>3, <3>7, <5>1
        <5> QED BY <2>4, <3>4, <5>1, <5>2
      <4> QED BY <4>1, <4>2, <4>3
    <3>8. \A j, k \in DOMAIN N : j # k => \E l, m \in 1 .. n : l # m /\ N[j] = M[l] /\ N[k] = M[m] BY <3>7
    <3> QED BY <2>1, <3>3, <3>5, <3>6, <3>8 DEF Kept
  <2> QED BY <2>5, <2>6
<1> DEFINE B == {n \in 0 .. L : ~Kept(run[n], M, 1 .. n)}
<1> SUFFICES ASSUME B # {} PROVE FALSE BY <1>1, <1>4
<1>8. B \subseteq Nat BY <1>1
<1>9. PICK n \in B : \A m \in B : n <= m BY <1>8, Least
<1>10. n \in 1 .. L /\ n - 1 \in 0 .. L /\ n - 1 \notin B BY <1>1, <1>6, <1>9
<1>11. Kept(run[n], M, 1 .. n) BY <1>7, <1>10
<1> QED BY <1>9, <1>11

\* The clients of the first requests, n of them dealt with, that are owed an answer.
Owed(M, n) == {r \in Rpcs : \E k \in n + 1 .. Len(M) : ~M[k].sent /\ M[k].rpc = r}

\* Those that were not sent leave together.
LEMMA UnsentLeave ==
  ASSUME NEW e, NEW c, NEW P, NEW T, CtxOk(c), HInv(e, c, P, {}, T), e.out = <<>>
  PROVE  HInv([e EXCEPT !.mgmt = sent_of(e.mgmt)], c, P, Owed(e.mgmt, 0), T)
<1>0. /\ DOMAIN e = Fields /\ e.mgmt \in Seq(ReqRec)
      /\ Fit(e, P, T) /\ IdsOk(e, c) /\ SlotOk(e, c) /\ JoinsOk(e, c) /\ AccOk(e, P, {})
  BY DEF HInv, Fit
<1>1. PICK M, N : M = e.mgmt /\ N = sent_of(M)
  OBVIOUS
<1>2. PICK f : f = [e EXCEPT !.mgmt = N]
  OBVIOUS
<1>3. /\ DOMAIN f = Fields /\ f.mgmt = N /\ f.out = e.out /\ f.next = e.next /\ f.late = e.late
      /\ f.answers = e.answers /\ f.recent = e.recent /\ f.told = e.told /\ f.held = e.held
  BY <1>0, <1>2 DEF Fields
<1>4. Kept(N, M, DOMAIN M) /\ DOMAIN M = 1 .. Len(M) /\ Len(M) \in Nat BY <1>0, <1>1, SentOf
<1>5. /\ N \in Seq(ReqRec)
      /\ \A k \in DOMAIN N : \E l \in DOMAIN M : M[l].sent /\ N[k] = M[l]
      /\ \A l \in DOMAIN M : M[l].sent => \E k \in DOMAIN N : N[k] = M[l]
      /\ \A j, k \in DOMAIN N : j # k => \E l, m \in DOMAIN M : l # m /\ N[j] = M[l] /\ N[k] = M[m]
  BY <1>4 DEF Kept
<1>6. Fit(f, P, T) BY <1>0, <1>3, <1>5 DEF Fit
<1>7. IdsOk(f, c)
  <2>1. \A k \in DOMAIN N : 0 < N[k].id /\ N[k].id < f.next /\ N[k].id # f.late
    BY <1>0, <1>1, <1>3, <1>5 DEF IdsOk
  <2>2. \A j, k \in DOMAIN M : j # k => M[j].id # M[k].id BY <1>0, <1>1 DEF IdsOk
  <2>3. ASSUME NEW j \in DOMAIN N, NEW k \in DOMAIN N, j # k
        PROVE  N[j].id # N[k].id
    <3>1. PICK l, m \in DOMAIN M : l # m /\ N[j] = M[l] /\ N[k] = M[m] BY <1>5, <2>3
    <3> QED BY <2>2, <3>1
  <2>4. \A k \in DOMAIN N : ~N[k].sent => N[k].id \notin c.used /\ N[k].left = Timeout(N[k].op)
    BY <1>0, <1>1, <1>5 DEF IdsOk
  <2> QED BY <1>0, <1>3, <2>1, <2>3, <2>4 DEF IdsOk
<1>8. SlotOk(f, c)
  <2>1. ASSUME NEW q, NEW a, Carried(M, q, a) PROVE Carried(N, q, a)
    <3>1. PICK l \in DOMAIN M :
            /\ M[l].id = q.id /\ M[l].op = q.op /\ M[l].sent
            /\ M[l].left + a = Timeout(q.op)
      BY <2>1 DEF Carried
    <3>2. PICK k \in DOMAIN N : N[k] = M[l] BY <3>1, <1>5
    <3> QED BY <3>1, <3>2 DEF Carried
  <2>2. \A q : Gone(e, q) => Gone(f, q) BY <1>1, <1>3, <1>5 DEF Gone
  <2> QED BY <1>0, <1>1, <1>3, <2>1, <2>2 DEF SlotOk
<1>9. JoinsOk(f, c)
  <2>1. \A x \in c.joins :
             x = f.late \/ \E k \in DOMAIN N : N[k].id = x /\ N[k].op = "PairingOpen" /\ N[k].sent
    <3> SUFFICES ASSUME NEW x \in c.joins, x # f.late
                 PROVE  \E k \in DOMAIN N : N[k].id = x /\ N[k].op = "PairingOpen" /\ N[k].sent
      OBVIOUS
    <3>1. PICK n \in DOMAIN M : M[n].id = x /\ M[n].op = "PairingOpen" /\ M[n].sent
      BY <1>0, <1>1, <1>3 DEF JoinsOk
    <3> QED BY <3>1, <1>5
  <2>2. f.late \in c.joins =>
          /\ c.rem[f.late] < WindowTicks
          /\ \A k \in DOMAIN N : N[k].op = "PairingOpen" /\ N[k].sent => c.rem[f.late] < N[k].left
    BY <1>0, <1>1, <1>3, <1>5 DEF JoinsOk
  <2>3. ASSUME NEW k \in DOMAIN N, N[k].id \in c.joins
        PROVE  c.rem[N[k].id] < WindowTicks + N[k].left
    <3>1. PICK n \in DOMAIN M : N[k] = M[n] BY <1>5
    <3> QED BY <1>0, <1>1, <2>3, <3>1 DEF JoinsOk
  <2>4. \A j, k \in DOMAIN M : M[j].op = "PairingOpen" /\ M[k].op = "PairingOpen" => j = k
    BY <1>0, <1>1 DEF JoinsOk
  <2>5. ASSUME NEW j \in DOMAIN N, NEW k \in DOMAIN N, N[j].op = "PairingOpen" /\ N[k].op = "PairingOpen"
        PROVE  j = k
    <3> SUFFICES ASSUME j # k PROVE FALSE
      OBVIOUS
    <3>1. PICK m, n \in DOMAIN M : m # n /\ N[j] = M[m] /\ N[k] = M[n] BY <1>5
    <3> QED BY <2>4, <2>5, <3>1
  <2> QED BY <1>3, <2>1, <2>2, <2>3, <2>5 DEF JoinsOk
<1>10. AccOk(f, P, Owed(M, 0))
  <2>1. PICK Q : Q = Owed(M, 0)
    OBVIOUS
  <2>2. \A r : r \in Q <=> r \in Rpcs /\ \E k \in DOMAIN M : ~M[k].sent /\ M[k].rpc = r
    BY <1>4, <2>1 DEF Owed
  <2>3. \A j, k \in DOMAIN M : M[j].rpc = M[k].rpc /\ M[j].rpc # 0 => j = k BY <1>0, <1>1 DEF AccOk
  <2>4. ASSUME NEW r \in Rpcs
        PROVE  /\ Pending(M, r) <=> Pending(N, r) \/ r \in Q
               /\ ~(Pending(N, r) /\ r \in Q)
    <3>1. r # 0 BY EngineAssumption
    <3>2. Pending(N, r) => \E l \in DOMAIN M : M[l].sent /\ M[l].rpc = r BY <1>5 DEF Pending
    <3>3. Pending(M, r) => Pending(N, r) \/ r \in Q BY <1>5, <2>2 DEF Pending
    <3>4. Pending(N, r) \/ r \in Q => Pending(M, r) BY <2>2, <3>2 DEF Pending
    <3>5. ~(Pending(N, r) /\ r \in Q) BY <2>2, <2>3, <3>1, <3>2
    <3> QED BY <3>3, <3>4, <3>5
  <2>5. ASSUME NEW r \in Rpcs
        PROVE  /\ f.answers[r] <= 1
               /\ Pending(N, r) => f.answers[r] = 0 /\ r \in P /\ r \notin Q
               /\ r \in P /\ r \notin Q /\ f.answers[r] = 0 => Pending(N, r)
               /\ r \in Q \/ r \notin P => f.answers[r] = 0
    BY <1>0, <1>1, <1>3, <2>4 DEF AccOk
  <2>6. Q \subseteq P /\ P \subseteq Rpcs BY <1>0, <1>1, <2>2, <2>4 DEF AccOk
  <2>7. ASSUME NEW j \in DOMAIN N, NEW k \in DOMAIN N, N[j].rpc = N[k].rpc /\ N[j].rpc # 0
        PROVE  j = k
    <3> SUFFICES ASSUME j # k PROVE FALSE
      OBVIOUS
    <3>1. PICK m, n \in DOMAIN M : m # n /\ N[j] = M[m] /\ N[k] = M[n] BY <1>5
    <3> QED BY <2>3, <2>7, <3>1
  <2>8. \A r \in Rpcs :
               /\ f.answers[r] <= 1
               /\ Pending(f.mgmt, r) => f.answers[r] = 0 /\ r \in P /\ r \notin Q
               /\ r \in P /\ r \notin Q /\ f.answers[r] = 0 => Pending(f.mgmt, r)
               /\ r \in Q \/ r \notin P => f.answers[r] = 0
    BY <1>3, <2>5
  <2>9. \A j, k \in DOMAIN f.mgmt : f.mgmt[j].rpc = f.mgmt[k].rpc /\ f.mgmt[j].rpc # 0 => j = k
    BY <1>3, <2>7
  <2>10. AccOk(f, P, Q) BY <2>6, <2>8, <2>9, Zenon DEF AccOk
  <2> QED BY <2>1, <2>10
<1> QED BY <1>1, <1>2, <1>6, <1>7, <1>8, <1>9, <1>10 DEF HInv

\* The recursive function of fail_unsent_mgmt exists.
FailRun(run, e, k) ==
  run = [n \in 0 .. k |-> IF n = 0 THEN [e EXCEPT !.mgmt = sent_of(e.mgmt)]
                          ELSE IF e.mgmt[n].sent THEN run[n - 1] ELSE fail_op(run[n - 1], e.mgmt[n])]

\* Were there a least length without such a function, the one before extends.
LEMMA FailRunExists ==
  ASSUME NEW e, NEW k \in Nat
  PROVE  \E run : FailRun(run, e, k)
<1> DEFINE s == [e EXCEPT !.mgmt = sent_of(e.mgmt)]
           Up(x, n) == IF e.mgmt[n].sent THEN x ELSE fail_op(x, e.mgmt[n])
<1>0. \A run, n : FailRun(run, e, n) <=> run = [i \in 0 .. n |-> IF i = 0 THEN s ELSE Up(run[i - 1], i)]
  BY DEF FailRun
<1> HIDE DEF Up, s
<1> DEFINE T == {n \in Nat : ~ \E run : FailRun(run, e, n)}
<1> SUFFICES ASSUME T # {} PROVE FALSE
  OBVIOUS
<1>1. PICK n \in T : \A m \in T : n <= m BY Least
<1>2. n # 0
  <2>1. PICK g : g = [i \in 0 .. 0 |-> s]
    OBVIOUS
  <2>2. g = [i \in 0 .. 0 |-> IF i = 0 THEN s ELSE Up(g[i - 1], i)] BY <2>1
  <2>3. FailRun(g, e, 0) BY <2>2, <1>0
  <2> QED BY <1>1, <2>3
<1>3. n - 1 \in Nat /\ n - 1 \notin T BY <1>1, <1>2
<1>4. PICK g : FailRun(g, e, n - 1) BY <1>3
<1>5. g = [i \in 0 .. n - 1 |-> IF i = 0 THEN s ELSE Up(g[i - 1], i)] BY <1>0, <1>4
<1>6. PICK h : h = [i \in 0 .. n |-> IF i < n THEN g[i] ELSE Up(g[n - 1], n)]
  OBVIOUS
<1>7. ASSUME NEW i \in 0 .. n
      PROVE  h[i] = IF i = 0 THEN s ELSE Up(h[i - 1], i)
  <2>1. CASE i = 0 BY <2>1, <1>2, <1>5, <1>6
  <2>2. CASE i # 0 /\ i < n BY <2>2, <1>5, <1>6
  <2>3. CASE i = n BY <2>3, <1>2, <1>6
  <2> QED BY <2>1, <2>2, <2>3
<1>8. FailRun(h, e, n) BY <1>0, <1>6, <1>7
<1> QED BY <1>1, <1>8

\* fail_unsent_mgmt answers the client of everything that waited for the slot.
LEMMA FailUnsent ==
  ASSUME NEW e, NEW c, NEW P, NEW T, CtxOk(c), HInv(e, c, P, {}, T), e.out = <<>>
  PROVE  HInv(fail_unsent_mgmt(e), c, P, {}, T)
<1> DEFINE M == e.mgmt
           L == Len(M)
<1>1. M \in Seq(ReqRec) /\ L \in Nat /\ DOMAIN M = 1 .. L /\ DOMAIN e = Fields BY DEF HInv, Fit
<1>2. \E run : FailRun(run, e, L) BY <1>1, FailRunExists
<1> DEFINE run == CHOOSE run : run =
             [n \in 0 .. Len(e.mgmt) |->
                IF n = 0 THEN [e EXCEPT !.mgmt = sent_of(e.mgmt)]
                ELSE IF e.mgmt[n].sent THEN run[n - 1] ELSE fail_op(run[n - 1], e.mgmt[n])]
<1>3. FailRun(run, e, L)
  <2>1. \E r : r =
             [n \in 0 .. Len(e.mgmt) |->
                IF n = 0 THEN [e EXCEPT !.mgmt = sent_of(e.mgmt)]
                ELSE IF e.mgmt[n].sent THEN r[n - 1] ELSE fail_op(r[n - 1], e.mgmt[n])]
    BY <1>2 DEF FailRun
  <2> QED BY <2>1, Zenon DEF FailRun
<1>4. fail_unsent_mgmt(e) = run[L] BY DEF fail_unsent_mgmt
<1> HIDE DEF run
<1> DEFINE Good(n) == HInv(run[n], c, P, Owed(M, n), T)
           B == {n \in 0 .. L : ~Good(n)}
<1>5. run[0] = [e EXCEPT !.mgmt = sent_of(e.mgmt)] BY <1>1, <1>3 DEF FailRun
<1>6. Good(0) BY <1>5, UnsentLeave
<1>7. ASSUME NEW n \in 1 .. L, Good(n - 1)
      PROVE  Good(n)
  <2>1. PICK g, q : g = run[n - 1] /\ q = M[n]
    OBVIOUS
  <2>2. run[n] = IF q.sent THEN g ELSE fail_op(g, q)
    <3>1. n \in 0 .. L /\ n # 0 BY <1>1
    <3> QED BY <1>3, <2>1, <3>1 DEF FailRun
  <2>3. HInv(g, c, P, Owed(M, n - 1), T) BY <1>7, <2>1
  <2>4. /\ n \in n - 1 + 1 .. L
        /\ \A k : k \in n - 1 + 1 .. L <=> k = n \/ k \in n + 1 .. L
        /\ \A k \in n + 1 .. L : k # n /\ k \in DOMAIN M
        /\ n \in DOMAIN M
    BY <1>1
  <2>5. q \in ReqRec /\ M[n] = q BY <1>1, <2>1, <2>4
  <2>6. q.rpc \in Rpcs \cup {0} BY <2>5 DEF ReqRec
  <2>7. CASE q.sent
    <3>1. Owed(M, n - 1) = Owed(M, n) BY <2>4, <2>5, <2>7 DEF Owed
    <3> QED BY <2>2, <2>3, <2>7, <3>1
  <2>8. CASE ~q.sent
    <3>1. q.rpc \in Owed(M, n - 1) \cup {0} BY <2>4, <2>5, <2>6, <2>8 DEF Owed
    <3>2. \A j, k \in DOMAIN M : M[j].rpc = M[k].rpc /\ M[j].rpc # 0 => j = k BY DEF HInv, AccOk
    <3>3. Owed(M, n - 1) \ {q.rpc} = Owed(M, n)
      <4>1. ASSUME NEW r \in Owed(M, n), r = q.rpc PROVE FALSE
        <5>1. r \in Rpcs /\ r # 0 BY <4>1, EngineAssumption DEF Owed
        <5>2. PICK k \in n + 1 .. L : M[k].rpc = r BY <4>1 DEF Owed
        <5> QED BY <2>4, <2>5, <3>2, <4>1, <5>1, <5>2
      <4>2. \A r \in Owed(M, n) : r \in Owed(M, n - 1) BY <2>4 DEF Owed
      <4>3. \A r \in Owed(M, n - 1) : r # q.rpc => r \in Owed(M, n) BY <2>4, <2>5 DEF Owed
      <4> QED BY <4>1, <4>2, <4>3
    <3>4. HInv(fail_op(g, q), c, P, Owed(M, n - 1) \ {q.rpc}, T) BY <2>3, <3>1, FailOp
    <3> QED BY <2>2, <2>8, <3>3, <3>4
  <2> QED BY <2>7, <2>8
<1>8. Owed(M, L) = {} BY <1>1 DEF Owed
<1> SUFFICES ASSUME B # {} PROVE FALSE
  <2>1. L \in 0 .. L /\ L \notin B BY <1>1
  <2>2. HInv(run[L], c, P, Owed(M, L), T) BY <2>1
  <2> QED BY <1>4, <1>8, <2>2
<1> HIDE DEF Good
<1>9. B \subseteq Nat BY <1>1
<1>10. PICK n \in B : \A m \in B : n <= m BY <1>9, Least
<1>11. n \in 1 .. L /\ n - 1 \in 0 .. L /\ n - 1 \notin B BY <1>1, <1>6, <1>10
<1>12. Good(n) BY <1>7, <1>11
<1> QED BY <1>10, <1>12

-----------------------------------------------------------------------------
(***************************************************************************)
(* The wire and the context                                                *)
(***************************************************************************)

\* A sequence is one of its own elements.
LEMMA SeqSelf ==
  ASSUME NEW S, NEW s \in Seq(S)
  PROVE  s \in Seq({s[k] : k \in DOMAIN s})
OBVIOUS

\* A frame is written: the ids of the answers under way.
LEMMA WireAppend ==
  ASSUME NEW w, WireOk(w), NEW m, MsgOk(m), m.type = "answer" => m.id \notin WireIds(w)
  PROVE  /\ WireOk(Append(w, m))
         /\ WireIds(Append(w, m)) = IF m.type = "answer" THEN WireIds(w) \cup {m.id} ELSE WireIds(w)
         /\ JoinIds(Append(w, m)) = IF m.type = "answer" /\ m.ok /\ m.node # 0
                                    THEN JoinIds(w) \cup {m.id} ELSE JoinIds(w)
<1>1. PICK S : S = {w[k] : k \in DOMAIN w} \cup {m}
  OBVIOUS
<1>2. PICK v, n : v = Append(w, m) /\ n = Len(w) + 1
  OBVIOUS
<1>3. w \in Seq(S) /\ m \in S BY <1>1 DEF WireOk
<1>4. /\ v \in Seq(S) /\ DOMAIN w = 1 .. Len(w) /\ Len(w) \in Nat /\ DOMAIN v = 1 .. n
      /\ (\A k \in 1 .. Len(w) : v[k] = w[k]) /\ v[n] = m
  BY <1>2, <1>3, AppendFacts
<1>5. /\ \A k \in DOMAIN w : k \in DOMAIN v /\ v[k] = w[k] /\ k # n
      /\ \A k \in DOMAIN v : k \in DOMAIN w \/ k = n
      /\ n \in DOMAIN v
  BY <1>2, <1>4
<1>6. \A k \in DOMAIN w : w[k].type = "answer" => w[k].id \in WireIds(w) BY DEF WireIds
<1>7. WireOk(v)
  <2>0. v \in Seq(S) BY <1>4
  <2>1. v \in Seq({v[k] : k \in DOMAIN v}) BY <2>0, SeqSelf, Zenon
  <2>2. \A k \in DOMAIN v : MsgOk(v[k]) BY <1>4, <1>5 DEF WireOk
  <2>3. \A j, k \in DOMAIN v : v[j].type = "answer" /\ v[k].type = "answer" /\ j # k => v[j].id # v[k].id
    BY <1>4, <1>5, <1>6 DEF WireOk
  <2> QED BY <2>1, <2>2, <2>3 DEF WireOk
<1>8. WireIds(v) = IF m.type = "answer" THEN WireIds(w) \cup {m.id} ELSE WireIds(w)
  BY <1>4, <1>5 DEF WireIds
<1>9. JoinIds(v) = IF m.type = "answer" /\ m.ok /\ m.node # 0 THEN JoinIds(w) \cup {m.id} ELSE JoinIds(w)
  BY <1>4, <1>5 DEF JoinIds
<1> QED BY <1>2, <1>7, <1>8, <1>9

\* The oldest frame is taken: the ids of the answers under way.
LEMMA WireTail ==
  ASSUME NEW w, WireOk(w), w # <<>>
  PROVE  /\ WireOk(Tail(w)) /\ MsgOk(Head(w))
         /\ WireIds(Tail(w)) \subseteq WireIds(w) /\ JoinIds(Tail(w)) \subseteq JoinIds(w)
         /\ Head(w).type = "answer" => Head(w).id \in WireIds(w) /\ Head(w).id \notin WireIds(Tail(w))
         /\ Head(w).type = "answer" /\ Head(w).ok /\ Head(w).node # 0 => Head(w).id \in JoinIds(w)
<1>1. PICK S : S = {w[k] : k \in DOMAIN w}
  OBVIOUS
<1>2. PICK v : v = Tail(w)
  OBVIOUS
<1>3. w \in Seq(S) BY <1>1 DEF WireOk
<1>4. /\ v \in Seq(S) /\ DOMAIN w = 1 .. Len(w) /\ Len(w) \in Nat /\ 1 \in DOMAIN w
      /\ DOMAIN v = 1 .. Len(w) - 1 /\ Head(w) = w[1]
      /\ \A k \in 1 .. Len(w) - 1 : v[k] = w[k + 1]
  BY <1>2, <1>3
<1>5. \A k \in DOMAIN v : k + 1 \in DOMAIN w /\ k + 1 # 1 /\ v[k] = w[k + 1] BY <1>4
<1>6. \A j, k \in DOMAIN v : j # k => j + 1 # k + 1 BY <1>4
<1>7. WireOk(v)
  <2>0. v \in Seq(S) BY <1>4
  <2>1. v \in Seq({v[k] : k \in DOMAIN v}) BY <2>0, SeqSelf, Zenon
  <2>2. \A k \in DOMAIN v : MsgOk(v[k]) BY <1>5 DEF WireOk
  <2>3. \A j, k \in DOMAIN v : v[j].type = "answer" /\ v[k].type = "answer" /\ j # k => v[j].id # v[k].id
    BY <1>5, <1>6 DEF WireOk
  <2> QED BY <2>1, <2>2, <2>3 DEF WireOk
<1>8. WireIds(v) \subseteq WireIds(w) BY <1>5 DEF WireIds
<1>9. JoinIds(v) \subseteq JoinIds(w) BY <1>5 DEF JoinIds
<1>10. Head(w).type = "answer" => Head(w).id \in WireIds(w) /\ Head(w).id \notin WireIds(v)
  BY <1>4, <1>5, SMTT(30) DEF WireIds, WireOk
<1>11. Head(w).type = "answer" /\ Head(w).ok /\ Head(w).node # 0 => Head(w).id \in JoinIds(w)
  BY <1>4 DEF JoinIds
<1>12. MsgOk(Head(w)) BY <1>4 DEF WireOk
<1> QED BY <1>2, <1>7, <1>8, <1>9, <1>10, <1>11, <1>12

\* Ids of answers are not 0; joins are answers.
LEMMA WireIdsAre ==
  ASSUME NEW w, WireOk(w)
  PROVE  WireIds(w) \subseteq Nat \ {0} /\ JoinIds(w) \subseteq WireIds(w)
<1>1. \A k \in DOMAIN w : w[k].type = "answer" => w[k].id \in Nat \ {0} BY DEF WireOk, MsgOk
<1> QED BY <1>1 DEF WireIds, JoinIds

\* Nothing under way.
LEMMA EmptyWire ==
  WireOk(<<>>) /\ WireIds(<<>>) = {} /\ JoinIds(<<>>) = {}
<1>1. WireOk(<<>>) BY DEF WireOk
<1> QED BY <1>1 DEF WireIds, JoinIds

\* The fields of the context.
LEMMA CtxIs ==
  ASSUME NEW b, NEW a, NEW x, NEW w, NEW wa, NEW d, NEW c, c = Ctx(b, a, x, w, wa, d)
  PROVE  /\ c.box = b /\ c.age = a /\ c.used = {x} \cup WireIds(w)
         /\ c.joins = ({x} \ {0}) \cup JoinIds(w)
         /\ DOMAIN c.rem = c.joins
         /\ \A y \in c.joins :
              c.rem[y] = IF y = x THEN WindowTicks + LateTicks - wa + MaxDelay ELSE MaxDelay - d
BY DEF Ctx

\* The context of a dongle is well formed.
LEMMA DongleCtx ==
  ASSUME NEW b, NEW a, NEW x, NEW w, NEW wa, NEW d, DongleOk(b, a, x, w, wa, d)
  PROVE  CtxOk(Ctx(b, a, x, w, wa, d))
<1>1. PICK c : c = Ctx(b, a, x, w, wa, d)
  OBVIOUS
<1>2. /\ c.box = b /\ c.age = a /\ c.used = {x} \cup WireIds(w)
      /\ c.joins = ({x} \ {0}) \cup JoinIds(w)
  BY <1>1, CtxIs
<1>3. /\ WireIds(w) \subseteq Nat \ {0} /\ JoinIds(w) \subseteq WireIds(w)
      /\ x \in Nat /\ wa \in 0 .. WindowTicks + LateTicks /\ d \in 0 .. MaxDelay
      /\ b \in Seq(ReqRec) /\ a \in Nat /\ (b # <<>> => a < BusyTicks)
  BY WireIdsAre DEF DongleOk
<1>4. c.rem \in [c.joins -> Nat]
  <2>1. WindowTicks + LateTicks - wa + MaxDelay \in Nat /\ MaxDelay - d \in Nat BY <1>3, EngineAssumption
  <2>2. c.rem = [y \in c.joins |->
                   IF y = x THEN WindowTicks + LateTicks - wa + MaxDelay ELSE MaxDelay - d]
    BY <1>1 DEF Ctx
  <2> QED BY <2>1, <2>2
<1> QED BY <1>1, <1>2, <1>3, <1>4 DEF CtxOk

\* Joins that are over, or come nearer, need nothing new.
LEMMA JoinsStep ==
  ASSUME NEW e, NEW c, NEW d, CtxOk(c), CtxOk(d), e.mgmt \in Seq(ReqRec), JoinsOk(e, c),
         d.joins \subseteq c.joins, \A y \in d.joins : d.rem[y] <= c.rem[y]
  PROVE  JoinsOk(e, d)
<1>0. \A y \in d.joins : y \in c.joins /\ c.rem[y] \in Nat /\ d.rem[y] \in Nat BY DEF CtxOk
<1>1. PICK M : M = e.mgmt
  OBVIOUS
<1>2. \A k \in DOMAIN M : M[k].left \in Int
  <2>1. \A k \in DOMAIN M : M[k] \in ReqRec BY <1>1
  <2> QED BY <2>1 DEF ReqRec
<1>3. \A y \in d.joins :
         y = e.late \/ \E k \in DOMAIN M : M[k].id = y /\ M[k].op = "PairingOpen" /\ M[k].sent
  BY <1>1 DEF JoinsOk
<1>4. e.late \in d.joins =>
        /\ d.rem[e.late] < WindowTicks
        /\ \A k \in DOMAIN M : M[k].op = "PairingOpen" /\ M[k].sent => d.rem[e.late] < M[k].left
  <2> SUFFICES ASSUME e.late \in d.joins
               PROVE  /\ d.rem[e.late] < WindowTicks
                      /\ \A k \in DOMAIN M : M[k].op = "PairingOpen" /\ M[k].sent => d.rem[e.late] < M[k].left
    OBVIOUS
  <2>1. PICK u, v : u = d.rem[e.late] /\ v = c.rem[e.late]
    OBVIOUS
  <2>2. u \in Nat /\ v \in Nat /\ u <= v BY <1>0, <2>1
  <2>3. v < WindowTicks /\ \A k \in DOMAIN M : M[k].op = "PairingOpen" /\ M[k].sent => v < M[k].left
    BY <1>1, <2>1 DEF JoinsOk
  <2>4. u < WindowTicks BY <2>2, <2>3, EngineAssumption
  <2>5. \A k \in DOMAIN M : M[k].op = "PairingOpen" /\ M[k].sent => u < M[k].left BY <1>2, <2>2, <2>3
  <2> QED BY <2>1, <2>4, <2>5
<1>5. ASSUME NEW k \in DOMAIN M, M[k].id \in d.joins
      PROVE  d.rem[M[k].id] < WindowTicks + M[k].left
  <2>1. PICK u, v : u = d.rem[M[k].id] /\ v = c.rem[M[k].id]
    OBVIOUS
  <2>2. u \in Nat /\ v \in Nat /\ u <= v BY <1>0, <1>5, <2>1
  <2>3. v < WindowTicks + M[k].left BY <1>1, <1>5, <2>1 DEF JoinsOk
  <2> QED BY <1>2, <2>1, <2>2, <2>3, EngineAssumption
<1>6. \A j, k \in DOMAIN M : M[j].op = "PairingOpen" /\ M[k].op = "PairingOpen" => j = k BY <1>1 DEF JoinsOk
<1> QED BY <1>1, <1>3, <1>4, <1>5, <1>6 DEF JoinsOk

\* The window opens for the request in the inbox.
LEMMA JoinsOpen ==
  ASSUME NEW e, NEW c, NEW d, NEW P, NEW O, NEW T, CtxOk(c), CtxOk(d), HInv(e, c, P, O, T),
         NEW q, 1 \in DOMAIN c.box, c.box[1] = q, q.op = "PairingOpen",
         d.joins = c.joins \cup {q.id}, \A y \in c.joins : d.rem[y] <= c.rem[y],
         q.id \notin c.joins, d.rem[q.id] = WindowTicks + LateTicks + MaxDelay
  PROVE  JoinsOk(e, d)
<1>0. e.mgmt \in Seq(ReqRec) /\ IdsOk(e, c) /\ SlotOk(e, c) /\ JoinsOk(e, c) BY DEF HInv, Fit
<1>1. PICK M : M = e.mgmt
  OBVIOUS
<1>2. \A y \in c.joins : c.rem[y] \in Nat /\ d.rem[y] \in Nat BY DEF CtxOk
<1>3. \A k \in DOMAIN M : M[k].left \in Int
  <2>1. \A k \in DOMAIN M : M[k] \in ReqRec BY <1>0, <1>1
  <2> QED BY <2>1 DEF ReqRec
<1>4. c.age \in Nat /\ c.age < BusyTicks /\ Carried(M, q, c.age) BY <1>0, <1>1 DEF SlotOk, CtxOk
<1>5. PICK i \in DOMAIN M : /\ M[i].id = q.id /\ M[i].op = "PairingOpen" /\ M[i].sent
                            /\ M[i].left + c.age = WindowTicks
  BY <1>4 DEF Carried, Timeout
<1>6. e.late # q.id /\ \A k \in DOMAIN M : M[k].id = q.id => k = i BY <1>0, <1>1, <1>5 DEF IdsOk
<1>7. \A y \in d.joins :
         y = e.late \/ \E k \in DOMAIN M : M[k].id = y /\ M[k].op = "PairingOpen" /\ M[k].sent
  BY <1>0, <1>1, <1>5 DEF JoinsOk
<1>8. e.late \in d.joins =>
        /\ d.rem[e.late] < WindowTicks
        /\ \A k \in DOMAIN M : M[k].op = "PairingOpen" /\ M[k].sent => d.rem[e.late] < M[k].left
  <2> SUFFICES ASSUME e.late \in d.joins
               PROVE  /\ d.rem[e.late] < WindowTicks
                      /\ \A k \in DOMAIN M : M[k].op = "PairingOpen" /\ M[k].sent => d.rem[e.late] < M[k].left
    OBVIOUS
  <2>1. PICK u, v : u = d.rem[e.late] /\ v = c.rem[e.late]
    OBVIOUS
  <2>2. u \in Nat /\ v \in Nat /\ u <= v /\ e.late \in c.joins BY <1>2, <1>6, <2>1
  <2>3. v < WindowTicks /\ \A k \in DOMAIN M : M[k].op = "PairingOpen" /\ M[k].sent => v < M[k].left
    BY <1>0, <1>1, <2>1, <2>2 DEF JoinsOk
  <2>4. u < WindowTicks BY <2>2, <2>3, EngineAssumption
  <2>5. \A k \in DOMAIN M : M[k].op = "PairingOpen" /\ M[k].sent => u < M[k].left BY <1>3, <2>2, <2>3
  <2> QED BY <2>1, <2>4, <2>5
<1>9. ASSUME NEW k \in DOMAIN M, M[k].id \in d.joins
      PROVE  d.rem[M[k].id] < WindowTicks + M[k].left
  <2>1. CASE M[k].id = q.id
    <3>1. k = i BY <1>6, <2>1
    <3> QED BY <1>3, <1>4, <1>5, <2>1, <3>1, EngineAssumption
  <2>2. CASE M[k].id # q.id
    <3>1. PICK u, v : u = d.rem[M[k].id] /\ v = c.rem[M[k].id]
      OBVIOUS
    <3>2. u \in Nat /\ v \in Nat /\ u <= v BY <1>2, <1>9, <2>2, <3>1
    <3>3. v < WindowTicks + M[k].left BY <1>0, <1>1, <1>9, <2>2, <3>1 DEF JoinsOk
    <3> QED BY <1>3, <3>1, <3>2, <3>3, EngineAssumption
  <2> QED BY <2>1, <2>2
<1>10. \A j, k \in DOMAIN M : M[j].op = "PairingOpen" /\ M[k].op = "PairingOpen" => j = k
  BY <1>0, <1>1 DEF JoinsOk
<1> QED BY <1>1, <1>7, <1>8, <1>9, <1>10 DEF JoinsOk

\* The world around the engine changes: the inbox is emptied, or stays, and the id of its
\* request may be that of an answer now.
LEMMA CtxStep ==
  ASSUME NEW e, NEW c, NEW d, NEW P, NEW O, NEW T, CtxOk(c), CtxOk(d), HInv(e, c, P, O, T),
         e.out = <<>>, d.box = <<>> \/ (d.box = c.box /\ d.age = c.age),
         \A x \in d.used : x \in c.used \/ x = 0 \/ \E k \in DOMAIN c.box : x = c.box[k].id,
         JoinsOk(e, d)
  PROVE  HInv(e, d, P, O, T)
<1>0. /\ e.mgmt \in Seq(ReqRec) /\ e.next \in Nat /\ e.late \in Nat /\ e.late < e.next
      /\ Fit(e, P, T) /\ IdsOk(e, c) /\ SlotOk(e, c) /\ AccOk(e, P, O)
  BY DEF HInv, Fit
<1>1. PICK M : M = e.mgmt
  OBVIOUS
<1>2. \A k \in DOMAIN c.box : c.box[k].id < e.next /\ \A i \in DOMAIN M : ~M[i].sent => M[i].id # c.box[k].id
  BY <1>0, <1>1 DEF SlotOk, Gone
<1>3. \A x \in d.used : x < e.next BY <1>0, <1>1, <1>2 DEF IdsOk
<1>4. \A k \in DOMAIN M : ~M[k].sent => M[k].id \notin d.used
  <2> SUFFICES ASSUME NEW k \in DOMAIN M, ~M[k].sent, M[k].id \in d.used PROVE FALSE
    OBVIOUS
  <2>1. 0 < M[k].id /\ M[k].id \notin c.used BY <1>0, <1>1 DEF IdsOk
  <2> QED BY <1>2, <2>1
<1>5. IdsOk(e, d) BY <1>0, <1>1, <1>3, <1>4 DEF IdsOk
<1>6. SlotOk(e, d)
  <2>1. CASE d.box = <<>> BY <1>0, <2>1 DEF SlotOk
  <2>2. CASE d.box = c.box /\ d.age = c.age BY <1>0, <2>2 DEF SlotOk
  <2> QED BY <2>1, <2>2
<1> QED BY <1>0, <1>5, <1>6 DEF HInv

\* The end of a step of the engine.
Flushed(e) == [e EXCEPT !.out = <<>>]

\* The invariant once what was sent is in the inbox, or dropped by a full one.
LEMMA Flush ==
  ASSUME NEW e, NEW c, NEW d, NEW P, NEW T, CtxOk(c), HInv(e, c, P, {}, T),
         d.used = c.used, d.joins = c.joins, d.rem = c.rem,
         IF e.out = <<>> \/ c.box # <<>> THEN d.box = c.box /\ (c.box # <<>> => d.age = c.age)
         ELSE d.box = <<Head(e.out)>> /\ d.age = 0,
         \A k \in DOMAIN c.box : 0 < c.box[k].id /\ c.box[k].id \notin c.used
  PROVE  /\ HInv(Flushed(e), d, P, {}, {}) /\ Flushed(e).out = <<>>
         /\ d.box \in Seq(ReqRec)
         /\ \A k \in DOMAIN d.box : 0 < d.box[k].id /\ d.box[k].id \notin d.used
<1> DEFINE f == Flushed(e)
<1>0. /\ DOMAIN e = Fields /\ e.mgmt \in Seq(ReqRec) /\ e.out \in Seq(ReqRec)
      /\ Fit(e, P, T) /\ IdsOk(e, c) /\ SlotOk(e, c) /\ JoinsOk(e, c) /\ AccOk(e, P, {})
      /\ c.box \in Seq(ReqRec)
  BY DEF HInv, Fit, CtxOk
<1>1. /\ DOMAIN f = Fields /\ f.mgmt = e.mgmt /\ f.out = <<>> /\ f.next = e.next /\ f.late = e.late
      /\ f.answers = e.answers /\ f.recent = e.recent /\ f.told = e.told /\ f.held = e.held
  BY <1>0 DEF Fields, Flushed
<1> HIDE DEF f
<1>2. \A q : Gone(e, q) => Gone(f, q) BY <1>1 DEF Gone
<1>3. Fit(f, P, {}) BY <1>0, <1>1 DEF Fit
<1>4. IdsOk(f, d) BY <1>0, <1>1 DEF IdsOk
<1>5. JoinsOk(f, d) BY <1>0, <1>1 DEF JoinsOk
<1>6. AccOk(f, P, {}) BY <1>0, <1>1 DEF AccOk
<1>7. CASE e.out = <<>> \/ c.box # <<>>
  <2>1. d.box = c.box /\ (c.box # <<>> => d.age = c.age) BY <1>7
  <2>4. SlotOk(f, d) BY <1>0, <1>1, <1>2, <2>1 DEF SlotOk
  <2>5. HInv(f, d, P, {}, {}) BY <1>3, <1>4, <1>5, <1>6, <2>4 DEF HInv
  <2>6. \A k \in DOMAIN d.box : 0 < d.box[k].id /\ d.box[k].id \notin d.used BY <2>1
  <2> QED BY <1>0, <1>1, <2>1, <2>5, <2>6 DEF f
<1>8. CASE ~(e.out = <<>> \/ c.box # <<>>)
  <2>1. PICK q : q = Head(e.out)
    OBVIOUS
  <2>2. d.box = <<q>> /\ d.age = 0 /\ q = e.out[1] /\ 1 \in DOMAIN e.out /\ q \in ReqRec BY <1>0, <1>8, <2>1
  <2>3. d.box \in Seq(ReqRec) /\ Len(d.box) = 1 /\ DOMAIN d.box = {1} /\ d.box[1] = q BY <2>2
  <2>4. Gone(e, q) /\ (q.op = "PairingOpen" => Carried(e.mgmt, q, 0)) /\ q.id \notin c.used
    BY <1>0, <2>2 DEF SlotOk, IdsOk
  <2>5. 0 < q.id BY <2>4 DEF Gone
  <2>6. SlotOk(f, d) BY <1>1, <1>2, <2>2, <2>3, <2>4 DEF SlotOk
  <2>7. HInv(f, d, P, {}, {}) BY <1>3, <1>4, <1>5, <1>6, <2>6 DEF HInv
  <2>8. \A k \in DOMAIN d.box : 0 < d.box[k].id /\ d.box[k].id \notin d.used BY <2>3, <2>4, <2>5
  <2> QED BY <1>1, <2>3, <2>7, <2>8 DEF f
<1> QED BY <1>7, <1>8

\* The same, of the dongle's state.
LEMMA Commit ==
  ASSUME NEW e, NEW P, NEW b, NEW a, NEW x, NEW w, NEW wa, NEW d, DongleOk(b, a, x, w, wa, d),
         HInv(e, Ctx(b, a, x, w, wa, d), P, {}, {}), NEW b2, NEW a2,
         IF e.out = <<>> \/ b # <<>> THEN b2 = b /\ a2 = IF b = <<>> THEN 0 ELSE a
         ELSE b2 = <<Head(e.out)>> /\ a2 = 0
  PROVE  StOk(Flushed(e), b2, a2, x, w, wa, d, P)
<1>1. PICK c : c = Ctx(b, a, x, w, wa, d)
  OBVIOUS
<1>2. PICK g : g = Ctx(b2, a2, x, w, wa, d)
  OBVIOUS
<1>3. c.box = b /\ c.age = a /\ c.used = {x} \cup WireIds(w) BY <1>1, CtxIs
<1>4. g.box = b2 /\ g.age = a2 /\ g.used = {x} \cup WireIds(w) BY <1>2, CtxIs
<1>5. g.used = c.used /\ g.joins = c.joins /\ g.rem = c.rem BY <1>1, <1>2 DEF Ctx
<1>6. CtxOk(c) /\ HInv(e, c, P, {}, {}) BY <1>1, DongleCtx
<1>7. \A k \in DOMAIN c.box : 0 < c.box[k].id /\ c.box[k].id \notin c.used BY <1>3 DEF DongleOk
<1>8. IF e.out = <<>> \/ c.box # <<>> THEN g.box = c.box /\ (c.box # <<>> => g.age = c.age)
      ELSE g.box = <<Head(e.out)>> /\ g.age = 0
  BY <1>3, <1>4
<1>9. /\ HInv(Flushed(e), g, P, {}, {}) /\ Flushed(e).out = <<>>
      /\ g.box \in Seq(ReqRec)
      /\ \A k \in DOMAIN g.box : 0 < g.box[k].id /\ g.box[k].id \notin g.used
  BY <1>5, <1>6, <1>7, <1>8, Flush
<1>10. a2 \in Nat /\ (b2 # <<>> => a2 < BusyTicks) BY EngineAssumption DEF DongleOk
<1>11. \A k \in DOMAIN b2 : 0 < b2[k].id /\ b2[k].id # x /\ b2[k].id \notin WireIds(w) BY <1>4, <1>9
<1>12. DongleOk(b2, a2, x, w, wa, d) BY <1>4, <1>9, <1>10, <1>11 DEF DongleOk
<1> QED BY <1>2, <1>3, <1>9, <1>12 DEF StOk

-----------------------------------------------------------------------------
\* A step of the engine, once its handler is known to keep HInv in the world it acts in.
LEMMA EngineStep ==
  ASSUME NEW e, NEW ticks \in Nat, Engine(e, ticks), NEW P, NEW x, NEW w, NEW wa, NEW d,
         DongleOk(inbox, age + ticks, x, w, wa, d),
         HInv(e, Ctx(inbox, age + ticks, x, w, wa, d), P, {}, {})
  PROVE  StOk(eng', inbox', age', x, w, wa, d, P)
<1>1. PICK a, b2, a2 : a = age + ticks /\ b2 = inbox' /\ a2 = age'
  OBVIOUS
<1>2. IF e.out = <<>> \/ inbox # <<>> THEN b2 = inbox /\ a2 = IF inbox = <<>> THEN 0 ELSE a
      ELSE b2 = <<Head(e.out)>> /\ a2 = 0
  BY <1>1 DEF Engine
<1>3. StOk(Flushed(e), b2, a2, x, w, wa, d, P) BY <1>1, <1>2, Commit
<1>4. eng' = Flushed(e) BY DEF Engine, Flushed
<1> QED BY <1>1, <1>3, <1>4

\* The same, when no second passes.
LEMMA EngineStep0 ==
  ASSUME NEW e, Engine(e, 0), NEW P, NEW x, NEW w, NEW wa, NEW d,
         DongleOk(inbox, age, x, w, wa, d), HInv(e, Ctx(inbox, age, x, w, wa, d), P, {}, {})
  PROVE  StOk(eng', inbox', age', x, w, wa, d, P)
<1>1. age + 0 = age BY DEF DongleOk
<1>2. DongleOk(inbox, age + 0, x, w, wa, d) /\ HInv(e, Ctx(inbox, age + 0, x, w, wa, d), P, {}, {}) BY <1>1
<1> QED BY <1>2, EngineStep

\* What the inductive invariant says of the engine in its world.
LEMMA InvParts ==
  ASSUME EngInv
  PROVE  /\ DongleOk(inbox, age, window, wire, winAge, delay)
         /\ CtxOk(Ctx(inbox, age, window, wire, winAge, delay))
         /\ HInv(eng, Ctx(inbox, age, window, wire, winAge, delay), Posted, {}, {})
         /\ eng.out = <<>> /\ ~silent
BY DongleCtx DEF EngInv, StOk

\* A second passes (on_tick): the window and the frames under way come nearer to their end.
LEMMA EngTickInv ==
  ASSUME EngInv, EngTick
  PROVE  EngInv'
<1>1. /\ DongleOk(inbox, age, window, wire, winAge, delay)
      /\ CtxOk(Ctx(inbox, age, window, wire, winAge, delay))
      /\ HInv(eng, Ctx(inbox, age, window, wire, winAge, delay), Posted, {}, {})
      /\ eng.out = <<>> /\ ~silent
  BY InvParts
<1>2. PICK wa, d, a : wa = winAge' /\ d = delay' /\ a = age + 1
  OBVIOUS
<1>3. PICK c, g : c = Ctx(inbox, age, window, wire, winAge, delay) /\ g = Ctx(inbox, a, window, wire, wa, d)
  OBVIOUS
<1>4. /\ age \in Nat /\ winAge \in 0 .. WindowTicks + LateTicks /\ delay \in 0 .. MaxDelay
      /\ WireOk(wire) /\ window \notin WireIds(wire)
  BY <1>1 DEF DongleOk
<1>5. /\ inbox # <<>> => a < BusyTicks
      /\ a \in Nat /\ wa \in 0 .. WindowTicks + LateTicks /\ d \in 0 .. MaxDelay
  BY <1>2, <1>4, EngineAssumption DEF EngTick
<1>6. DongleOk(inbox, a, window, wire, wa, d) BY <1>1, <1>5 DEF DongleOk
<1>7. CtxOk(g) BY <1>3, <1>6, DongleCtx
<1>8. /\ c.box = inbox /\ c.age = age /\ c.used = {window} \cup WireIds(wire)
      /\ c.joins = ({window} \ {0}) \cup JoinIds(wire)
      /\ \A y \in c.joins :
           c.rem[y] = IF y = window THEN WindowTicks + LateTicks - winAge + MaxDelay ELSE MaxDelay - delay
  BY <1>3, CtxIs
<1>9. /\ g.box = inbox /\ g.age = a /\ g.used = {window} \cup WireIds(wire)
      /\ g.joins = ({window} \ {0}) \cup JoinIds(wire)
      /\ \A y \in g.joins :
           g.rem[y] = IF y = window THEN WindowTicks + LateTicks - wa + MaxDelay ELSE MaxDelay - d
  BY <1>3, CtxIs
<1>10. ASSUME NEW y \in c.joins PROVE g.rem[y] = c.rem[y] - 1
  <2>1. CASE y = window
    <3>1. window # 0 BY <1>4, <1>8, <2>1, WireIdsAre
    <3>2. wa = winAge + 1 BY <1>2, <3>1 DEF EngTick
    <3>3. PICK u, v : u = WindowTicks + LateTicks - winAge + MaxDelay /\ v = WindowTicks + LateTicks - wa + MaxDelay
      OBVIOUS
    <3>4. v = u - 1 BY <1>4, <3>2, <3>3, EngineAssumption
    <3>5. c.rem[y] = u /\ g.rem[y] = v BY <1>8, <1>9, <2>1, <3>3
    <3> QED BY <3>4, <3>5
  <2>2. CASE y # window
    <3>1. wire # <<>> BY <1>8, <2>2, EmptyWire
    <3>2. d = delay + 1 BY <1>2, <3>1 DEF EngTick
    <3>3. MaxDelay - d = MaxDelay - delay - 1 BY <1>4, <3>2, EngineAssumption
    <3> QED BY <1>8, <1>9, <2>2, <3>3
  <2> QED BY <2>1, <2>2
<1>11. HInv(on_tick(eng), g, Posted, {}, {})
  <2>1. CtxOk(c) /\ HInv(eng, c, Posted, {}, {}) /\ g.box = c.box /\ g.used = c.used /\ g.joins = c.joins
    BY <1>1, <1>3, <1>8, <1>9
  <2>2. c.box # <<>> => g.age = c.age + 1 BY <1>2, <1>8, <1>9
  <2> QED BY <1>1, <1>7, <1>10, <2>1, <2>2, OnTick
<1>12. StOk(eng', inbox', age', window, wire, wa, d, Posted)
  <2>1. Engine(on_tick(eng), 1) /\ DongleOk(inbox, age + 1, window, wire, wa, d)
        /\ HInv(on_tick(eng), Ctx(inbox, age + 1, window, wire, wa, d), Posted, {}, {})
    BY <1>2, <1>3, <1>6, <1>11 DEF EngTick
  <2> QED BY <1>1, <2>1, EngineStep
<1>13. window' = window /\ wire' = wire /\ posted' = posted /\ upCtr' = upCtr /\ silent' = silent
  BY DEF EngTick
<1>14. Posted' = Posted BY <1>13 DEF Posted
<1> QED BY <1>1, <1>2, <1>12, <1>13, <1>14 DEF EngInv

\* A client posts a request (on_mqtt): it is not remembered, so it is answered or queued.
LEMMA PostInv ==
  ASSUME EngInv, NEW id \in Rpcs, NEW r \in Requests, NEW keep, Post(id, r, keep)
  PROVE  EngInv'
<1>1. /\ DongleOk(inbox, age, window, wire, winAge, delay)
      /\ CtxOk(Ctx(inbox, age, window, wire, winAge, delay))
      /\ HInv(eng, Ctx(inbox, age, window, wire, winAge, delay), Posted, {}, {})
      /\ eng.out = <<>> /\ ~silent
  BY InvParts
<1>2. PICK c : c = Ctx(inbox, age, window, wire, winAge, delay)
  OBVIOUS
<1>3. id \in Rpcs \ Posted BY DEF Post, Posted
<1>4. accept_request_id(eng, id) /\ HInv(remember(eng, id), c, Posted \cup {id}, {id}, {})
  BY <1>1, <1>2, <1>3, Remember
<1>5. PICK e : e = on_rpc(remember(eng, id), r, id)
  OBVIOUS
<1>6. HInv(e, c, Posted \cup {id}, {}, {}) BY <1>1, <1>2, <1>4, <1>5, OnRpc
<1>7. Engine(e, 0) BY <1>4, <1>5 DEF Post
<1>8. StOk(eng', inbox', age', window, wire, winAge, delay, Posted \cup {id})
  BY <1>1, <1>2, <1>6, <1>7, EngineStep0
<1>9. /\ window' = window /\ wire' = wire /\ upCtr' = upCtr /\ silent' = silent
      /\ winAge' = winAge /\ delay' = delay /\ posted' = [posted EXCEPT ![id] = <<r>>]
  BY DEF Post
<1>10. DOMAIN posted = Rpcs BY DEF EngInv
<1>11. DOMAIN posted' = Rpcs /\ Posted' = Posted \cup {id} BY <1>9, <1>10 DEF Posted
<1>12. upCtr' \in [Addrs -> Nat] BY <1>9 DEF EngInv
<1> QED BY <1>1, <1>8, <1>9, <1>11, <1>12 DEF EngInv

\* A step of the engine that does nothing.
LEMMA IdleInv ==
  ASSUME EngInv, Engine(eng, 0),
         UNCHANGED <<window, wire, posted, upCtr, silent, delay, winAge>>
  PROVE  EngInv'
<1>1. /\ DongleOk(inbox, age, window, wire, winAge, delay)
      /\ HInv(eng, Ctx(inbox, age, window, wire, winAge, delay), Posted, {}, {})
      /\ eng.out = <<>> /\ ~silent
  BY InvParts
<1>2. StOk(eng', inbox', age', window, wire, winAge, delay, Posted) BY <1>1, EngineStep0
<1>3. Posted' = Posted BY DEF Posted
<1> QED BY <1>1, <1>2, <1>3 DEF EngInv

\* A request delivered again is remembered, and ignored (accept_request_id).
LEMMA RedeliverInv ==
  ASSUME EngInv, NEW id \in Rpcs, Redeliver(id)
  PROVE  EngInv'
<1>1. ~accept_request_id(eng, id) BY DEF Redeliver, accept_request_id
<1>2. Engine(eng, 0) /\ UNCHANGED <<window, wire, posted, upCtr, silent, delay, winAge>>
  BY <1>1 DEF Redeliver
<1> QED BY <1>2, IdleInv

\* A stored request is refused and cleared.
LEMMA ReplayInv ==
  ASSUME EngInv, NEW id \in Rpcs, Replay(id)
  PROVE  EngInv'
<1>1. Engine(eng, 0) /\ UNCHANGED <<window, wire, posted, upCtr, silent, delay, winAge>> BY DEF Replay
<1> QED BY <1>1, IdleInv

\* The link's state changes.
LEMMA TouchUp ==
  ASSUME NEW e, NEW c, NEW P, NEW O, NEW T, HInv(e, c, P, O, T), NEW x, e.out = <<>>
  PROVE  HInv([e EXCEPT !.up = x], c, P, O, T) /\ [e EXCEPT !.up = x].out = <<>>
<1>1. DOMAIN e = Fields /\ e.held \in Seq(UpRec) /\ T \subseteq e.told BY DEF HInv, Fit
<1>2. PICK f : f = [e EXCEPT !.up = x]
  OBVIOUS
<1>3. /\ DOMAIN f = Fields /\ f.mgmt = e.mgmt /\ f.out = e.out /\ f.next = e.next /\ f.late = e.late
      /\ f.answers = e.answers /\ f.recent = e.recent /\ f.told = e.told /\ f.held = e.held
  BY <1>1, <1>2 DEF Fields
<1>4. f.held \in Seq(UpRec) /\ T \subseteq f.told BY <1>1, <1>3
<1>5. HInv(f, c, P, O, T) BY <1>3, <1>4, Touch
<1> QED BY <1>2, <1>3, <1>5

\* The link comes up (on_serial_up): describe, query and list.
LEMMA SerialUpInv ==
  ASSUME EngInv, SerialUp
  PROVE  EngInv'
<1>1. /\ DongleOk(inbox, age, window, wire, winAge, delay)
      /\ CtxOk(Ctx(inbox, age, window, wire, winAge, delay))
      /\ HInv(eng, Ctx(inbox, age, window, wire, winAge, delay), Posted, {}, {})
      /\ eng.out = <<>> /\ ~silent
  BY InvParts
<1>2. PICK c : c = Ctx(inbox, age, window, wire, winAge, delay)
  OBVIOUS
<1>3. PICK e : e = [eng EXCEPT !.up = TRUE]
  OBVIOUS
<1>4. HInv(e, c, Posted, {}, {}) BY <1>1, <1>2, <1>3, TouchUp
<1>5. "Describe" \in Ops \ {"PairingOpen"} /\ "Query" \in Ops \ {"PairingOpen"}
      /\ 0 \in Addrs \cup {0} /\ 0 \in {} \cup {0} /\ NoName \in OpNames \cup AutoNames \cup {NoName}
      /\ {} \ {0} = {}
  BY DEF Ops
<1>6. PICK e1 : e1 = issue(e, Req("Describe", 0, NoName, 0))
  OBVIOUS
<1>7. HInv(e1, c, Posted, {}, {}) BY <1>1, <1>2, <1>4, <1>5, <1>6, IssueReq
<1>8. PICK e2 : e2 = issue(e1, Req("Query", 0, NoName, 0))
  OBVIOUS
<1>9. HInv(e2, c, Posted, {}, {})
  <2>1. CtxOk(c) BY <1>1, <1>2
  <2>2. HInv(issue(e1, Req("Query", 0, NoName, 0)), c, Posted, {} \ {0}, {}) BY <1>5, <1>7, <2>1, IssueReq
  <2> QED BY <1>5, <1>8, <2>2
<1>10. PICK e3 : e3 = issue(e2, NodeListReq)
  OBVIOUS
<1>11. HInv(e3, c, Posted, {}, {}) BY <1>1, <1>2, <1>9, <1>10, IssueList
<1>12. Engine(e3, 0) BY <1>3, <1>6, <1>8, <1>10 DEF SerialUp
<1>13. StOk(eng', inbox', age', window, wire, winAge, delay, Posted)
  BY <1>1, <1>2, <1>11, <1>12, EngineStep0
<1>14. UNCHANGED <<window, wire, posted, upCtr, silent, delay, winAge>> BY DEF SerialUp
<1>15. Posted' = Posted BY <1>14 DEF Posted
<1> QED BY <1>1, <1>13, <1>14, <1>15 DEF EngInv

\* The world around the engine changes: the inbox is emptied or stays, the window ends or
\* stays, answers arrive or are lost, those of a request taken or of the window are written.
LEMMA WorldStep ==
  ASSUME NEW e, NEW b, NEW a, NEW x, NEW w, NEW wa, NEW d, NEW P, StOk(e, b, a, x, w, wa, d, P),
         NEW b2, NEW a2, NEW x2, NEW w2, NEW wa2, NEW d2, DongleOk(b2, a2, x2, w2, wa2, d2),
         b2 = <<>> \/ (b2 = b /\ a2 = a), x2 \in {0, x}, x2 # 0 => wa2 = wa,
         \A y \in WireIds(w2) : y \in WireIds(w) \/ y = x \/ \E k \in DOMAIN b : y = b[k].id,
         JoinIds(w2) \subseteq JoinIds(w) \cup {x}, JoinIds(w2) # {} => d2 = d
  PROVE  StOk(e, b2, a2, x2, w2, wa2, d2, P)
<1>1. PICK c, g : c = Ctx(b, a, x, w, wa, d) /\ g = Ctx(b2, a2, x2, w2, wa2, d2)
  OBVIOUS
<1>2. /\ DongleOk(b, a, x, w, wa, d) /\ e.out = <<>> /\ HInv(e, c, P, {}, {})
      /\ CtxOk(c) /\ CtxOk(g)
  BY <1>1, DongleCtx DEF StOk
<1>3. /\ c.box = b /\ c.age = a /\ c.used = {x} \cup WireIds(w)
      /\ c.joins = ({x} \ {0}) \cup JoinIds(w)
      /\ \A y \in c.joins :
           c.rem[y] = IF y = x THEN WindowTicks + LateTicks - wa + MaxDelay ELSE MaxDelay - d
  BY <1>1, CtxIs
<1>4. /\ g.box = b2 /\ g.age = a2 /\ g.used = {x2} \cup WireIds(w2)
      /\ g.joins = ({x2} \ {0}) \cup JoinIds(w2)
      /\ \A y \in g.joins :
           g.rem[y] = IF y = x2 THEN WindowTicks + LateTicks - wa2 + MaxDelay ELSE MaxDelay - d2
  BY <1>1, CtxIs
<1>5. /\ wa \in 0 .. WindowTicks + LateTicks /\ d \in 0 .. MaxDelay /\ d2 \in 0 .. MaxDelay
      /\ x \notin WireIds(w) /\ JoinIds(w) \subseteq WireIds(w) /\ x2 \notin WireIds(w2)
      /\ JoinIds(w2) \subseteq WireIds(w2) /\ WireIds(w2) \subseteq Nat \ {0}
  BY <1>2, WireIdsAre DEF DongleOk
<1>6. g.joins \subseteq c.joins BY <1>3, <1>4, <1>5
<1>7. ASSUME NEW y \in g.joins PROVE g.rem[y] <= c.rem[y]
  <2>1. y \in c.joins BY <1>6
  <2>2. CASE y = x2
    <3>1. x2 # 0 BY <1>4, <1>5, <2>2
    <3>2. x2 = x /\ wa2 = wa BY <3>1
    <3>3. PICK u : u = WindowTicks + LateTicks - wa + MaxDelay
      OBVIOUS
    <3>4. g.rem[y] = u /\ c.rem[y] = u BY <1>3, <1>4, <2>1, <2>2, <3>2, <3>3
    <3>5. u \in Int BY <1>5, <3>3, EngineAssumption
    <3> QED BY <3>4, <3>5
  <2>3. CASE y # x2
    <3>1. y \in JoinIds(w2) /\ d2 = d BY <1>4, <2>3
    <3>2. PICK u, v : u = MaxDelay - d /\ v = WindowTicks + LateTicks - wa + MaxDelay
      OBVIOUS
    <3>3. u \in Int /\ v \in Int /\ u <= v BY <1>5, <3>2, EngineAssumption
    <3>4. g.rem[y] = u /\ c.rem[y] \in {u, v} BY <1>3, <1>4, <2>1, <2>3, <3>1, <3>2
    <3> QED BY <3>3, <3>4
  <2> QED BY <2>2, <2>3
<1>8. JoinsOk(e, g)
  <2>1. e.mgmt \in Seq(ReqRec) /\ JoinsOk(e, c) BY <1>2 DEF HInv, Fit
  <2> QED BY <1>2, <1>6, <1>7, <2>1, JoinsStep
<1>9. \A y \in g.used : y \in c.used \/ y = 0 \/ \E k \in DOMAIN c.box : y = c.box[k].id BY <1>3, <1>4
<1>10. g.box = <<>> \/ (g.box = c.box /\ g.age = c.age) BY <1>3, <1>4
<1>11. HInv(e, g, P, {}, {}) BY <1>2, <1>8, <1>9, <1>10, CtxStep
<1> QED BY <1>1, <1>2, <1>11 DEF StOk

\* A frame of the dongle arrives (on_serial).
LEMMA ReceiveInv ==
  ASSUME EngInv, Receive
  PROVE  EngInv'
<1>1. /\ DongleOk(inbox, age, window, wire, winAge, delay)
      /\ HInv(eng, Ctx(inbox, age, window, wire, winAge, delay), Posted, {}, {})
      /\ eng.out = <<>> /\ ~silent
      /\ StOk(eng, inbox, age, window, wire, winAge, delay, Posted)
  BY InvParts DEF EngInv
<1>2. PICK m, w, d, e : m = Head(wire) /\ w = Tail(wire) /\ d = delay' /\ e = on_serial(eng, m)
  OBVIOUS
<1>3. WireOk(wire) /\ wire # <<>> BY <1>1 DEF Receive, DongleOk
<1>4. /\ WireOk(w) /\ MsgOk(m) /\ WireIds(w) \subseteq WireIds(wire) /\ JoinIds(w) \subseteq JoinIds(wire)
      /\ m.type = "answer" => m.id \in WireIds(wire) /\ m.id \notin WireIds(w)
      /\ m.type = "answer" /\ m.ok /\ m.node # 0 => m.id \in JoinIds(wire)
  BY <1>2, <1>3, WireTail
<1>5. d \in 0 .. MaxDelay /\ (JoinIds(w) # {} => d = delay)
  <2>1. d = IF w = <<>> THEN 0 ELSE delay BY <1>2 DEF Receive
  <2>2. delay \in 0 .. MaxDelay /\ 0 \in 0 .. MaxDelay BY <1>1, EngineAssumption DEF DongleOk
  <2>3. JoinIds(w) # {} => w # <<>> BY EmptyWire
  <2> QED BY <2>1, <2>2, <2>3
<1>6. DongleOk(inbox, age, window, w, winAge, d) BY <1>1, <1>4, <1>5 DEF DongleOk
<1>7. StOk(eng, inbox, age, window, w, winAge, d, Posted)
  <2>1. \A y \in WireIds(w) : y \in WireIds(wire) \/ y = window \/ \E k \in DOMAIN inbox : y = inbox[k].id
    BY <1>4
  <2>2. JoinIds(w) \subseteq JoinIds(wire) \cup {window} /\ window \in {0, window} BY <1>4
  <2> QED BY <1>1, <1>5, <1>6, <2>1, <2>2, WorldStep
<1>8. PICK c, g : c = Ctx(inbox, age, window, wire, winAge, delay) /\ g = Ctx(inbox, age, window, w, winAge, d)
  OBVIOUS
<1>9. CtxOk(g) /\ HInv(eng, g, Posted, {}, {}) BY <1>6, <1>7, <1>8, DongleCtx DEF StOk
<1>10. g.box = inbox /\ g.joins = ({window} \ {0}) \cup JoinIds(w) BY <1>8, CtxIs
<1>11. c.joins = ({window} \ {0}) \cup JoinIds(wire) BY <1>8, CtxIs
<1>12. /\ HInv(e, g, Posted, {}, {})
       /\ m.type = "answer" /\ m.ok /\ m.node # 0 => m.node \in e.told
  <2>1. CASE m.type = "answer"
    <3>1. e = on_mgmt_chunk(eng, m) BY <1>2, <2>1 DEF on_serial
    <3>2. m.id \notin g.joins
      <4>1. JoinIds(w) \subseteq WireIds(w) BY <1>4, WireIdsAre
      <4> QED BY <1>1, <1>4, <1>10, <2>1, <4>1 DEF DongleOk
    <3>3. \A k \in DOMAIN g.box : g.box[k].id # m.id BY <1>1, <1>4, <1>10, <2>1 DEF DongleOk
    <3>4. m.ok /\ m.node # 0 =>
            m.id = eng.late \/ \E i \in DOMAIN eng.mgmt : eng.mgmt[i].id = m.id /\ eng.mgmt[i].op = "PairingOpen"
      <4>1. JoinsOk(eng, c) BY <1>1, <1>8 DEF HInv
      <4> QED BY <1>4, <1>11, <2>1, <4>1 DEF JoinsOk
    <3> QED BY <1>1, <1>9, <2>1, <3>1, <3>2, <3>3, <3>4, OnMgmtChunk
  <2>2. CASE m.type = "uplink"
    <3>1. e = on_uplink(eng, m) BY <1>2, <2>2 DEF on_serial
    <3>2. m \in UpRec BY <1>4, <2>2 DEF MsgOk
    <3> QED BY <1>9, <2>2, <3>1, <3>2, OnUplink
  <2>3. CASE m.type = "hello"
    <3>1. e = on_hello(eng) BY <1>2, <2>3 DEF on_serial
    <3> QED BY <1>9, <2>3, <3>1, OnHello
  <2> QED BY <1>4, <2>1, <2>2, <2>3 DEF MsgOk
<1>13. Engine(e, 0) BY <1>2 DEF Receive
<1>14. StOk(eng', inbox', age', window, w, winAge, d, Posted) BY <1>1, <1>6, <1>8, <1>12, <1>13, EngineStep0
<1>15. ~silent' BY <1>1, <1>2, <1>12 DEF Receive
<1>16. wire' = w /\ delay' = d /\ UNCHANGED <<window, posted, upCtr, winAge>> BY <1>2 DEF Receive
<1>17. Posted' = Posted BY <1>16 DEF Posted
<1> QED BY <1>14, <1>15, <1>16, <1>17 DEF EngInv

\* The link drops: what is under way is lost, what waits is answered.
LEMMA SerialDownInv ==
  ASSUME EngInv, SerialDown
  PROVE  EngInv'
<1>1. /\ DongleOk(inbox, age, window, wire, winAge, delay)
      /\ eng.out = <<>> /\ ~silent
      /\ StOk(eng, inbox, age, window, wire, winAge, delay, Posted)
  BY InvParts DEF EngInv
<1>2. WireOk(<<>>) /\ WireIds(<<>>) = {} /\ JoinIds(<<>>) = {} BY EmptyWire
<1>3. DongleOk(inbox, age, window, <<>>, winAge, 0) BY <1>1, <1>2, EngineAssumption DEF DongleOk
<1>4. StOk(eng, inbox, age, window, <<>>, winAge, 0, Posted)
  <2>1. \A y \in WireIds(<<>>) : y \in WireIds(wire) \/ y = window \/ \E k \in DOMAIN inbox : y = inbox[k].id
    BY <1>2
  <2>2. JoinIds(<<>>) \subseteq JoinIds(wire) \cup {window} /\ window \in {0, window} BY <1>2
  <2>3. JoinIds(<<>>) # {} => 0 = delay BY <1>2
  <2> QED BY <1>1, <1>3, <2>1, <2>2, <2>3, WorldStep
<1>5. PICK g : g = Ctx(inbox, age, window, <<>>, winAge, 0)
  OBVIOUS
<1>6. CtxOk(g) /\ HInv(eng, g, Posted, {}, {}) BY <1>3, <1>4, <1>5, DongleCtx DEF StOk
<1>7. PICK f : f = [eng EXCEPT !.up = FALSE]
  OBVIOUS
<1>8. HInv(f, g, Posted, {}, {}) /\ f.out = <<>> BY <1>1, <1>6, <1>7, TouchUp
<1>9. PICK e : e = fail_unsent_mgmt(f)
  OBVIOUS
<1>10. HInv(e, g, Posted, {}, {}) BY <1>6, <1>8, <1>9, FailUnsent
<1>11. Engine(e, 0) BY <1>7, <1>9 DEF SerialDown
<1>12. StOk(eng', inbox', age', window, <<>>, winAge, 0, Posted)
  BY <1>1, <1>3, <1>5, <1>10, <1>11, EngineStep0
<1>13. wire' = <<>> /\ delay' = 0 /\ UNCHANGED <<window, posted, upCtr, silent, winAge>> BY DEF SerialDown
<1>14. Posted' = Posted BY <1>13 DEF Posted
<1> QED BY <1>1, <1>12, <1>13, <1>14 DEF EngInv

\* What the dongle writes is on the wire, or lost.
LEMMA WriteIs ==
  ASSUME NEW q, NEW ok, NEW node, NEW list, NEW whole, Write(Answer(q, ok, node, list, whole)),
         WireOk(wire), q.id \in Nat \ {0}, q.id \notin WireIds(wire)
  PROVE  /\ WireOk(wire') /\ WireIds(wire') \subseteq WireIds(wire) \cup {q.id}
         /\ JoinIds(wire') \subseteq IF ok /\ node # 0 THEN JoinIds(wire) \cup {q.id} ELSE JoinIds(wire)
<1>1. PICK m, n, v : /\ m = Answer(q, ok, node, list, whole) /\ n = [m EXCEPT !.whole = FALSE] /\ v = wire'
  OBVIOUS
<1>2. m.type = "answer" /\ m.id = q.id /\ m.ok = ok /\ m.node = node BY <1>1 DEF Answer
<1>3. n.type = "answer" /\ n.id = q.id /\ n.ok = ok /\ n.node = node BY <1>1 DEF Answer
<1>4. v = wire \/ v = Append(wire, m) \/ v = Append(wire, n)
  <2>1. Write(m) BY <1>1
  <2> QED BY <1>1, <2>1 DEF Write
<1>5. ASSUME NEW p, p.type = "answer", p.id = q.id, p.ok = ok, p.node = node, v = Append(wire, p)
      PROVE  /\ WireOk(v) /\ WireIds(v) \subseteq WireIds(wire) \cup {q.id}
             /\ JoinIds(v) \subseteq IF ok /\ node # 0 THEN JoinIds(wire) \cup {q.id} ELSE JoinIds(wire)
  <2>1. MsgOk(p) BY <1>5 DEF MsgOk
  <2>2. /\ WireOk(v)
        /\ WireIds(v) = IF p.type = "answer" THEN WireIds(wire) \cup {p.id} ELSE WireIds(wire)
        /\ JoinIds(v) = IF p.type = "answer" /\ p.ok /\ p.node # 0
                        THEN JoinIds(wire) \cup {p.id} ELSE JoinIds(wire)
    BY <1>5, <2>1, WireAppend
  <2> QED BY <1>5, <2>2
<1>6. CASE v = wire BY <1>1, <1>6
<1>7. CASE v = Append(wire, m) BY <1>1, <1>2, <1>5, <1>7
<1>8. CASE v = Append(wire, n) BY <1>1, <1>3, <1>5, <1>8
<1> QED BY <1>4, <1>6, <1>7, <1>8

\* The dongle acts: the engine stays.
LEMMA DongleStep ==
  ASSUME EngInv, eng' = eng, posted' = posted, upCtr' \in [Addrs -> Nat], silent' = silent,
         StOk(eng, inbox', age', window', wire', winAge', delay', Posted)
  PROVE  EngInv'
<1>1. Posted' = Posted BY DEF Posted
<1> QED BY <1>1 DEF EngInv

\* A node's uplink is forwarded.
LEMMA UplinkInv ==
  ASSUME EngInv, NEW n \in Addrs, NEW p \in {"awake", "asleep"}, Uplink(n, p)
  PROVE  EngInv'
<1>1. /\ DongleOk(inbox, age, window, wire, winAge, delay) /\ ~silent
      /\ StOk(eng, inbox, age, window, wire, winAge, delay, Posted)
  BY InvParts DEF EngInv
<1>2. PICK u, m, w : u = upCtr[n] + 1 /\ m = [type |-> "uplink", node |-> n, ctr |-> u, power |-> p] /\ w = wire'
  OBVIOUS
<1>3. upCtr \in [Addrs -> Nat] BY DEF EngInv
<1>4. u \in Nat BY <1>2, <1>3
<1>5. m \in UpRec /\ m.type = "uplink" /\ MsgOk(m) BY <1>2, <1>4 DEF UpRec, MsgOk
<1>6. upCtr' \in [Addrs -> Nat]
  <2>1. upCtr' = [upCtr EXCEPT ![n] = u] BY <1>2 DEF Uplink
  <2> QED BY <1>3, <1>4, <2>1
<1>7. WireOk(w) /\ WireIds(w) = WireIds(wire) /\ JoinIds(w) = JoinIds(wire)
  <2>1. w = wire \/ w = Append(wire, m) BY <1>2 DEF Uplink
  <2>2. WireOk(wire) BY <1>1 DEF DongleOk
  <2>3. CASE w = Append(wire, m) BY <1>5, <2>2, <2>3, WireAppend
  <2> QED BY <2>1, <2>2, <2>3
<1>8. DongleOk(inbox, age, window, w, winAge, delay) BY <1>1, <1>7 DEF DongleOk
<1>9. StOk(eng, inbox, age, window, w, winAge, delay, Posted)
  <2>1. \A y \in WireIds(w) : y \in WireIds(wire) \/ y = window \/ \E k \in DOMAIN inbox : y = inbox[k].id
    BY <1>7
  <2>2. JoinIds(w) \subseteq JoinIds(wire) \cup {window} /\ window \in {0, window} BY <1>7
  <2> QED BY <1>1, <1>8, <2>1, <2>2, WorldStep
<1>10. UNCHANGED <<eng, inbox, age, window, posted, silent, delay, winAge>> BY DEF Uplink
<1> QED BY <1>2, <1>6, <1>9, <1>10, DongleStep

\* The dongle reboots: the window and the inbox are gone, and no join is left to tell.
LEMMA DongleRebootInv ==
  ASSUME EngInv, DongleReboot
  PROVE  EngInv'
<1>1. /\ DongleOk(inbox, age, window, wire, winAge, delay) /\ ~silent
      /\ StOk(eng, inbox, age, window, wire, winAge, delay, Posted)
  BY InvParts DEF EngInv
<1>2. PICK m, w : m = [type |-> "hello"] /\ w = wire'
  OBVIOUS
<1>3. m.type = "hello" /\ MsgOk(m) BY <1>2 DEF MsgOk
<1>4. WireOk(w) /\ WireIds(w) = WireIds(wire) /\ JoinIds(w) = JoinIds(wire)
  <2>1. w = wire \/ w = Append(wire, m) BY <1>2 DEF DongleReboot
  <2>2. WireOk(wire) BY <1>1 DEF DongleOk
  <2>3. CASE w = Append(wire, m) BY <1>3, <2>2, <2>3, WireAppend
  <2> QED BY <2>1, <2>2, <2>3
<1>5. 0 \notin WireIds(w) BY <1>4, WireIdsAre
<1>6. DongleOk(<<>>, 0, 0, w, winAge, delay) BY <1>1, <1>4, <1>5 DEF DongleOk
<1>7. StOk(eng, <<>>, 0, 0, w, winAge, delay, Posted)
  <2>1. \A y \in WireIds(w) : y \in WireIds(wire) \/ y = window \/ \E k \in DOMAIN inbox : y = inbox[k].id
    BY <1>4
  <2>2. JoinIds(w) \subseteq JoinIds(wire) \cup {window} /\ 0 \in {0, window} BY <1>4
  <2> QED BY <1>1, <1>6, <2>1, <2>2, WorldStep
<1>8. inbox' = <<>> /\ age' = 0 /\ window' = 0 /\ UNCHANGED <<eng, posted, upCtr, silent, delay, winAge>>
  BY DEF DongleReboot
<1>9. upCtr' \in [Addrs -> Nat] BY <1>8 DEF EngInv
<1> QED BY <1>2, <1>7, <1>8, <1>9, DongleStep

\* The window ends: its answer is on the wire, or lost.
LEMMA WindowEndsInv ==
  ASSUME EngInv, WindowEnds
  PROVE  EngInv'
<1>1. /\ DongleOk(inbox, age, window, wire, winAge, delay) /\ ~silent
      /\ StOk(eng, inbox, age, window, wire, winAge, delay, Posted)
  BY InvParts DEF EngInv
<1>2. PICK w, q : w = wire' /\ q = [id |-> window]
  OBVIOUS
<1>3. q.id = window /\ window # 0 BY <1>2 DEF WindowEnds
<1>4. WireOk(wire) /\ window \in Nat \ {0} /\ window \notin WireIds(wire) BY <1>1, <1>3 DEF DongleOk
<1>5. \E ok, node : Write(Answer(q, ok, node, <<>>, TRUE)) BY <1>2 DEF WindowEnds
<1>6. /\ WireOk(w) /\ WireIds(w) \subseteq WireIds(wire) \cup {window}
      /\ JoinIds(w) \subseteq JoinIds(wire) \cup {window}
  <2>1. PICK ok, node : Write(Answer(q, ok, node, <<>>, TRUE)) BY <1>5
  <2>2. /\ WireOk(wire') /\ WireIds(wire') \subseteq WireIds(wire) \cup {q.id}
        /\ JoinIds(wire') \subseteq IF ok /\ node # 0 THEN JoinIds(wire) \cup {q.id} ELSE JoinIds(wire)
    BY <1>3, <1>4, <2>1, WriteIs
  <2> QED BY <1>2, <1>3, <2>2
<1>7. DongleOk(inbox, age, 0, w, winAge, delay)
  <2>1. 0 \notin WireIds(w) BY <1>6, WireIdsAre
  <2>2. \A i \in DOMAIN inbox : 0 < inbox[i].id /\ inbox[i].id # window /\ inbox[i].id \notin WireIds(wire)
    BY <1>1 DEF DongleOk
  <2>3. \A i \in DOMAIN inbox : 0 < inbox[i].id /\ inbox[i].id # 0 /\ inbox[i].id \notin WireIds(w)
    BY <1>6, <2>2
  <2> QED BY <1>1, <1>6, <2>1, <2>3 DEF DongleOk
<1>8. StOk(eng, inbox, age, 0, w, winAge, delay, Posted)
  <2>1. \A y \in WireIds(w) : y \in WireIds(wire) \/ y = window \/ \E k \in DOMAIN inbox : y = inbox[k].id
    BY <1>6
  <2> QED BY <1>1, <1>6, <1>7, <2>1, WorldStep
<1>9. window' = 0 /\ UNCHANGED <<eng, inbox, age, posted, upCtr, silent, delay, winAge>> BY DEF WindowEnds
<1>10. upCtr' \in [Addrs -> Nat] BY <1>9 DEF EngInv
<1> QED BY <1>2, <1>8, <1>9, <1>10, DongleStep

\* The request taken is answered at once.
LEMMA TakeWrites ==
  ASSUME EngInv, NEW q, inbox # <<>>, q = Head(inbox), NEW ok, NEW list, NEW whole,
         Write(Answer(q, ok, 0, list, whole)), NEW wa, wa = IF window = 0 THEN 0 ELSE winAge
  PROVE  StOk(eng, <<>>, 0, window, wire', wa, delay, Posted)
<1>1. /\ DongleOk(inbox, age, window, wire, winAge, delay)
      /\ StOk(eng, inbox, age, window, wire, winAge, delay, Posted)
  BY InvParts DEF EngInv
<1>2. PICK w : w = wire'
  OBVIOUS
<1>3. inbox \in Seq(ReqRec) BY <1>1 DEF DongleOk
<1>4. 1 \in DOMAIN inbox /\ q = inbox[1] /\ q \in ReqRec BY <1>3
<1>5. WireOk(wire) /\ q.id \in Nat \ {0} /\ q.id # window /\ q.id \notin WireIds(wire)
  BY <1>1, <1>4 DEF DongleOk, ReqRec
<1>6. WireOk(w) /\ WireIds(w) \subseteq WireIds(wire) \cup {q.id} /\ JoinIds(w) \subseteq JoinIds(wire)
  BY <1>2, <1>5, WriteIs
<1>7. DongleOk(<<>>, 0, window, w, wa, delay)
  <2>1. wa \in 0 .. WindowTicks + LateTicks BY <1>1, EngineAssumption DEF DongleOk
  <2>2. window \notin WireIds(w) BY <1>1, <1>5, <1>6 DEF DongleOk
  <2> QED BY <1>1, <1>6, <2>1, <2>2 DEF DongleOk
<1>8. StOk(eng, <<>>, 0, window, w, wa, delay, Posted)
  <2>1. \A y \in WireIds(w) : y \in WireIds(wire) \/ y = window \/ \E k \in DOMAIN inbox : y = inbox[k].id
    BY <1>4, <1>6
  <2>2. JoinIds(w) \subseteq JoinIds(wire) \cup {window} /\ window \in {0, window} BY <1>6
  <2>3. window # 0 => wa = winAge
    OBVIOUS
  <2> QED BY <1>1, <1>7, <2>1, <2>2, <2>3, WorldStep
<1> QED BY <1>2, <1>8

\* A PairingOpen opens the window.
LEMMA TakeOpens ==
  ASSUME EngInv, NEW q, inbox # <<>>, q = Head(inbox), q.op = "PairingOpen", window = 0
  PROVE  StOk(eng, <<>>, 0, q.id, wire, 0, delay, Posted)
<1>1. /\ DongleOk(inbox, age, window, wire, winAge, delay)
      /\ StOk(eng, inbox, age, window, wire, winAge, delay, Posted)
  BY InvParts DEF EngInv
<1>2. PICK c, g : c = Ctx(inbox, age, window, wire, winAge, delay) /\ g = Ctx(<<>>, 0, q.id, wire, 0, delay)
  OBVIOUS
<1>3. inbox \in Seq(ReqRec) BY <1>1 DEF DongleOk
<1>4. 1 \in DOMAIN inbox /\ q = inbox[1] /\ q \in ReqRec BY <1>3
<1>5. WireOk(wire) /\ q.id \in Nat \ {0} /\ q.id \notin WireIds(wire) BY <1>1, <1>4 DEF DongleOk, ReqRec
<1>6. DongleOk(<<>>, 0, q.id, wire, 0, delay) BY <1>1, <1>5, EngineAssumption DEF DongleOk
<1>7. CtxOk(c) /\ CtxOk(g) /\ HInv(eng, c, Posted, {}, {}) /\ eng.out = <<>>
  BY <1>1, <1>2, <1>6, DongleCtx DEF StOk
<1>8. /\ c.box = inbox /\ c.used = {window} \cup WireIds(wire)
      /\ c.joins = ({window} \ {0}) \cup JoinIds(wire)
      /\ \A y \in c.joins :
           c.rem[y] = IF y = window THEN WindowTicks + LateTicks - winAge + MaxDelay ELSE MaxDelay - delay
  BY <1>2, CtxIs
<1>9. /\ g.box = <<>> /\ g.used = {q.id} \cup WireIds(wire)
      /\ g.joins = ({q.id} \ {0}) \cup JoinIds(wire)
      /\ \A y \in g.joins :
           g.rem[y] = IF y = q.id THEN WindowTicks + LateTicks - 0 + MaxDelay ELSE MaxDelay - delay
  BY <1>2, CtxIs
<1>10. JoinIds(wire) \subseteq WireIds(wire) /\ WireIds(wire) \subseteq Nat \ {0} BY <1>5, WireIdsAre
<1>11. c.joins = JoinIds(wire) /\ g.joins = c.joins \cup {q.id} /\ q.id \notin c.joins
  BY <1>5, <1>8, <1>9, <1>10
<1>12. \A y \in c.joins : g.rem[y] <= c.rem[y]
  <2> SUFFICES ASSUME NEW y \in c.joins PROVE g.rem[y] <= c.rem[y]
    OBVIOUS
  <2>1. y # window /\ y # q.id /\ y \in g.joins BY <1>5, <1>10, <1>11
  <2>2. PICK u : u = MaxDelay - delay
    OBVIOUS
  <2>3. g.rem[y] = u /\ c.rem[y] = u BY <1>8, <1>9, <2>1, <2>2
  <2>4. u \in Int BY <1>1, <2>2, EngineAssumption DEF DongleOk
  <2> QED BY <2>3, <2>4
<1>13. g.rem[q.id] = WindowTicks + LateTicks + MaxDelay
  <2>1. WindowTicks + LateTicks - 0 + MaxDelay = WindowTicks + LateTicks + MaxDelay BY EngineAssumption
  <2> QED BY <1>9, <1>11, <2>1
<1>14. 1 \in DOMAIN c.box /\ c.box[1] = q BY <1>4, <1>8
<1>15. JoinsOk(eng, g) BY <1>7, <1>11, <1>12, <1>13, <1>14, JoinsOpen
<1>16. \A y \in g.used : y \in c.used \/ y = 0 \/ \E k \in DOMAIN c.box : y = c.box[k].id
  BY <1>4, <1>8, <1>9
<1>17. HInv(eng, g, Posted, {}, {}) BY <1>7, <1>9, <1>15, <1>16, CtxStep
<1> QED BY <1>2, <1>6, <1>7, <1>17 DEF StOk

\* A PairingCancel ends the window: both requests are answered, without a join.
Cancelled(q) ==
  IF eng.up THEN wire \o <<Answer([q EXCEPT !.id = window], FALSE, 0, <<>>, TRUE),
                           Answer(q, TRUE, 0, <<>>, TRUE)>>
  ELSE wire

\* The step of a PairingCancel.
LEMMA TakeCancels ==
  ASSUME EngInv, NEW q, inbox # <<>>, q = Head(inbox), window # 0
  PROVE  StOk(eng, <<>>, 0, 0, Cancelled(q), winAge, delay, Posted)
<1>0. PICK w : w = Cancelled(q)
  OBVIOUS
<1>1. /\ DongleOk(inbox, age, window, wire, winAge, delay)
      /\ StOk(eng, inbox, age, window, wire, winAge, delay, Posted)
  BY InvParts DEF EngInv
<1>2. PICK m, n : m = Answer([q EXCEPT !.id = window], FALSE, 0, <<>>, TRUE) /\ n = Answer(q, TRUE, 0, <<>>, TRUE)
  OBVIOUS
<1>3. inbox \in Seq(ReqRec) BY <1>1 DEF DongleOk
<1>4. 1 \in DOMAIN inbox /\ q = inbox[1] /\ q \in ReqRec BY <1>3
<1>5. /\ WireOk(wire) /\ q.id \in Nat \ {0} /\ q.id # window /\ q.id \notin WireIds(wire)
      /\ window \in Nat \ {0} /\ window \notin WireIds(wire)
  BY <1>1, <1>4 DEF DongleOk, ReqRec
<1>6. m.type = "answer" /\ m.id = window /\ m.ok = FALSE
  <2>1. [q EXCEPT !.id = window].id = window BY <1>4 DEF ReqRec
  <2> QED BY <1>2, <2>1 DEF Answer
<1>7. n.type = "answer" /\ n.id = q.id /\ n.node = 0 BY <1>2 DEF Answer
<1>8. MsgOk(m) /\ MsgOk(n) BY <1>5, <1>6, <1>7 DEF MsgOk
<1>9. PICK v : v = Append(wire, m)
  OBVIOUS
<1>10. WireOk(v) /\ WireIds(v) = WireIds(wire) \cup {window} /\ JoinIds(v) = JoinIds(wire)
  BY <1>5, <1>6, <1>8, <1>9, WireAppend
<1>11. PICK u : u = Append(v, n)
  OBVIOUS
<1>12. WireOk(u) /\ WireIds(u) = WireIds(wire) \cup {window, q.id} /\ JoinIds(u) = JoinIds(wire)
  <2>1. n.id \notin WireIds(v) BY <1>5, <1>7, <1>10
  <2>2. /\ WireOk(u) /\ WireIds(u) = IF n.type = "answer" THEN WireIds(v) \cup {n.id} ELSE WireIds(v)
        /\ JoinIds(u) = IF n.type = "answer" /\ n.ok /\ n.node # 0 THEN JoinIds(v) \cup {n.id} ELSE JoinIds(v)
    BY <1>8, <1>10, <1>11, <2>1, WireAppend
  <2> QED BY <1>7, <1>10, <2>2
<1>13. wire \o <<m, n>> = u
  <2>1. PICK S : S = {wire[k] : k \in DOMAIN wire} \cup {m, n}
    OBVIOUS
  <2>2. wire \in Seq(S) /\ m \in S /\ n \in S BY <1>5, <2>1 DEF WireOk
  <2> QED BY <1>9, <1>11, <2>2
<1>14. /\ WireOk(w) /\ WireIds(w) \subseteq WireIds(wire) \cup {window, q.id}
       /\ JoinIds(w) \subseteq JoinIds(wire)
  <2>1. w = u \/ w = wire BY <1>0, <1>2, <1>13 DEF Cancelled
  <2> QED BY <1>5, <1>12, <2>1
<1>15. DongleOk(<<>>, 0, 0, w, winAge, delay)
  <2>1. 0 \notin WireIds(w) BY <1>14, WireIdsAre
  <2> QED BY <1>1, <1>14, <2>1 DEF DongleOk
<1>16. \A y \in WireIds(w) : y \in WireIds(wire) \/ y = window \/ \E k \in DOMAIN inbox : y = inbox[k].id
  BY <1>4, <1>14
<1>17. JoinIds(w) \subseteq JoinIds(wire) \cup {window} /\ 0 \in {0, window} BY <1>14
<1>18. StOk(eng, <<>>, 0, 0, w, winAge, delay, Posted) BY <1>1, <1>15, <1>16, <1>17, WorldStep
<1> QED BY <1>0, <1>18

\* The dongle takes the request of its inbox.
LEMMA TakeInv ==
  ASSUME EngInv, Take
  PROVE  EngInv'
<1>1. PICK q, wa : q = Head(inbox) /\ wa = IF window = 0 THEN 0 ELSE winAge
  OBVIOUS
<1>2. /\ inbox # <<>> /\ inbox' = <<>> /\ age' = 0 /\ winAge' = wa
      /\ UNCHANGED <<eng, posted, upCtr, silent, delay>>
  BY <1>1 DEF Take
<1>3. q \in ReqRec
  <2>1. inbox \in Seq(ReqRec) BY InvParts DEF DongleOk
  <2> QED BY <1>1, <1>2, <2>1
<1>4. q.op \in Ops BY <1>3 DEF ReqRec
<1>5. \/ window' = window /\ \E ok, list, whole : Write(Answer(q, ok, 0, list, whole))
      \/ q.op = "PairingOpen" /\ window = 0 /\ window' = q.id /\ wire' = wire
      \/ window # 0 /\ window' = 0 /\ wire' = Cancelled(q)
  <2>1. CASE q.op \in {"Query", "Describe"} BY <1>1, <2>1 DEF Take
  <2>2. CASE q.op = "NodeList" BY <1>1, <2>2 DEF Take
  <2>3. CASE q.op = "NodeAdd" BY <1>1, <2>3 DEF Take
  <2>4. CASE q.op = "NodeRemove" BY <1>1, <2>4 DEF Take
  <2>5. CASE q.op = "NodeUpdate" BY <1>1, <2>5 DEF Take
  <2>6. CASE q.op = "PairingOpen" BY <1>1, <2>6 DEF Take
  <2>7. CASE q.op = "PairingCancel" BY <1>1, <2>7 DEF Take, Cancelled
  <2> QED BY <1>4, <2>1, <2>2, <2>3, <2>4, <2>5, <2>6, <2>7 DEF Ops
<1>6. StOk(eng, <<>>, 0, window', wire', wa, delay, Posted)
  <2>1. CASE window' = window /\ \E ok, list, whole : Write(Answer(q, ok, 0, list, whole))
    <3>1. PICK ok, list, whole : Write(Answer(q, ok, 0, list, whole)) BY <2>1
    <3>2. StOk(eng, <<>>, 0, window, wire', wa, delay, Posted) BY <1>1, <1>2, <3>1, TakeWrites
    <3> QED BY <2>1, <3>2
  <2>2. CASE q.op = "PairingOpen" /\ window = 0 /\ window' = q.id /\ wire' = wire
    <3>1. StOk(eng, <<>>, 0, q.id, wire, 0, delay, Posted) BY <1>1, <1>2, <2>2, TakeOpens
    <3> QED BY <1>1, <2>2, <3>1
  <2>3. CASE window # 0 /\ window' = 0 /\ wire' = Cancelled(q)
    <3>1. StOk(eng, <<>>, 0, 0, Cancelled(q), winAge, delay, Posted) BY <1>1, <1>2, <2>3, TakeCancels
    <3> QED BY <1>1, <2>3, <3>1
  <2> QED BY <1>5, <2>1, <2>2, <2>3
<1>7. upCtr' \in [Addrs -> Nat] BY <1>2 DEF EngInv
<1> QED BY <1>2, <1>6, <1>7, DongleStep

\* Engine::new and start: the listing is in the inbox, the query waits.
LEMMA InitInv ==
  ASSUME EngInit
  PROVE  EngInv
<1>1. PICK f : f = [up |-> TRUE, mgmt |-> <<>>, next |-> 1, nodes |-> <<>>, synced |-> FALSE,
                    gaps |-> 0, held |-> <<>>, recent |-> <<>>, unreg |-> {}, pair |-> 0,
                    late |-> 0, out |-> <<>>, answers |-> [r \in Rpcs |-> 0], told |-> {}]
  OBVIOUS
<1>2. PICK c : c = Ctx(<<>>, 0, 0, <<>>, 0, 0)
  OBVIOUS
<1>3. /\ DOMAIN f = Fields /\ f.mgmt = <<>> /\ f.out = <<>> /\ f.next = 1 /\ f.late = 0
      /\ f.answers = [r \in Rpcs |-> 0] /\ f.held = <<>> /\ f.recent = <<>> /\ f.told = {}
  BY <1>1 DEF Fields
<1>4. WireOk(<<>>) /\ WireIds(<<>>) = {} /\ JoinIds(<<>>) = {} BY EmptyWire
<1>5. DongleOk(<<>>, 0, 0, <<>>, 0, 0) BY <1>4, EngineAssumption DEF DongleOk
<1>6. c.box = <<>> /\ c.used = {0} /\ c.joins = {} BY <1>2, <1>4, CtxIs
<1>7. HInv(f, c, {}, {}, {})
  <2>1. Fit(f, {}, {}) BY <1>3 DEF Fit
  <2>2. IdsOk(f, c) BY <1>3, <1>6 DEF IdsOk
  <2>3. SlotOk(f, c) BY <1>3, <1>6 DEF SlotOk
  <2>4. JoinsOk(f, c) BY <1>3, <1>6 DEF JoinsOk
  <2>5. AccOk(f, {}, {}) BY <1>3 DEF AccOk, Pending
  <2> QED BY <2>1, <2>2, <2>3, <2>4, <2>5 DEF HInv
<1>8. CtxOk(c) BY <1>2, <1>5, DongleCtx
<1>9. PICK g : g = issue(f, NodeListReq)
  OBVIOUS
<1>10. HInv(g, c, {}, {}, {}) BY <1>7, <1>8, <1>9, IssueList
<1>11. PICK e : e = issue(g, Req("Query", 0, NoName, 0))
  OBVIOUS
<1>12. HInv(e, c, {}, {}, {})
  <2>1. "Query" \in Ops \ {"PairingOpen"} /\ 0 \in Addrs \cup {0} /\ 0 \in {} \cup {0}
        /\ NoName \in OpNames \cup AutoNames \cup {NoName} /\ {} \ {0} = {}
    BY DEF Ops
  <2> QED BY <1>8, <1>10, <1>11, <2>1, IssueReq
<1>13. PICK b : b = IF e.out = <<>> THEN <<>> ELSE <<Head(e.out)>>
  OBVIOUS
<1>14. StOk(Flushed(e), b, 0, 0, <<>>, 0, 0, {})
  <2>1. IF e.out = <<>> \/ <<>> # <<>> THEN b = <<>> /\ 0 = IF <<>> = <<>> THEN 0 ELSE 0
        ELSE b = <<Head(e.out)>> /\ 0 = 0
    BY <1>13
  <2> QED BY <1>2, <1>5, <1>12, <2>1, Commit
<1>15. b = SubSeq(e.out, 1, 1)
  <2>1. e.out \in Seq(ReqRec) BY <1>12 DEF HInv, Fit
  <2>2. PICK u : u = e.out
    OBVIOUS
  <2>3. u \in Seq(ReqRec) /\ (u # <<>> => Head(u) = u[1] /\ Len(u) >= 1) BY <2>1, <2>2
  <2>4. ASSUME u # <<>> PROVE SubSeq(u, 1, 1) = <<u[1]>>
    <3>1. PICK v : v = SubSeq(u, 1, 1)
      OBVIOUS
    <3>2. v \in Seq(ReqRec) /\ Len(v) = 1 /\ v[1] = u[1] BY <2>3, <2>4, <3>1, SubSeqProperties
    <3>3. PICK t : t = <<u[1]>>
      OBVIOUS
    <3>4. t \in Seq(ReqRec) /\ Len(t) = 1 /\ t[1] = u[1] BY <2>3, <2>4, <3>3
    <3>5. Len(v) = Len(t) /\ \A i \in 1 .. Len(v) : v[i] = t[i] BY <3>2, <3>4
    <3>6. v = t BY <3>2, <3>4, <3>5, SeqEqual
    <3> QED BY <3>1, <3>3, <3>6
  <2>5. u = <<>> => SubSeq(u, 1, 1) = <<>>
    OBVIOUS
  <2> QED BY <1>13, <2>2, <2>3, <2>4, <2>5
<1>16. /\ eng = Flushed(e) /\ inbox = SubSeq(e.out, 1, 1) /\ age = 0 /\ window = 0 /\ wire = <<>>
       /\ posted = [r \in Rpcs |-> <<>>] /\ upCtr = [n \in Addrs |-> 0]
       /\ silent = FALSE /\ winAge = 0 /\ delay = 0
  BY <1>1, <1>9, <1>11 DEF EngInit, Flushed
<1>17. Posted = {} /\ DOMAIN posted = Rpcs /\ upCtr \in [Addrs -> Nat] BY <1>16 DEF Posted
<1> QED BY <1>14, <1>15, <1>16, <1>17 DEF EngInv

\* Every step keeps the inductive invariant.
LEMMA StepInv ==
  ASSUME EngInv, [EngNext]_engVars
  PROVE  EngInv'
<1>1. CASE EngTick BY <1>1, EngTickInv
<1>2. CASE Receive BY <1>2, ReceiveInv
<1>3. CASE SerialDown BY <1>3, SerialDownInv
<1>4. CASE SerialUp BY <1>4, SerialUpInv
<1>5. CASE Take BY <1>5, TakeInv
<1>6. CASE WindowEnds BY <1>6, WindowEndsInv
<1>7. CASE DongleReboot BY <1>7, DongleRebootInv
<1>8. ASSUME NEW id \in Rpcs, NEW r \in Requests, NEW keep \in BOOLEAN, Post(id, r, keep)
      PROVE  EngInv'
  BY <1>8, PostInv
<1>9. ASSUME NEW id \in Rpcs, Redeliver(id)
      PROVE  EngInv'
  BY <1>9, RedeliverInv
<1>10. ASSUME NEW id \in Rpcs, Replay(id)
       PROVE  EngInv'
  BY <1>10, ReplayInv
<1>11. ASSUME NEW n \in Addrs, NEW p \in {"awake", "asleep"}, Uplink(n, p)
       PROVE  EngInv'
  BY <1>11, UplinkInv
<1>12. CASE UNCHANGED engVars BY <1>12 DEF engVars, EngInv, Posted
<1> QED BY <1>1, <1>2, <1>3, <1>4, <1>5, <1>6, <1>7, <1>8, <1>9, <1>10, <1>11, <1>12 DEF EngNext, Steps

\* The inductive invariant implies the property.
LEMMA InvSettles ==
  ASSUME EngInv
  PROVE  RequestsSettle
<1>1. HInv(eng, Ctx(inbox, age, window, wire, winAge, delay), Posted, {}, {}) /\ ~silent BY InvParts
<1>2. AccOk(eng, Posted, {}) BY <1>1 DEF HInv
<1>3. EachRpcOnce BY <1>2 DEF AccOk, EachRpcOnce, Pending, Posted
<1> QED BY <1>1, <1>3 DEF RequestsSettle, JoinsAreTold

\* The inductive invariant of the engine and its dongle: ids, slot, clocks, joins and accounts.
THEOREM EngineInvariant ==
  EngSpec => []EngInv
<1>1. EngInit => EngInv BY InitInv
<1>2. EngInv /\ [EngNext]_engVars => EngInv' BY StepInv
<1> QED BY <1>1, <1>2, PTL DEF EngSpec

\* Every request of a client is answered once, also when the dongle is too busy to take it or
\* its full inbox drops it, and no node joins without a word (accept_request_id,
\* send_next_mgmt, on_tick, on_mgmt_chunk, fail_unsent_mgmt), for any number of clients, nodes
\* and requests.
THEOREM RequestsAreSettled ==
  EngSpec => []RequestsSettle
<1>1. EngInv => RequestsSettle BY InvSettles
<1> QED BY <1>1, EngineInvariant, PTL
=============================================================================
