------------------------ MODULE ConfirmedLinkProofs -------------------------
(***************************************************************************)
(* Proofs about ConfirmedLink.tla for every number of repetitions, lane    *)
(* period and world: any senders, any number of counters and resets,       *)
(* frames that stay on the air or not.  What is reported delivered was     *)
(* taken, the app gets every transfer once and in order, no counter draws  *)
(* more ACKs than MAX_REPS and none too few, and each direction of the     *)
(* link is a Delivery.                                                     *)
(***************************************************************************)
EXTENDS ConfirmedLink, SequenceTheorems, TLAPS

-----------------------------------------------------------------------------
(***************************************************************************)
(* The inductive invariant                                                 *)
(***************************************************************************)

Tasks   == {"idle", "attempt", "window", "acking", "handing"}
Results == {"none", "NotDelivered", "Busy", "DutyLimited", "Error", "Delivered"}
Frames  == [kind : {"data", "ack"}, src : Devs, counter : Nat, acked : Nat, confirmed : BOOLEAN]

\* The sets the variables range over, whatever the world.
Shapes ==
  /\ world \in Worlds
  /\ task \in [Devs -> Tasks] /\ next \in [Devs -> Nat]
  /\ tx \in [Devs -> [counter : Nat, confirmed : BOOLEAN, attempt : Nat, result : Results]]
  /\ air \subseteq Frames
  /\ lane \in [Devs -> [seen : Nat, accepts : Nat, reacks : Nat]] /\ stored \in [Devs -> Nat]
  /\ rx \in [Devs -> [counter : Nat, fresh : BOOLEAN]]
  /\ sent \in [Devs -> SUBSET Nat] /\ told \in [Devs -> SUBSET Nat]
  /\ taken \in [Devs -> SUBSET Nat] /\ before \in [Devs -> SUBSET Nat]
  /\ handed \in [Devs -> Seq(Nat)] /\ acks \in [Devs -> [Counters -> Nat]]
  /\ crashes \in Nat /\ crashes <= world.crashes

\* A transfer is under way.
Active(d) == task[d] \in {"attempt", "window"}

\* How often its frame may have gone out.
Went(d) == IF task[d] = "window" THEN tx[d].attempt + 1 ELSE tx[d].attempt

\* A device's own counters: all it offered is spent, and a transfer under way
\* is the last one offered.
SendInv(d) ==
  /\ next[d] >= 1 /\ next[d] <= MaxCounter + 1
  /\ \A c \in sent[d] : 1 <= c /\ c < next[d]
  /\ tx[d].counter < next[d] /\ tx[d].attempt < Reps
  /\ Active(d) => /\ tx[d].counter \in sent[d]
                  /\ \A c \in sent[d] : c <= tx[d].counter
                  /\ tx[d].attempt < RepsOf(tx[d]) /\ tx[d].result # "Delivered"
  /\ task[d] = "window" => tx[d].confirmed

\* What a device took: transfers of its peer, up to its lane's mark and in the
\* record.  The frame in its hands is the one at the mark.
TakeInv(d) ==
  /\ taken[d] \subseteq sent[Peer(d)] /\ told[Peer(d)] \subseteq taken[d]
  /\ lane[d].seen \in taken[d] \cup {0} /\ stored[d] \in taken[d] \cup {0}
  /\ stored[d] <= lane[d].seen /\ (P = 1 => stored[d] = lane[d].seen)
  /\ lane[d].reacks <= MaxReacks /\ lane[d].accepts < P
  /\ IF task[d] \in {"acking", "handing"}
     THEN rx[d].counter = lane[d].seen /\ rx[d].counter \in taken[d]
     ELSE rx[d] = NoFrame
  /\ task[d] = "handing" => rx[d].fresh

\* What it handed to its app lies below the mark, in order, and with a write on
\* every accept also above all of earlier boots.
HandInv(d) ==
  /\ \A i \in DOMAIN handed[d] :
       /\ handed[d][i] \in taken[d] /\ handed[d][i] <= lane[d].seen
       /\ rx[d].fresh => handed[d][i] < lane[d].seen
       /\ P = 1 => handed[d][i] \notin before[d]
  /\ \A i, j \in DOMAIN handed[d] : i < j => handed[d][i] < handed[d][j]
  /\ P = 1 => \A c \in before[d] :
       c <= lane[d].seen /\ (rx[d].fresh => c < lane[d].seen)

\* The ACKs of a boot: none above the mark, at the mark one and its re-ACKs.
AckInv(d) ==
  \A c \in Counters :
    /\ acks[d][c] <= Reps
    /\ c > lane[d].seen => acks[d][c] = 0
    /\ c = lane[d].seen =>
         acks[d][c] + (IF task[d] = "acking" THEN 1 ELSE 0) <= lane[d].reacks + 1

\* Where nothing is replayed every reception costs a transmission.
ReackInv(d) ==
  /\ Active(d) /\ ~Replays /\ lane[Peer(d)].seen = tx[d].counter
  => lane[Peer(d)].reacks + (IF Data(d, tx[d].counter, TRUE) \in air THEN 2 ELSE 1) <= Went(d)

\* A frame on the air: data that was offered, or the ACK of what was taken.
FrameInv(f) ==
  IF f.kind = "data"
  THEN /\ f.counter \in sent[f.src] /\ f = Data(f.src, f.counter, f.confirmed)
       /\ Active(f.src) /\ f.counter = tx[f.src].counter => f.confirmed /\ Went(f.src) >= 1
  ELSE f.acked \in taken[f.src]

LinkInv ==
  /\ Shapes /\ \A f \in air : FrameInv(f)
  /\ \A d \in Devs : SendInv(d) /\ TakeInv(d) /\ HandInv(d) /\ AckInv(d) /\ ReackInv(d)

-----------------------------------------------------------------------------
(***************************************************************************)
(* Facts the steps rest on                                                 *)
(***************************************************************************)

\* The other one of two devices.
LEMMA PeerFacts ==
  /\ \A d \in Devs : Peer(d) \in Devs /\ Peer(d) # d /\ Peer(Peer(d)) = d
  /\ \A d, e \in Devs : e # d => e = Peer(d)
<1>1. PICK a, b \in Devs : a # b /\ Devs = {a, b} BY LinkAssumption
<1>2. Peer(a) = b BY <1>1 DEF Peer
<1>3. Peer(b) = a BY <1>1 DEF Peer
<1> QED BY <1>1, <1>2, <1>3

\* A world's bounds are numbers.
LEMMA WorldFacts ==
  ASSUME Shapes
  PROVE  MaxCounter \in Nat \ {0} /\ Replays \in BOOLEAN /\ world.crashes \in Nat
  BY LinkAssumption DEF Shapes, MaxCounter, Replays

\* The shapes of one device's variables.
LEMMA DeviceShape ==
  ASSUME Shapes, NEW d \in Devs
  PROVE  /\ task[d] \in Tasks /\ next[d] \in Nat
         /\ tx[d] \in [counter : Nat, confirmed : BOOLEAN, attempt : Nat, result : Results]
         /\ lane[d] \in [seen : Nat, accepts : Nat, reacks : Nat] /\ stored[d] \in Nat
         /\ rx[d] \in [counter : Nat, fresh : BOOLEAN]
         /\ sent[d] \subseteq Nat /\ told[d] \subseteq Nat
         /\ taken[d] \subseteq Nat /\ before[d] \subseteq Nat
         /\ handed[d] \in Seq(Nat) /\ acks[d] \in [Counters -> Nat]
  BY DEF Shapes

LEMMA InitInv == LinkInit => LinkInv
<1> SUFFICES ASSUME LinkInit PROVE LinkInv
  OBVIOUS
<1> USE DEF LinkInit, NoTransfer, NoFrame, NewLane
<1>1. Shapes
  <2>1. world.crashes \in Nat /\ world \in Worlds BY LinkAssumption
  <2>2. handed \in [Devs -> Seq(Nat)]
    OBVIOUS
  <2> QED BY <2>1, <2>2 DEF Shapes, Tasks, Results
<1>2. MaxCounter \in Nat \ {0} BY <1>1, WorldFacts
<1>3. ASSUME NEW d \in Devs
      PROVE  SendInv(d) /\ TakeInv(d) /\ HandInv(d) /\ AckInv(d) /\ ReackInv(d)
  <2>1. SendInv(d) BY <1>2, LinkAssumption DEF SendInv, Active
  <2>2. Peer(d) \in Devs BY PeerFacts
  <2>3. TakeInv(d) BY <2>2, LinkAssumption DEF TakeInv, MaxReacks
  <2>4. HandInv(d) BY DEF HandInv
  <2>5. AckInv(d) BY <1>2, LinkAssumption DEF AckInv, Counters
  <2>6. ReackInv(d) BY DEF ReackInv, Active
  <2> QED BY <2>1, <2>3, <2>4, <2>5, <2>6
<1> QED BY <1>1, <1>3 DEF LinkInv

-----------------------------------------------------------------------------
(***************************************************************************)
(* What a step leaves alone                                                *)
(***************************************************************************)

LEMMA SendKept ==
  ASSUME NEW d \in Devs, SendInv(d), world' = world, task'[d] = task[d], next'[d] = next[d],
         tx'[d] = tx[d], sent'[d] = sent[d]
  PROVE  SendInv(d)'
  BY DEF SendInv, Active, MaxCounter

LEMMA TakeKept ==
  ASSUME NEW d \in Devs, TakeInv(d), taken'[d] = taken[d], lane'[d] = lane[d],
         stored'[d] = stored[d], rx'[d] = rx[d], sent[Peer(d)] \subseteq sent'[Peer(d)],
         told'[Peer(d)] \subseteq taken[d],
         \/ task'[d] = task[d]
         \/ {task[d], task'[d]} \cap {"acking", "handing"} = {}
  PROVE  TakeInv(d)'
  BY DEF TakeInv

LEMMA HandKept ==
  ASSUME NEW d \in Devs, HandInv(d), handed'[d] = handed[d], taken'[d] = taken[d],
         lane'[d].seen = lane[d].seen, rx'[d].fresh => rx[d].fresh, before'[d] = before[d]
  PROVE  HandInv(d)'
  BY DEF HandInv

LEMMA AckKept ==
  ASSUME NEW d \in Devs, Shapes, AckInv(d), world' = world, acks'[d] = acks[d], lane'[d] = lane[d],
         task'[d] = "acking" => task[d] = "acking"
  PROVE  AckInv(d)'
<1>1. Counters' = Counters /\ Counters \subseteq Nat BY WorldFacts DEF Counters, MaxCounter
<1>2. \A c \in Counters : acks[d][c] \in Nat BY DeviceShape
<1>3. lane[d].reacks \in Nat BY DeviceShape
<1>4. ASSUME NEW c \in Counters
      PROVE  /\ acks'[d][c] <= Reps
             /\ c > lane'[d].seen => acks'[d][c] = 0
             /\ c = lane'[d].seen =>
                  acks'[d][c] + (IF task'[d] = "acking" THEN 1 ELSE 0) <= lane'[d].reacks + 1
  BY <1>2, <1>3 DEF AckInv
<1> QED BY <1>1, <1>4 DEF AckInv

LEMMA ReackKept ==
  ASSUME NEW d \in Devs, ReackInv(d), Shapes, world' = world, task'[d] = task[d], tx'[d] = tx[d],
         lane'[Peer(d)] = lane[Peer(d)],
         Data(d, tx[d].counter, TRUE) \in air' => Data(d, tx[d].counter, TRUE) \in air
  PROVE  ReackInv(d)'
<1>1. lane[Peer(d)].reacks \in Nat /\ Went(d) \in Nat BY DeviceShape, PeerFacts DEF Went
<1> QED BY <1>1 DEF ReackInv, Active, Went, Replays, Data

LEMMA FrameKept ==
  ASSUME NEW f \in air, FrameInv(f), task'[f.src] = task[f.src], tx'[f.src] = tx[f.src],
         sent[f.src] \subseteq sent'[f.src], taken[f.src] \subseteq taken'[f.src]
  PROVE  FrameInv(f)'
  BY DEF FrameInv, Active, Went, Data

\* A step of device d as a sender: what is left to show is its own.
LEMMA SenderFrame ==
  ASSUME LinkInv, NEW d \in Devs, UNCHANGED <<world, rxVars>>, Shapes',
         \A e \in Devs \ {d} : /\ task'[e] = task[e] /\ next'[e] = next[e] /\ tx'[e] = tx[e]
                               /\ sent'[e] = sent[e] /\ told'[e] = told[e],
         {task[d], task'[d]} \cap {"acking", "handing"} = {},
         sent[d] \subseteq sent'[d], told'[d] \subseteq taken[Peer(d)],
         \A f \in air' : f \in air \/ f.src = d,
         SendInv(d)', ReackInv(d)', \A f \in air' : f.src = d => FrameInv(f)'
  PROVE  LinkInv'
<1>1. Shapes /\ Peer(d) \in Devs /\ Peer(d) # d /\ Peer(Peer(d)) = d BY PeerFacts DEF LinkInv
<1>2. UNCHANGED <<lane, stored, rx, taken, handed, before, acks>> BY DEF rxVars
<1>3. ASSUME NEW e \in Devs
      PROVE  SendInv(e)' /\ TakeInv(e)' /\ HandInv(e)' /\ AckInv(e)' /\ ReackInv(e)'
  <2>1. SendInv(e) /\ TakeInv(e) /\ HandInv(e) /\ AckInv(e) /\ ReackInv(e) BY DEF LinkInv
  <2>2. SendInv(e)' BY <2>1, SendKept
  <2>3. TakeInv(e)'
    <3>1. sent[Peer(e)] \subseteq sent'[Peer(e)] BY PeerFacts
    <3>2. told'[Peer(e)] \subseteq taken[e]
      <4>1. CASE e = d BY <1>1, <2>1, <4>1 DEF TakeInv
      <4>2. CASE e = Peer(d) BY <1>1, <4>2
      <4> QED BY <4>1, <4>2, PeerFacts
    <3> QED BY <1>2, <2>1, <3>1, <3>2, TakeKept
  <2>4. HandInv(e)' BY <1>2, <2>1, HandKept
  <2>5. AckInv(e)' BY <1>1, <1>2, <2>1, AckKept
  <2>6. ReackInv(e)'
    <3>1. CASE e = d BY <3>1
    <3>2. CASE e # d
      <4>1. Data(e, tx[e].counter, TRUE) \in air' => Data(e, tx[e].counter, TRUE) \in air BY <3>2 DEF Data
      <4> QED BY <1>1, <1>2, <2>1, <3>2, <4>1, ReackKept
    <3> QED BY <3>1, <3>2
  <2> QED BY <2>2, <2>3, <2>4, <2>5, <2>6
<1>4. ASSUME NEW f \in air'
      PROVE  FrameInv(f)'
  <2>1. CASE f.src = d BY <2>1
  <2>2. CASE f.src # d
    <3>1. f \in air /\ FrameInv(f) /\ f.src \in Devs BY <1>1, <2>2 DEF LinkInv, Shapes, Frames
    <3> QED BY <1>2, <2>2, <3>1, FrameKept
  <2> QED BY <2>1, <2>2
<1> QED BY <1>3, <1>4 DEF LinkInv

-----------------------------------------------------------------------------
(***************************************************************************)
(* Sending                                                                 *)
(***************************************************************************)

Transfers == [counter : Nat, confirmed : BOOLEAN, attempt : Nat, result : Results]

\* The end of a transfer.
LEMMA FinishFacts ==
  ASSUME Shapes, NEW d \in Devs, NEW r \in Results, Finish(d, r)
  PROVE  /\ tx' \in [Devs -> Transfers] /\ task' \in [Devs -> Tasks]
         /\ told' \in [Devs -> SUBSET Nat] /\ UNCHANGED <<next, sent>>
         /\ tx'[d].counter = tx[d].counter /\ tx'[d].attempt = 0 /\ task'[d] = "idle"
         /\ told'[d] = IF r = "Delivered" /\ tx[d].confirmed THEN told[d] \cup {tx[d].counter}
                       ELSE told[d]
         /\ \A e \in Devs \ {d} : tx'[e] = tx[e] /\ task'[e] = task[e] /\ told'[e] = told[e]
<1>1. tx \in [Devs -> Transfers] /\ task \in [Devs -> Tasks] /\ told \in [Devs -> SUBSET Nat]
      /\ tx[d].counter \in Nat
  BY DEF Shapes, Transfers
<1>2. /\ tx' = [tx EXCEPT ![d].result = r, ![d].attempt = 0] /\ task' = [task EXCEPT ![d] = "idle"]
      /\ told' = IF r = "Delivered" /\ tx[d].confirmed
                 THEN [told EXCEPT ![d] = @ \cup {tx[d].counter}] ELSE told
      /\ UNCHANGED <<next, sent>>
  BY DEF Finish, Goto
<1>3. /\ tx' \in [Devs -> Transfers] /\ tx'[d].counter = tx[d].counter /\ tx'[d].attempt = 0
      /\ \A e \in Devs \ {d} : tx'[e] = tx[e]
  BY <1>1, <1>2 DEF Transfers
<1>4. /\ task' \in [Devs -> Tasks] /\ task'[d] = "idle"
      /\ \A e \in Devs \ {d} : task'[e] = task[e]
  BY <1>1, <1>2 DEF Tasks
<1>5. /\ told' \in [Devs -> SUBSET Nat]
      /\ told'[d] = IF r = "Delivered" /\ tx[d].confirmed THEN told[d] \cup {tx[d].counter}
                    ELSE told[d]
      /\ \A e \in Devs \ {d} : told'[e] = told[e]
  BY <1>1, <1>2
<1> QED BY <1>2, <1>3, <1>4, <1>5

\* A transfer that ends keeps the invariant, when what it reports is so.
LEMMA FinishStep ==
  ASSUME LinkInv, NEW d \in Devs, NEW r \in Results, Finish(d, r), Active(d),
         UNCHANGED <<world, crashes, rxVars>>, air' \subseteq Frames,
         \A f \in air' : f \in air \/ f = Data(d, tx[d].counter, tx[d].confirmed),
         r = "Delivered" /\ tx[d].confirmed => tx[d].counter \in taken[Peer(d)]
  PROVE  LinkInv'
<1>1. Shapes /\ SendInv(d) /\ TakeInv(Peer(d)) /\ Peer(d) \in Devs /\ Peer(Peer(d)) = d
  BY PeerFacts DEF LinkInv
<1>2. UNCHANGED <<lane, stored, rx, taken, handed, before, acks>> BY DEF rxVars
<1>3. Shapes' BY <1>1, <1>2, FinishFacts DEF Shapes, Transfers, Counters, MaxCounter
<1>4. told[d] \subseteq taken[Peer(d)] BY <1>1 DEF TakeInv
<1>5. told'[d] \subseteq taken[Peer(d)]
  <2>1. told'[d] = IF r = "Delivered" /\ tx[d].confirmed THEN told[d] \cup {tx[d].counter}
                   ELSE told[d]
    BY <1>1, FinishFacts
  <2> QED BY <1>4, <2>1
<1>6. ~Active(d)' BY <1>1, FinishFacts DEF Active
<1>7. SendInv(d)' BY <1>1, <1>6, FinishFacts, LinkAssumption, WorldFacts DEF SendInv, Active, MaxCounter
<1>8. ReackInv(d)' BY <1>6 DEF ReackInv
<1>9. \A f \in air' : f.src = d => FrameInv(f)'
  <2> SUFFICES ASSUME NEW f \in air', f.src = d PROVE FrameInv(f)'
    OBVIOUS
  <2>1. UNCHANGED sent BY <1>1, FinishFacts
  <2>2. CASE f \in air
    <3>1. FrameInv(f) BY <2>2 DEF LinkInv
    <3> QED BY <1>2, <1>6, <2>1, <3>1 DEF FrameInv, Data
  <2>3. CASE f = Data(d, tx[d].counter, tx[d].confirmed)
    <3>1. tx[d].counter \in sent[d] BY <1>1 DEF SendInv
    <3>2. f.kind = "data" /\ f.counter = tx[d].counter /\ f = Data(f.src, f.counter, f.confirmed)
      BY <2>3 DEF Data
    <3> QED BY <1>6, <2>1, <3>1, <3>2 DEF FrameInv, Data
  <2> QED BY <2>2, <2>3
<1> QED
  <2>1. \A f \in air' : f \in air \/ f.src = d BY DEF Data
  <2>2. {task[d], task'[d]} \cap {"acking", "handing"} = {} BY <1>1, FinishFacts DEF Active
  <2>3. sent[d] \subseteq sent'[d] /\ UNCHANGED <<world, rxVars>> BY <1>1, FinishFacts
  <2>4. \A e \in Devs \ {d} : /\ task'[e] = task[e] /\ next'[e] = next[e] /\ tx'[e] = tx[e]
                              /\ sent'[e] = sent[e] /\ told'[e] = told[e]
    BY <1>1, FinishFacts
  <2> QED BY <1>3, <1>5, <1>7, <1>8, <1>9, <2>1, <2>2, <2>3, <2>4, SenderFrame

\* Another repetition, or the end: nothing is reported delivered.
LEMMA NextRepStep ==
  ASSUME LinkInv, NEW d \in Devs, NEW r \in Results \ {"Delivered"}, NextRep(d, r), Active(d),
         UNCHANGED <<world, crashes, rxVars, air>>
  PROVE  LinkInv'
<1>1. Shapes /\ SendInv(d) /\ TakeInv(Peer(d)) /\ ReackInv(d)
      /\ Peer(d) \in Devs /\ Peer(Peer(d)) = d
  BY PeerFacts DEF LinkInv
<1>2. CASE ~(tx[d].attempt + 1 < RepsOf(tx[d]))
  <2>1. Finish(d, r) BY <1>2 DEF NextRep
  <2> QED BY <1>1, <2>1, FinishStep DEF Shapes
<1>3. CASE tx[d].attempt + 1 < RepsOf(tx[d])
  <2>1. UNCHANGED <<lane, stored, rx, taken, handed, before, acks, air>> BY DEF rxVars
  <2>2. tx[d].attempt \in Nat /\ RepsOf(tx[d]) <= Reps /\ RepsOf(tx[d]) \in Nat /\ tx[d].counter \in Nat
    BY <1>1, DeviceShape, LinkAssumption, SMTT(30) DEF RepsOf
  <2>3. /\ tx' = [tx EXCEPT ![d].attempt = @ + 1, ![d].result = r]
        /\ task' = [task EXCEPT ![d] = "attempt"] /\ UNCHANGED <<next, sent, told>>
    BY <1>3 DEF NextRep, Goto
  <2>4. /\ tx' \in [Devs -> Transfers]
        /\ tx'[d].counter = tx[d].counter /\ tx'[d].confirmed = tx[d].confirmed
        /\ tx'[d].attempt = tx[d].attempt + 1 /\ tx'[d].result = r
        /\ \A e \in Devs \ {d} : tx'[e] = tx[e]
    <3>1. tx \in [Devs -> Transfers] BY <1>1 DEF Shapes, Transfers
    <3>2. tx'[d] = [counter |-> tx[d].counter, confirmed |-> tx[d].confirmed,
                    attempt |-> tx[d].attempt + 1, result |-> r]
      BY <2>2, <2>3, <3>1 DEF Transfers
    <3>3. tx'[d] \in Transfers BY <2>2, <3>1, <3>2 DEF Transfers
    <3>4. DOMAIN tx' = Devs /\ \A e \in Devs \ {d} : tx'[e] = tx[e] BY <2>3, <3>1
    <3>5. tx' = [e \in Devs |-> tx'[e]] BY <2>3, <3>1
    <3>6. tx' \in [Devs -> Transfers] BY <3>1, <3>3, <3>4, <3>5
    <3> QED BY <3>2, <3>4, <3>6
  <2>5. /\ task' \in [Devs -> Tasks] /\ task'[d] = "attempt"
        /\ \A e \in Devs \ {d} : task'[e] = task[e]
    BY <1>1, <2>3 DEF Shapes, Tasks
  <2>6. Shapes' BY <1>1, <2>1, <2>3, <2>4, <2>5 DEF Shapes, Transfers, Counters, MaxCounter
  <2>7. Active(d)' /\ Went(d) <= Went(d)' /\ Went(d) \in Nat /\ Went(d)' \in Nat
    BY <2>2, <2>4, <2>5 DEF Active, Went
  <2>8. SendInv(d)'
    <3>1. RepsOf(tx[d])' = RepsOf(tx[d]) BY <2>4 DEF RepsOf
    <3> QED BY <1>1, <1>3, <2>2, <2>3, <2>4, <2>5, <3>1, LinkAssumption DEF SendInv, Active, MaxCounter
  <2>9. ReackInv(d)'
    <3>1. lane[Peer(d)].reacks \in Nat BY <1>1, DeviceShape
    <3> QED BY <1>1, <2>1, <2>4, <2>7, <3>1 DEF ReackInv, Replays, Data
  <2>10. \A f \in air' : f.src = d => FrameInv(f)'
    <3> SUFFICES ASSUME NEW f \in air, f.src = d PROVE FrameInv(f)' BY <2>1
    <3>1. FrameInv(f) BY DEF LinkInv
    <3> QED BY <2>1, <2>3, <2>4, <2>7, <3>1 DEF FrameInv, Data
  <2>11. told'[d] \subseteq taken[Peer(d)] BY <1>1, <2>3 DEF TakeInv
  <2>12. {task[d], task'[d]} \cap {"acking", "handing"} = {} BY <2>5 DEF Active
  <2> QED BY <2>1, <2>3, <2>4, <2>5, <2>6, <2>8, <2>9, <2>10, <2>11, <2>12, SenderFrame
<1> QED BY <1>2, <1>3

LEMMA SendStep ==
  ASSUME LinkInv, NEW d \in Devs, NEW conf \in BOOLEAN, Send(d, conf), UNCHANGED world
  PROVE  LinkInv'
<1>1. Shapes /\ SendInv(d) /\ TakeInv(Peer(d)) /\ Peer(d) \in Devs /\ Peer(Peer(d)) = d
  BY PeerFacts DEF LinkInv
<1>2. UNCHANGED <<lane, stored, rx, taken, handed, before, acks, air, told, crashes>> BY DEF Send, rxVars
<1>3. next[d] \in Nat /\ next[d] <= MaxCounter /\ MaxCounter \in Nat /\ sent[d] \subseteq Nat
      /\ next[d] >= 1
  BY <1>1, DeviceShape, WorldFacts DEF Send, Locked, SendInv
<1>4. /\ tx' \in [Devs -> Transfers]
      /\ tx'[d] = [counter |-> next[d], confirmed |-> conf, attempt |-> 0, result |-> "NotDelivered"]
      /\ \A e \in Devs \ {d} : tx'[e] = tx[e]
  BY <1>1, <1>3 DEF Shapes, Transfers, Send, Results
<1>5. /\ task' \in [Devs -> Tasks] /\ task'[d] = "attempt" /\ task[d] = "idle"
      /\ \A e \in Devs \ {d} : task'[e] = task[e]
  BY <1>1 DEF Shapes, Tasks, Send, Goto
<1>6. /\ next' \in [Devs -> Nat] /\ next'[d] = next[d] + 1
      /\ sent' \in [Devs -> SUBSET Nat] /\ sent'[d] = sent[d] \cup {next[d]}
      /\ \A e \in Devs \ {d} : next'[e] = next[e] /\ sent'[e] = sent[e]
  <2>1. next \in [Devs -> Nat] /\ sent \in [Devs -> SUBSET Nat] BY <1>1 DEF Shapes
  <2>2. /\ next' = [next EXCEPT ![d] = @ + 1]
        /\ sent' = [sent EXCEPT ![d] = @ \cup {next[d]}]
    BY DEF Send
  <2> QED BY <1>3, <2>1, <2>2
<1>7. Shapes' BY <1>1, <1>2, <1>4, <1>5, <1>6 DEF Shapes, Transfers, Counters, MaxCounter
<1>8. SendInv(d)'
  <2>1. RepsOf(tx[d])' \in Nat \ {0} BY LinkAssumption DEF RepsOf
  <2>2. \A c \in sent[d] : 1 <= c /\ c < next[d] BY <1>1 DEF SendInv
  <2>3. MaxCounter' = MaxCounter BY DEF MaxCounter
  <2> QED BY <1>3, <1>4, <1>5, <1>6, <2>1, <2>2, <2>3, LinkAssumption DEF SendInv, Active
<1>9. ReackInv(d)'
  <2>1. lane[Peer(d)].seen \in sent[d] \cup {0} BY <1>1 DEF TakeInv
  <2>2. lane[Peer(d)].seen # next[d] BY <1>1, <1>3, <2>1 DEF SendInv
  <2> QED BY <1>2, <1>4, <2>2 DEF ReackInv
<1>10. \A f \in air' : f.src = d => FrameInv(f)'
  <2> SUFFICES ASSUME NEW f \in air, f.src = d PROVE FrameInv(f)' BY <1>2
  <2>1. FrameInv(f) BY DEF LinkInv
  <2>2. f.kind = "data" => f.counter # next[d] BY <1>1, <1>3, <2>1 DEF FrameInv, SendInv
  <2> QED BY <1>2, <1>4, <1>6, <2>1, <2>2 DEF FrameInv, Data
<1>11. told'[d] \subseteq taken[Peer(d)] BY <1>1, <1>2 DEF TakeInv
<1> QED BY <1>2, <1>4, <1>5, <1>6, <1>7, <1>8, <1>9, <1>10, <1>11, SenderFrame DEF rxVars

LEMMA TransmitStep ==
  ASSUME LinkInv, NEW d \in Devs, Transmit(d), UNCHANGED world
  PROVE  LinkInv'
<1>1. Shapes /\ SendInv(d) /\ TakeInv(Peer(d)) /\ ReackInv(d)
      /\ Peer(d) \in Devs /\ Peer(Peer(d)) = d
  BY PeerFacts DEF LinkInv
<1>2. UNCHANGED <<crashes, rxVars>> /\ Active(d) /\ task[d] = "attempt" BY DEF Transmit, Active
<1>3. tx[d].counter \in Nat /\ tx[d].confirmed \in BOOLEAN /\ tx[d].attempt \in Nat BY <1>1, DeviceShape
<1>4. PICK g : g = Data(d, tx[d].counter, tx[d].confirmed)
  OBVIOUS
<1>5. g \in Frames /\ air' = air \cup {g} /\ air \subseteq Frames
  BY <1>1, <1>3, <1>4 DEF Data, Frames, Transmit, Shapes
<1>6. CASE ~tx[d].confirmed
  <2>1. Finish(d, "Delivered") BY <1>6 DEF Transmit
  <2> QED BY <1>1, <1>2, <1>4, <1>5, <1>6, <2>1, FinishStep DEF Results
<1>7. CASE tx[d].confirmed
  <2>1. UNCHANGED <<lane, stored, rx, taken, handed, before, acks, next, tx, sent, told>>
    BY <1>2, <1>7 DEF rxVars, txVars, Transmit
  <2>2. /\ task' \in [Devs -> Tasks] /\ task'[d] = "window"
        /\ \A e \in Devs \ {d} : task'[e] = task[e]
    BY <1>1, <1>7 DEF Shapes, Tasks, Transmit, Goto
  <2>3. Shapes' BY <1>1, <1>2, <1>5, <2>1, <2>2 DEF Shapes, Counters, MaxCounter
  <2>4. SendInv(d)' BY <1>1, <1>2, <1>7, <2>1, <2>2 DEF SendInv, Active, MaxCounter
  <2>5. Went(d) = tx[d].attempt /\ Went(d)' = tx[d].attempt + 1 BY <1>2, <2>1, <2>2 DEF Went
  <2>6. ReackInv(d)'
    <3>1. lane[Peer(d)].reacks \in Nat BY <1>1, DeviceShape
    <3> QED BY <1>1, <1>2, <1>3, <2>1, <2>5, <3>1 DEF ReackInv, Replays, Data
  <2>7. \A f \in air' : f.src = d => FrameInv(f)'
    <3> SUFFICES ASSUME NEW f \in air', f.src = d PROVE FrameInv(f)'
      OBVIOUS
    <3>1. Went(d)' >= 1 BY <1>3, <2>5
    <3>2. CASE f \in air
      <4>1. FrameInv(f) BY <3>2 DEF LinkInv
      <4> QED BY <1>2, <2>1, <3>1, <4>1 DEF FrameInv, Data
    <3>3. CASE f = g
      <4>1. tx[d].counter \in sent[d] BY <1>1, <1>2 DEF SendInv
      <4>2. f.kind = "data" /\ f.counter = tx[d].counter /\ f.confirmed
            /\ f = Data(f.src, f.counter, f.confirmed)
        BY <1>4, <1>7, <3>3 DEF Data
      <4> QED BY <2>1, <3>1, <4>1, <4>2 DEF FrameInv, Data
    <3> QED BY <1>5, <3>2, <3>3
  <2>8. told'[d] \subseteq taken[Peer(d)] BY <1>1, <2>1 DEF TakeInv
  <2>9. \A f \in air' : f \in air \/ f.src = d BY <1>4, <1>5 DEF Data
  <2> QED BY <1>2, <2>1, <2>2, <2>3, <2>4, <2>6, <2>7, <2>8, <2>9, SenderFrame
<1> QED BY <1>3, <1>6, <1>7

\* The other ends of a repetition: only an ACK of the transfer reports it
\* delivered, and an ACK names what its sender took.
LEMMA SenderStep ==
  ASSUME LinkInv, NEW d \in Devs, UNCHANGED world,
         \/ DutyRefuses(d) \/ RadioFails(d) \/ Busy(d) \/ WindowElapses(d)
         \/ \E f \in air : HearAck(d, f)
  PROVE  LinkInv'
<1>1. Shapes /\ air \subseteq Frames /\ tx[d].result \in Results
      /\ tx[d].counter \in Nat /\ tx[d].confirmed \in BOOLEAN
  BY DeviceShape DEF LinkInv, Shapes
<1>2. Data(d, tx[d].counter, tx[d].confirmed) \in Frames BY <1>1 DEF Data, Frames
<1>3. CASE DutyRefuses(d) BY <1>1, <1>3, FinishStep DEF DutyRefuses, Active, Results
<1>4. CASE RadioFails(d)
  <2>1. Finish(d, "Error") /\ Active(d) /\ UNCHANGED <<crashes, rxVars>> BY <1>4 DEF RadioFails, Active
  <2>2. air' \subseteq Frames
        /\ \A f \in air' : f \in air \/ f = Data(d, tx[d].counter, tx[d].confirmed)
    BY <1>1, <1>2, <1>4 DEF RadioFails
  <2> QED BY <2>1, <2>2, FinishStep DEF Results
<1>5. CASE Busy(d) BY <1>5, NextRepStep DEF Busy, Active, Results
<1>6. CASE WindowElapses(d)
  <2>1. Active(d) /\ SendInv(d) BY <1>6 DEF WindowElapses, Active, LinkInv
  <2>2. tx[d].result # "Delivered" BY <2>1 DEF SendInv
  <2> QED BY <1>1, <1>6, <2>1, <2>2, NextRepStep DEF WindowElapses
<1>7. ASSUME NEW f \in air, HearAck(d, f)
      PROVE  LinkInv'
  <2>1. Finish(d, "Delivered") /\ Active(d) /\ UNCHANGED <<crashes, rxVars>> /\ air' \subseteq air
    BY <1>7 DEF HearAck, Active, Heard
  <2>2. FrameInv(f) /\ f.kind = "ack" /\ f.src = Peer(d) /\ f.acked = tx[d].counter
    BY <1>7 DEF HearAck, Resolves, LinkInv
  <2>3. tx[d].counter \in taken[Peer(d)] BY <2>2 DEF FrameInv
  <2> QED BY <1>1, <2>1, <2>3, FinishStep DEF Results
<1> QED BY <1>3, <1>4, <1>5, <1>6, <1>7

-----------------------------------------------------------------------------
(***************************************************************************)
(* Receiving                                                               *)
(***************************************************************************)

\* A step of device d as a receiver: what is left to show is its own, and how
\* its peer's transfer sees its lane.
LEMMA ReceiverFrame ==
  ASSUME LinkInv, NEW d \in Devs, UNCHANGED <<world, sent, told>>, Shapes',
         \A e \in Devs \ {d} :
           /\ task'[e] = task[e] /\ next'[e] = next[e] /\ tx'[e] = tx[e] /\ lane'[e] = lane[e]
           /\ stored'[e] = stored[e] /\ rx'[e] = rx[e] /\ taken'[e] = taken[e]
           /\ handed'[e] = handed[e] /\ before'[e] = before[e] /\ acks'[e] = acks[e],
         ~Active(d)', taken[d] \subseteq taken'[d],
         \A f \in air' : f \in air \/ FrameInv(f)',
         SendInv(d)', TakeInv(d)', HandInv(d)', AckInv(d)', ReackInv(Peer(d))'
  PROVE  LinkInv'
<1>1. Shapes /\ Peer(d) \in Devs /\ Peer(d) # d /\ Peer(Peer(d)) = d BY PeerFacts DEF LinkInv
<1>2. ReackInv(d)' BY DEF ReackInv
<1>3. ASSUME NEW e \in Devs, e # d
      PROVE  SendInv(e)' /\ TakeInv(e)' /\ HandInv(e)' /\ AckInv(e)' /\ ReackInv(e)'
  <2>1. SendInv(e) /\ TakeInv(e) /\ HandInv(e) /\ AckInv(e) BY DEF LinkInv
  <2>2. SendInv(e)' BY <1>3, <2>1, SendKept
  <2>3. TakeInv(e)'
    <3>1. told'[Peer(e)] \subseteq taken[e] BY <2>1 DEF TakeInv
    <3> QED BY <1>3, <2>1, <3>1, TakeKept
  <2>4. HandInv(e)' BY <1>3, <2>1, HandKept
  <2>5. AckInv(e)' BY <1>1, <1>3, <2>1, AckKept
  <2>6. ReackInv(e)' BY <1>3, PeerFacts
  <2> QED BY <2>2, <2>3, <2>4, <2>5, <2>6
<1>4. ASSUME NEW f \in air, f \in air'
      PROVE  FrameInv(f)'
  <2>1. FrameInv(f) /\ f.src \in Devs BY <1>1 DEF LinkInv, Shapes, Frames
  <2>2. CASE f.src = d BY <2>1, <2>2 DEF FrameInv, Data
  <2>3. CASE f.src # d BY <2>1, <2>3, FrameKept
  <2> QED BY <2>2, <2>3
<1> QED BY <1>2, <1>3, <1>4 DEF LinkInv

\* A step that only takes frames off the air, or nothing at all.
LEMMA AirShrinks ==
  ASSUME LinkInv, air' \subseteq air, UNCHANGED <<world, task, crashes, txVars, rxVars>>
  PROVE  LinkInv'
<1>1. UNCHANGED <<world, task, crashes, next, tx, sent, told, lane, stored, rx, taken, handed, before,
                  acks>>
      /\ air' \subseteq air
  BY DEF txVars, rxVars
<1>2. Shapes /\ Shapes' BY <1>1 DEF LinkInv, Shapes, Counters, MaxCounter
<1>3. ASSUME NEW d \in Devs
      PROVE  SendInv(d)' /\ TakeInv(d)' /\ HandInv(d)' /\ AckInv(d)' /\ ReackInv(d)'
  <2>1. SendInv(d) /\ TakeInv(d) /\ HandInv(d) /\ AckInv(d) /\ ReackInv(d) BY DEF LinkInv
  <2>2. SendInv(d)' BY <1>1, <2>1, SendKept
  <2>3. TakeInv(d)' BY <1>1, <2>1 DEF TakeInv
  <2>4. HandInv(d)' BY <1>1, <2>1, HandKept
  <2>5. AckInv(d)' BY <1>1, <1>2, <2>1, AckKept
  <2>6. ReackInv(d)' BY <1>1, <1>2, <2>1, ReackKept
  <2> QED BY <2>2, <2>3, <2>4, <2>5, <2>6
<1>4. \A g \in air' : FrameInv(g)'
  <2> SUFFICES ASSUME NEW g \in air' PROVE FrameInv(g)'
    OBVIOUS
  <2>1. g \in air /\ FrameInv(g) BY <1>1 DEF LinkInv
  <2> QED BY <1>1, <2>1, FrameKept
<1> QED BY <1>2, <1>3, <1>4 DEF LinkInv

\* A reset: the lane restarts from the record, which with a write on every
\* accept is the mark itself.
LEMMA CrashStep ==
  ASSUME LinkInv, NEW d \in Devs, Crash(d), UNCHANGED world
  PROVE  LinkInv'
<1>1. Shapes /\ SendInv(d) /\ TakeInv(d) /\ HandInv(d) /\ Peer(d) \in Devs /\ Peer(Peer(d)) = d
      /\ Peer(d) # d
  BY PeerFacts DEF LinkInv
<1>2. UNCHANGED <<next, air, stored, sent, told, taken>> /\ crashes' = crashes + 1
      /\ crashes < world.crashes
  BY DEF Crash
<1>3. Counters' = Counters /\ MaxCounter' = MaxCounter /\ MaxCounter \in Nat \ {0} /\ world.crashes \in Nat
  BY <1>1, WorldFacts DEF Counters, MaxCounter
<1>4. stored[d] \in Nat /\ next[d] \in Nat BY <1>1, DeviceShape
<1>5. /\ task' \in [Devs -> Tasks] /\ task'[d] = "idle"
      /\ \A e \in Devs \ {d} : task'[e] = task[e]
  BY <1>1 DEF Shapes, Tasks, Crash, Goto
<1>6. /\ tx' \in [Devs -> Transfers] /\ tx'[d] = NoTransfer
      /\ \A e \in Devs \ {d} : tx'[e] = tx[e]
  <2>1. NoTransfer \in Transfers BY DEF NoTransfer, Transfers, Results
  <2>2. tx \in [Devs -> Transfers] /\ tx' = [tx EXCEPT ![d] = NoTransfer]
    BY <1>1 DEF Shapes, Transfers, Crash
  <2> QED BY <2>1, <2>2
<1>7. /\ rx' \in [Devs -> [counter : Nat, fresh : BOOLEAN]] /\ rx'[d] = NoFrame
      /\ \A e \in Devs \ {d} : rx'[e] = rx[e]
  <2>1. NoFrame \in [counter : Nat, fresh : BOOLEAN] BY DEF NoFrame
  <2>2. rx \in [Devs -> [counter : Nat, fresh : BOOLEAN]] /\ rx' = [rx EXCEPT ![d] = NoFrame]
    BY <1>1 DEF Shapes, Crash
  <2> QED BY <2>1, <2>2
<1>8. /\ lane' \in [Devs -> [seen : Nat, accepts : Nat, reacks : Nat]]
      /\ lane'[d].seen = stored[d] /\ lane'[d].accepts = 0 /\ lane'[d].reacks = 0
      /\ \A e \in Devs \ {d} : lane'[e] = lane[e]
  <2>1. lane \in [Devs -> [seen : Nat, accepts : Nat, reacks : Nat]]
        /\ lane' = [lane EXCEPT ![d] = [seen |-> stored[d], accepts |-> 0, reacks |-> 0]]
    BY <1>1 DEF Shapes, Crash, NewLane
  <2> QED BY <1>4, <2>1
<1>9. /\ handed' \in [Devs -> Seq(Nat)] /\ handed'[d] = <<>>
      /\ \A e \in Devs \ {d} : handed'[e] = handed[e]
  <2>1. handed \in [Devs -> Seq(Nat)] /\ handed' = [handed EXCEPT ![d] = <<>>] BY <1>1 DEF Shapes, Crash
  <2>2. <<>> \in Seq(Nat)
    OBVIOUS
  <2> QED BY <2>1, <2>2
<1>10. /\ before' \in [Devs -> SUBSET Nat]
       /\ before'[d] = before[d] \cup {handed[d][i] : i \in DOMAIN handed[d]}
       /\ \A e \in Devs \ {d} : before'[e] = before[e]
  <2>1. handed[d] \in Seq(Nat) BY <1>1, DeviceShape
  <2>2. {handed[d][i] : i \in DOMAIN handed[d]} \subseteq Nat BY <2>1
  <2>3. PICK H : H = {handed[d][i] : i \in DOMAIN handed[d]}
    OBVIOUS
  <2>4. before \in [Devs -> SUBSET Nat] /\ before' = [before EXCEPT ![d] = @ \cup H]
    BY <1>1, <2>3 DEF Shapes, Crash
  <2>5. /\ before' \in [Devs -> SUBSET Nat] /\ before'[d] = before[d] \cup H
        /\ \A e \in Devs \ {d} : before'[e] = before[e]
    BY <2>2, <2>3, <2>4
  <2> QED BY <2>3, <2>5
<1>11. /\ acks' \in [Devs -> [Counters -> Nat]] /\ \A c \in Counters : acks'[d][c] = 0
       /\ \A e \in Devs \ {d} : acks'[e] = acks[e]
  <2>1. PICK z : z = [c \in Counters |-> 0]
    OBVIOUS
  <2>2. z \in [Counters -> Nat] /\ \A c \in Counters : z[c] = 0 BY <2>1
  <2>3. acks \in [Devs -> [Counters -> Nat]] /\ acks' = [acks EXCEPT ![d] = z]
    BY <1>1, <2>1 DEF Shapes, Crash
  <2> QED BY <2>2, <2>3
<1>12. Shapes'
  <2>1. crashes \in Nat /\ world \in Worlds /\ next \in [Devs -> Nat] /\ air \subseteq Frames
        /\ stored \in [Devs -> Nat] /\ sent \in [Devs -> SUBSET Nat]
        /\ told \in [Devs -> SUBSET Nat] /\ taken \in [Devs -> SUBSET Nat]
    BY <1>1 DEF Shapes
  <2>2. crashes' \in Nat /\ crashes' <= world.crashes BY <1>2, <1>3, <2>1
  <2>3. crashes' \in Nat /\ crashes' <= world'.crashes BY <2>2
  <2> QED BY <1>2, <1>3, <1>5, <1>6, <1>7, <1>8, <1>9, <1>10, <1>11, <2>1, <2>3 DEF Shapes, Transfers
<1>13. ~Active(d)' BY <1>5 DEF Active
<1>14. SendInv(d)' BY <1>1, <1>2, <1>3, <1>4, <1>5, <1>6, <1>13, LinkAssumption DEF SendInv, NoTransfer
<1>15. TakeInv(d)' BY <1>1, <1>2, <1>4, <1>5, <1>7, <1>8, LinkAssumption DEF TakeInv, MaxReacks
<1>16. HandInv(d)'
  <2>1. ~rx'[d].fresh BY <1>7 DEF NoFrame
  <2>2. P = 1 => \A c \in before'[d] : c <= lane'[d].seen BY <1>1, <1>8, <1>10 DEF HandInv, TakeInv
  <2> QED BY <1>9, <2>1, <2>2 DEF HandInv
<1>17. AckInv(d)' BY <1>3, <1>4, <1>5, <1>8, <1>11, LinkAssumption DEF AckInv, Counters
<1>18. ReackInv(Peer(d))'
  <2>1. ReackInv(Peer(d)) /\ TakeInv(d) /\ SendInv(Peer(d)) BY <1>1 DEF LinkInv
  <2> SUFFICES ASSUME Active(Peer(d)), ~Replays, stored[d] = tx[Peer(d)].counter
               PROVE  0 + (IF Data(Peer(d), tx[Peer(d)].counter, TRUE) \in air THEN 2 ELSE 1)
                      <= Went(Peer(d))
    BY <1>1, <1>2, <1>5, <1>6, <1>8 DEF ReackInv, Active, Went, Replays, Data
  <2>2. lane[d].seen \in Nat /\ lane[d].reacks \in Nat /\ tx[Peer(d)].counter \in Nat
        /\ Went(Peer(d)) \in Nat
    BY <1>1, DeviceShape DEF Went
  <2>3. lane[d].seen = tx[Peer(d)].counter BY <1>1, <1>4, <2>1, <2>2 DEF SendInv, TakeInv
  <2>4. lane[d].reacks + (IF Data(Peer(d), tx[Peer(d)].counter, TRUE) \in air THEN 2 ELSE 1)
        <= Went(Peer(d))
    BY <1>1, <2>1, <2>3 DEF ReackInv
  <2>5. PICK k \in {1, 2} : k = IF Data(Peer(d), tx[Peer(d)].counter, TRUE) \in air THEN 2 ELSE 1
    OBVIOUS
  <2>6. lane[d].reacks + k <= Went(Peer(d)) BY <2>4, <2>5
  <2>7. 0 + k <= Went(Peer(d)) BY <2>2, <2>6
  <2> QED BY <2>5, <2>7
<1> QED BY <1>2, <1>5, <1>6, <1>7, <1>8, <1>9, <1>10, <1>11, <1>12, <1>13, <1>14, <1>15, <1>16, <1>17,
     <1>18, ReceiverFrame

Lanes == [seen : Nat, accepts : Nat, reacks : Nat]

\* A fresh transfer: above all that was taken and, where nothing is replayed,
\* gone from the air, which pays for the ACK.
LEMMA FreshStep ==
  ASSUME LinkInv, NEW d \in Devs, NEW f \in air, RecvFresh(d, f), UNCHANGED world
  PROVE  LinkInv'
<1> DEFINE e == Peer(d)
<1>1. Shapes /\ SendInv(d) /\ TakeInv(d) /\ HandInv(d) /\ AckInv(d) /\ e \in Devs /\ Peer(e) = d
      /\ e # d /\ SendInv(e)
  BY PeerFacts DEF LinkInv
<1>2. UNCHANGED <<handed, before, acks, crashes, next, tx, sent, told>> BY DEF RecvFresh, txVars
<1>3. /\ f.kind = "data" /\ f.src = e /\ f.counter > lane[d].seen /\ FrameInv(f)
      /\ f.counter \in Nat /\ f.confirmed \in BOOLEAN /\ task[d] = "idle"
  BY <1>1 DEF RecvFresh, IsFresh, LinkInv, Shapes, Frames
<1>4. f.counter \in sent[e] /\ lane[d].seen \in Nat /\ lane[d].accepts \in Nat /\ stored[d] \in Nat
  BY <1>1, <1>3, DeviceShape DEF FrameInv
<1>5. MaxCounter' = MaxCounter /\ Counters' = Counters /\ MaxCounter \in Nat
  BY <1>1, WorldFacts DEF Counters, MaxCounter
<1>6. PICK a : a = (lane[d].accepts + 1) % P
  OBVIOUS
<1>7. a \in Nat /\ a < P /\ (P = 1 => a = 0) BY <1>4, <1>6, LinkAssumption
<1>8. /\ lane' \in [Devs -> Lanes] /\ lane'[d].seen = f.counter /\ lane'[d].accepts = a
      /\ lane'[d].reacks = 0 /\ \A b \in Devs \ {d} : lane'[b] = lane[b]
  <2>1. PICK l : l = [seen |-> f.counter, accepts |-> a, reacks |-> 0]
    OBVIOUS
  <2>2. l \in Lanes /\ l.seen = f.counter /\ l.accepts = a /\ l.reacks = 0 BY <1>3, <1>7, <2>1 DEF Lanes
  <2>3. lane \in [Devs -> Lanes] /\ lane' = [lane EXCEPT ![d] = l]
    BY <1>1, <1>6, <2>1 DEF Shapes, Lanes, RecvFresh, Accept
  <2> QED BY <2>2, <2>3
<1>9. /\ stored' \in [Devs -> Nat] /\ stored'[d] = IF a = 0 THEN f.counter ELSE stored[d]
      /\ \A b \in Devs \ {d} : stored'[b] = stored[b]
  <2>1. stored \in [Devs -> Nat]
        /\ stored' = [stored EXCEPT ![d] = IF a = 0 THEN f.counter ELSE @]
    BY <1>1, <1>6 DEF Shapes, RecvFresh, Recorded
  <2> QED BY <1>3, <2>1
<1>10. /\ taken' \in [Devs -> SUBSET Nat] /\ taken'[d] = taken[d] \cup {f.counter}
       /\ \A b \in Devs \ {d} : taken'[b] = taken[b]
  <2>1. taken \in [Devs -> SUBSET Nat] /\ taken' = [taken EXCEPT ![d] = @ \cup {f.counter}]
    BY <1>1 DEF Shapes, RecvFresh
  <2> QED BY <1>3, <2>1
<1>11. /\ rx' \in [Devs -> [counter : Nat, fresh : BOOLEAN]]
       /\ rx'[d].counter = f.counter /\ rx'[d].fresh
       /\ \A b \in Devs \ {d} : rx'[b] = rx[b]
  <2>1. PICK g : g = [counter |-> f.counter, fresh |-> TRUE]
    OBVIOUS
  <2>2. g \in [counter : Nat, fresh : BOOLEAN] /\ g.counter = f.counter /\ g.fresh BY <1>3, <2>1
  <2>3. rx \in [Devs -> [counter : Nat, fresh : BOOLEAN]] /\ rx' = [rx EXCEPT ![d] = g]
    BY <1>1, <2>1 DEF Shapes, RecvFresh
  <2> QED BY <2>2, <2>3
<1>12. /\ task' \in [Devs -> Tasks] /\ task'[d] \in {"acking", "handing"}
       /\ \A b \in Devs \ {d} : task'[b] = task[b]
  BY <1>1 DEF Shapes, Tasks, RecvFresh, Goto
<1>13. air' \subseteq air /\ (~Replays => f \notin air') BY DEF RecvFresh, Heard
<1>14. Shapes'
  <2>1. air \subseteq Frames /\ crashes \in Nat /\ crashes <= world.crashes BY <1>1 DEF Shapes
  <2> QED BY <1>1, <1>2, <1>5, <1>8, <1>9, <1>10, <1>11, <1>12, <1>13, <2>1 DEF Shapes, Lanes
<1>15. ~Active(d)' /\ ~Active(d) BY <1>3, <1>12 DEF Active
<1>16. SendInv(d)' BY <1>1, <1>2, <1>5, <1>12, <1>15 DEF SendInv
<1>17. TakeInv(d)'
  <2>1. taken[d] \subseteq sent[e] /\ told[e] \subseteq taken[d] /\ stored[d] \in taken[d] \cup {0}
        /\ stored[d] <= lane[d].seen
    BY <1>1 DEF TakeInv
  <2>2. 0 <= MaxReacks BY LinkAssumption DEF MaxReacks
  <2>3. stored'[d] <= lane'[d].seen /\ (P = 1 => stored'[d] = lane'[d].seen)
    BY <1>3, <1>4, <1>7, <1>8, <1>9, <2>1
  <2> QED
    BY <1>1, <1>2, <1>4, <1>7, <1>8, <1>9, <1>10, <1>11, <1>12, <2>1, <2>2, <2>3 DEF TakeInv, MaxReacks
<1>18. HandInv(d)'
  <2>1. handed[d] \in Seq(Nat) /\ before[d] \subseteq Nat BY <1>1, DeviceShape
  <2>2. \A i \in DOMAIN handed[d] : handed[d][i] \in Nat BY <2>1
  <2>3. \A i \in DOMAIN handed[d] : handed[d][i] <= lane[d].seen BY <1>1 DEF HandInv
  <2>4. \A i \in DOMAIN handed[d] : handed[d][i] < f.counter BY <1>3, <1>4, <2>2, <2>3
  <2>5. P = 1 => \A c \in before[d] : c < f.counter BY <1>1, <1>3, <1>4, <2>1 DEF HandInv
  <2>6. \A i \in DOMAIN handed[d] : handed[d][i] <= f.counter BY <1>3, <2>2, <2>4
  <2>7. P = 1 => \A c \in before[d] : c <= f.counter BY <1>3, <2>1, <2>5
  <2> QED BY <1>1, <1>2, <1>8, <1>10, <2>4, <2>5, <2>6, <2>7 DEF HandInv
<1>19. AckInv(d)'
  <2> SUFFICES ASSUME NEW c \in Counters
               PROVE  /\ acks'[d][c] <= Reps
                      /\ c > lane'[d].seen => acks'[d][c] = 0
                      /\ c = lane'[d].seen =>
                           acks'[d][c] + (IF task'[d] = "acking" THEN 1 ELSE 0) <= lane'[d].reacks + 1
    BY <1>5 DEF AckInv
  <2>1. c \in Nat BY <1>5 DEF Counters
  <2>2. acks[d][c] <= Reps /\ (c > lane[d].seen => acks[d][c] = 0) BY <1>1 DEF AckInv
  <2> QED BY <1>2, <1>3, <1>4, <1>8, <2>1, <2>2
<1>20. ReackInv(e)'
  <2> SUFFICES ASSUME Active(e), ~Replays, f.counter = tx[e].counter
               PROVE  0 + (IF Data(e, tx[e].counter, TRUE) \in air' THEN 2 ELSE 1) <= Went(e)
    BY <1>1, <1>2, <1>8, <1>12 DEF ReackInv, Active, Went, Replays, Data
  <2>1. f = Data(e, tx[e].counter, TRUE) /\ Went(e) >= 1 BY <1>3 DEF FrameInv, Data
  <2> QED BY <1>13, <2>1
<1>21. \A b \in Devs \ {d} :
         /\ task'[b] = task[b] /\ next'[b] = next[b] /\ tx'[b] = tx[b] /\ lane'[b] = lane[b]
         /\ stored'[b] = stored[b] /\ rx'[b] = rx[b] /\ taken'[b] = taken[b]
         /\ handed'[b] = handed[b] /\ before'[b] = before[b] /\ acks'[b] = acks[b]
  BY <1>2, <1>8, <1>9, <1>10, <1>11, <1>12
<1>22. taken[d] \subseteq taken'[d] /\ UNCHANGED <<world, sent, told>>
       /\ \A g \in air' : g \in air \/ FrameInv(g)'
  BY <1>2, <1>10, <1>13
<1> HIDE DEF e
<1>23. e = Peer(d) BY DEF e
<1> QED BY <1>14, <1>15, <1>16, <1>17, <1>18, <1>19, <1>20, <1>21, <1>22, <1>23, ReceiverFrame

\* A retransmit: re-ACKed within the allowance, or dropped.
LEMMA RetransmitStep ==
  ASSUME LinkInv, NEW d \in Devs, NEW f \in air, RecvRetransmit(d, f), UNCHANGED world
  PROVE  LinkInv'
<1>1. Shapes /\ SendInv(d) /\ TakeInv(d) /\ HandInv(d) /\ AckInv(d)
      /\ Peer(d) \in Devs /\ Peer(Peer(d)) = d /\ Peer(d) # d /\ SendInv(Peer(d)) /\ ReackInv(Peer(d))
  BY PeerFacts DEF LinkInv
<1>2. UNCHANGED <<stored, taken, handed, before, acks, crashes, next, tx, sent, told>>
  BY DEF RecvRetransmit, txVars
<1>3. /\ f.kind = "data" /\ f.src = Peer(d) /\ f.counter = lane[d].seen /\ f.confirmed /\ FrameInv(f)
      /\ f.counter \in Nat /\ task[d] = "idle"
  BY <1>1 DEF RecvRetransmit, LinkInv, Shapes, Frames
<1>4. air' \subseteq air /\ (~Replays => f \notin air') BY DEF RecvRetransmit, Heard
<1>5. CASE ~MayReack(lane[d])
  <2>1. UNCHANGED <<lane, rx, task>> BY <1>5 DEF RecvRetransmit
  <2> QED BY <1>2, <1>4, <2>1, AirShrinks DEF txVars, rxVars
<1>6. CASE MayReack(lane[d])
  <2>1. lane[d].seen \in Nat /\ lane[d].accepts \in Nat /\ lane[d].reacks \in Nat
        /\ lane[d].reacks < MaxReacks /\ MaxReacks \in Nat
    BY <1>1, <1>6, DeviceShape, LinkAssumption, SMTT(30) DEF MayReack, MaxReacks
  <2>2. MaxCounter' = MaxCounter /\ Counters' = Counters /\ MaxCounter \in Nat
    BY <1>1, WorldFacts DEF Counters, MaxCounter
  <2>3. /\ lane' \in [Devs -> Lanes] /\ lane'[d].seen = lane[d].seen
        /\ lane'[d].accepts = lane[d].accepts /\ lane'[d].reacks = lane[d].reacks + 1
        /\ \A b \in Devs \ {d} : lane'[b] = lane[b]
    <3>1. lane \in [Devs -> Lanes] /\ lane' = [lane EXCEPT ![d].reacks = @ + 1]
      BY <1>1, <1>6 DEF Shapes, Lanes, RecvRetransmit
    <3>2. lane'[d] = [seen |-> lane[d].seen, accepts |-> lane[d].accepts,
                      reacks |-> lane[d].reacks + 1]
      BY <2>1, <3>1 DEF Lanes
    <3>3. lane'[d] \in Lanes BY <2>1, <3>2 DEF Lanes
    <3>4. \A b \in Devs \ {d} : lane'[b] = lane[b] BY <3>1
    <3>5. lane' = [b \in Devs |-> lane'[b]] BY <3>1
    <3>6. lane' \in [Devs -> Lanes] BY <3>1, <3>3, <3>4, <3>5
    <3> QED BY <3>2, <3>4, <3>6
  <2>4. /\ rx' \in [Devs -> [counter : Nat, fresh : BOOLEAN]]
        /\ rx'[d].counter = lane[d].seen /\ ~rx'[d].fresh
        /\ \A b \in Devs \ {d} : rx'[b] = rx[b]
    <3>1. PICK g : g = [counter |-> f.counter, fresh |-> FALSE]
      OBVIOUS
    <3>2. g \in [counter : Nat, fresh : BOOLEAN] /\ g.counter = lane[d].seen /\ ~g.fresh BY <1>3, <3>1
    <3>3. rx \in [Devs -> [counter : Nat, fresh : BOOLEAN]] /\ rx' = [rx EXCEPT ![d] = g]
      BY <1>1, <1>6, <3>1 DEF Shapes, RecvRetransmit
    <3> QED BY <3>2, <3>3
  <2>5. /\ task' \in [Devs -> Tasks] /\ task'[d] = "acking"
        /\ \A b \in Devs \ {d} : task'[b] = task[b]
    BY <1>1, <1>6 DEF Shapes, Tasks, RecvRetransmit, Goto
  <2>6. Shapes'
    <3>1. air \subseteq Frames /\ crashes \in Nat /\ crashes <= world.crashes BY <1>1 DEF Shapes
    <3> QED BY <1>1, <1>2, <1>4, <2>2, <2>3, <2>4, <2>5, <3>1 DEF Shapes, Lanes
  <2>7. ~Active(d)' /\ ~Active(d) BY <1>3, <2>5 DEF Active
  <2>8. SendInv(d)' BY <1>1, <1>2, <2>2, <2>5, <2>7 DEF SendInv
  <2>9. TakeInv(d)'
    <3>1. lane[d].seen \in sent[Peer(d)] BY <1>3 DEF FrameInv
    <3>2. lane[d].seen \in taken[d] BY <1>1, <2>1, <3>1 DEF SendInv, TakeInv
    <3>3. lane[d].reacks + 1 <= MaxReacks BY <2>1
    <3> QED BY <1>1, <1>2, <2>1, <2>3, <2>4, <2>5, <3>2, <3>3 DEF TakeInv, MaxReacks
  <2>10. HandInv(d)' BY <1>1, <1>2, <2>3, <2>4, HandKept
  <2>11. AckInv(d)'
    <3> SUFFICES ASSUME NEW c \in Counters
                 PROVE  /\ acks'[d][c] <= Reps
                        /\ c > lane'[d].seen => acks'[d][c] = 0
                        /\ c = lane'[d].seen =>
                             acks'[d][c] + (IF task'[d] = "acking" THEN 1 ELSE 0)
                             <= lane'[d].reacks + 1
      BY <2>2 DEF AckInv
    <3>1. acks[d][c] \in Nat BY <1>1, DeviceShape
    <3>2. /\ acks[d][c] <= Reps /\ (c > lane[d].seen => acks[d][c] = 0)
          /\ c = lane[d].seen => acks[d][c] <= lane[d].reacks + 1
      BY <1>1, <1>3, <3>1 DEF AckInv
    <3> QED BY <1>2, <2>1, <2>3, <2>5, <3>1, <3>2
  <2>12. ReackInv(Peer(d))'
    <3> SUFFICES ASSUME Active(Peer(d)), ~Replays, lane[d].seen = tx[Peer(d)].counter
                 PROVE  lane[d].reacks + 1
                        + (IF Data(Peer(d), tx[Peer(d)].counter, TRUE) \in air' THEN 2 ELSE 1)
                        <= Went(Peer(d))
      BY <1>1, <1>2, <2>3, <2>5 DEF ReackInv, Active, Went, Replays, Data
    <3>1. f = Data(Peer(d), tx[Peer(d)].counter, TRUE) BY <1>3 DEF FrameInv, Data
    <3>2. lane[d].reacks + 2 <= Went(Peer(d)) /\ Went(Peer(d)) \in Nat
      <4>1. Went(Peer(d)) \in Nat BY <1>1, DeviceShape DEF Went
      <4>2. lane[d].reacks + 2 <= Went(Peer(d)) BY <1>1, <3>1 DEF ReackInv
      <4> QED BY <4>1, <4>2
    <3> QED BY <1>4, <2>1, <3>1, <3>2
  <2>13. \A b \in Devs \ {d} :
           /\ task'[b] = task[b] /\ next'[b] = next[b] /\ tx'[b] = tx[b] /\ lane'[b] = lane[b]
           /\ stored'[b] = stored[b] /\ rx'[b] = rx[b] /\ taken'[b] = taken[b]
           /\ handed'[b] = handed[b] /\ before'[b] = before[b] /\ acks'[b] = acks[b]
    BY <1>2, <2>3, <2>4, <2>5
  <2>14. taken[d] \subseteq taken'[d] /\ UNCHANGED <<world, sent, told>>
         /\ \A g \in air' : g \in air \/ FrameInv(g)'
    BY <1>2, <1>4
  <2> QED BY <2>6, <2>7, <2>8, <2>9, <2>10, <2>11, <2>12, <2>13, <2>14, ReceiverFrame
<1> QED BY <1>5, <1>6

\* After an ACK, sent or skipped, a fresh frame goes on to the app.
LEMMA AfterAckFacts ==
  ASSUME Shapes, NEW d \in Devs, task[d] = "acking", AfterAck(d)
  PROVE  /\ rx' \in [Devs -> [counter : Nat, fresh : BOOLEAN]]
         /\ rx'[d] = IF rx[d].fresh THEN rx[d] ELSE NoFrame
         /\ task' \in [Devs -> Tasks] /\ task'[d] = IF rx[d].fresh THEN "handing" ELSE "idle"
         /\ \A b \in Devs \ {d} : rx'[b] = rx[b] /\ task'[b] = task[b]
<1>1. rx \in [Devs -> [counter : Nat, fresh : BOOLEAN]] /\ task \in [Devs -> Tasks] BY DEF Shapes
<1>2. NoFrame \in [counter : Nat, fresh : BOOLEAN] BY DEF NoFrame
<1>3. rx[d].fresh \in BOOLEAN BY DeviceShape
<1>4. CASE rx[d].fresh
  <2>1. rx' = rx /\ task' = [task EXCEPT ![d] = "handing"] BY <1>4 DEF AfterAck, Goto
  <2> QED BY <1>1, <1>4, <2>1 DEF Tasks
<1>5. CASE ~rx[d].fresh
  <2>1. rx' = [rx EXCEPT ![d] = NoFrame] /\ task' = [task EXCEPT ![d] = "idle"] BY <1>5 DEF AfterAck, Goto
  <2>2. task' \in [Devs -> Tasks] /\ task'[d] = "idle" /\ \A b \in Devs \ {d} : task'[b] = task[b]
    BY <1>1, <2>1 DEF Tasks
  <2> QED BY <1>1, <1>2, <1>5, <2>1, <2>2
<1> QED BY <1>3, <1>4, <1>5

\* The parts an ACK, sent or skipped, has in common.
LEMMA AckCommon ==
  ASSUME LinkInv, NEW d \in Devs, task[d] = "acking", AfterAck(d),
         UNCHANGED <<world, tx, sent, told, lane, stored, taken, handed, before>>
  PROVE  /\ ~Active(d) /\ ~Active(d)' /\ TakeInv(d)' /\ HandInv(d)' /\ task'[d] # "acking"
         /\ task'[Peer(d)] = task[Peer(d)]
<1>1. Shapes /\ TakeInv(d) /\ HandInv(d) /\ Peer(d) \in Devs /\ Peer(d) # d BY PeerFacts DEF LinkInv
<1>2. rx[d].fresh \in BOOLEAN BY <1>1, DeviceShape
<1>3. /\ rx'[d] = IF rx[d].fresh THEN rx[d] ELSE NoFrame
      /\ task'[d] = IF rx[d].fresh THEN "handing" ELSE "idle"
      /\ \A b \in Devs \ {d} : rx'[b] = rx[b] /\ task'[b] = task[b]
  BY <1>1, AfterAckFacts
<1>4. ~Active(d) /\ ~Active(d)' /\ task'[d] # "acking" BY <1>3 DEF Active
<1>5. TakeInv(d)' BY <1>1, <1>2, <1>3 DEF TakeInv
<1>6. HandInv(d)' BY <1>1, <1>3, HandKept DEF NoFrame
<1> QED BY <1>1, <1>3, <1>4, <1>5, <1>6

LEMMA SkipStep ==
  ASSUME LinkInv, NEW d \in Devs, SkipAck(d), UNCHANGED world
  PROVE  LinkInv'
<1>1. UNCHANGED <<air, lane, stored, taken, handed, before, acks, crashes, next, tx, sent, told>>
      /\ task[d] = "acking" /\ AfterAck(d)
  BY DEF SkipAck, txVars
<1>2. Shapes /\ SendInv(d) /\ AckInv(d) /\ ReackInv(Peer(d)) /\ Peer(d) \in Devs /\ Peer(Peer(d)) = d
  BY PeerFacts DEF LinkInv
<1>3. Shapes' BY <1>1, <1>2, AfterAckFacts DEF Shapes, Counters, MaxCounter
<1>4. ~Active(d)' /\ TakeInv(d)' /\ HandInv(d)' /\ task'[d] # "acking"
      /\ task'[Peer(d)] = task[Peer(d)]
  BY <1>1, AckCommon
<1>5. SendInv(d)' BY <1>1, <1>2, <1>4 DEF SendInv, Active, MaxCounter
<1>6. AckInv(d)' BY <1>1, <1>2, <1>4, AckKept
<1>7. ReackInv(Peer(d))' BY <1>1, <1>2, <1>4, ReackKept
<1>8. \A b \in Devs \ {d} : rx'[b] = rx[b] /\ task'[b] = task[b] BY <1>1, <1>2, AfterAckFacts
<1> QED BY <1>1, <1>3, <1>4, <1>5, <1>6, <1>7, <1>8, ReceiverFrame

\* An ACK names what its sender took, and is one of the allowance.
LEMMA AckStep ==
  ASSUME LinkInv, NEW d \in Devs, SendAck(d), UNCHANGED world
  PROVE  LinkInv'
<1>1. UNCHANGED <<lane, stored, taken, handed, before, crashes, tx, sent, told>>
      /\ task[d] = "acking" /\ AfterAck(d)
  BY DEF SendAck
<1>2. Shapes /\ SendInv(d) /\ TakeInv(d) /\ AckInv(d) /\ ReackInv(Peer(d)) /\ SendInv(Peer(d))
      /\ Peer(d) \in Devs /\ Peer(Peer(d)) = d /\ Peer(d) # d
  BY PeerFacts DEF LinkInv
<1>3. next[d] \in Nat /\ next[d] <= MaxCounter /\ MaxCounter \in Nat /\ rx[d].counter \in Nat
      /\ lane[d].reacks \in Nat /\ next[Peer(d)] \in Nat
  BY <1>2, DeviceShape, WorldFacts DEF SendAck, Locked
<1>4. rx[d].counter = lane[d].seen /\ rx[d].counter \in taken[d] /\ taken[d] \subseteq sent[Peer(d)]
  BY <1>1, <1>2 DEF TakeInv
<1>5. rx[d].counter \in Counters BY <1>2, <1>3, <1>4 DEF SendInv, Counters
<1>6. MaxCounter' = MaxCounter /\ Counters' = Counters BY DEF MaxCounter, Counters
<1>7. /\ next' \in [Devs -> Nat] /\ next'[d] = next[d] + 1
      /\ \A b \in Devs \ {d} : next'[b] = next[b]
  <2>1. next \in [Devs -> Nat] /\ next' = [next EXCEPT ![d] = @ + 1] BY <1>2 DEF Shapes, SendAck
  <2> QED BY <1>3, <2>1
<1>8. /\ acks' \in [Devs -> [Counters -> Nat]]
      /\ \A c \in Counters : acks'[d][c] = IF c = rx[d].counter THEN acks[d][c] + 1 ELSE acks[d][c]
      /\ \A b \in Devs \ {d} : acks'[b] = acks[b]
  <2>1. acks \in [Devs -> [Counters -> Nat]] /\ acks' = [acks EXCEPT ![d][rx[d].counter] = @ + 1]
    BY <1>2 DEF Shapes, SendAck
  <2>2. PICK n : n = [acks[d] EXCEPT ![rx[d].counter] = @ + 1]
    OBVIOUS
  <2>3. acks[d] \in [Counters -> Nat] /\ acks[d][rx[d].counter] \in Nat BY <1>5, <2>1
  <2>4. n \in [Counters -> Nat]
        /\ \A c \in Counters : n[c] = IF c = rx[d].counter THEN acks[d][c] + 1 ELSE acks[d][c]
    BY <1>5, <2>2, <2>3
  <2>5. acks' = [acks EXCEPT ![d] = n] BY <2>1, <2>2
  <2> QED BY <2>1, <2>4, <2>5
<1>9. PICK g : g = Ack(d, next[d], rx[d].counter)
  OBVIOUS
<1>10. g \in Frames /\ air' = air \cup {g} /\ g.kind = "ack" /\ g.src = d /\ g.acked = rx[d].counter
  BY <1>3, <1>9 DEF Ack, Frames, SendAck
<1>11. Shapes'
  <2>1. /\ world \in Worlds /\ tx \in [Devs -> Transfers] /\ air \subseteq Frames
        /\ lane \in [Devs -> Lanes] /\ stored \in [Devs -> Nat] /\ sent \in [Devs -> SUBSET Nat]
        /\ told \in [Devs -> SUBSET Nat] /\ taken \in [Devs -> SUBSET Nat]
        /\ before \in [Devs -> SUBSET Nat] /\ handed \in [Devs -> Seq(Nat)]
        /\ crashes \in Nat /\ crashes <= world.crashes
    BY <1>2 DEF Shapes, Transfers, Lanes
  <2>2. rx' \in [Devs -> [counter : Nat, fresh : BOOLEAN]] /\ task' \in [Devs -> Tasks]
    BY <1>1, <1>2, AfterAckFacts
  <2>3. air' \subseteq Frames BY <1>10, <2>1
  <2> QED BY <1>1, <1>6, <1>7, <1>8, <2>1, <2>2, <2>3 DEF Shapes, Transfers, Lanes
<1>12. ~Active(d) /\ ~Active(d)' /\ TakeInv(d)' /\ HandInv(d)' /\ task'[d] # "acking"
       /\ task'[Peer(d)] = task[Peer(d)]
  BY <1>1, AckCommon
<1>13. SendInv(d)'
  <2>1. task'[d] # "window" BY <1>12 DEF Active
  <2>2. tx[d].counter \in Nat /\ sent[d] \subseteq Nat BY <1>2, DeviceShape
  <2> QED BY <1>1, <1>2, <1>3, <1>6, <1>7, <1>12, <2>1, <2>2 DEF SendInv
<1>14. AckInv(d)'
  <2> SUFFICES ASSUME NEW c \in Counters
               PROVE  /\ acks'[d][c] <= Reps
                      /\ c > lane'[d].seen => acks'[d][c] = 0
                      /\ c = lane'[d].seen =>
                           acks'[d][c] + (IF task'[d] = "acking" THEN 1 ELSE 0)
                           <= lane'[d].reacks + 1
    BY <1>6 DEF AckInv
  <2>1. acks[d][c] \in Nat /\ c \in Nat /\ lane[d].seen \in Nat BY <1>2, <1>3, DeviceShape DEF Counters
  <2>2. /\ acks[d][c] <= Reps /\ (c > lane[d].seen => acks[d][c] = 0)
        /\ c = lane[d].seen => acks[d][c] + 1 <= lane[d].reacks + 1
    BY <1>1, <1>2 DEF AckInv
  <2>3. lane[d].reacks + 1 <= Reps BY <1>2, <1>3, LinkAssumption DEF TakeInv, MaxReacks
  <2>4. acks'[d][c] = IF c = lane[d].seen THEN acks[d][c] + 1 ELSE acks[d][c] BY <1>4, <1>8
  <2> QED BY <1>1, <1>3, <1>12, <2>1, <2>2, <2>3, <2>4, LinkAssumption
<1>15. ReackInv(Peer(d))'
  <2>1. Data(Peer(d), tx[Peer(d)].counter, TRUE) \in air'
        => Data(Peer(d), tx[Peer(d)].counter, TRUE) \in air
    BY <1>10 DEF Data
  <2> QED BY <1>1, <1>2, <1>12, <2>1, ReackKept
<1>16. \A b \in Devs \ {d} : rx'[b] = rx[b] /\ task'[b] = task[b] BY <1>1, <1>2, AfterAckFacts
<1>17. \A f \in air' : f \in air \/ FrameInv(f)'
  <2>1. FrameInv(g)' BY <1>1, <1>4, <1>10 DEF FrameInv
  <2> QED BY <1>10, <2>1
<1>18. \A b \in Devs \ {d} :
         /\ task'[b] = task[b] /\ next'[b] = next[b] /\ tx'[b] = tx[b] /\ lane'[b] = lane[b]
         /\ stored'[b] = stored[b] /\ rx'[b] = rx[b] /\ taken'[b] = taken[b]
         /\ handed'[b] = handed[b] /\ before'[b] = before[b] /\ acks'[b] = acks[b]
  BY <1>1, <1>7, <1>8, <1>16
<1>19. taken[d] \subseteq taken'[d] /\ UNCHANGED <<world, sent, told>> BY <1>1
<1> QED BY <1>11, <1>12, <1>13, <1>14, <1>15, <1>17, <1>18, <1>19, ReceiverFrame

\* The app gets the frame at the mark, which lies above all it got before.
LEMMA HandStep ==
  ASSUME LinkInv, NEW d \in Devs, HandUp(d), UNCHANGED world
  PROVE  LinkInv'
<1>1. UNCHANGED <<air, lane, stored, taken, before, acks, crashes, next, tx, sent, told>>
      /\ task[d] = "handing"
  BY DEF HandUp, txVars
<1>2. Shapes /\ SendInv(d) /\ TakeInv(d) /\ HandInv(d) /\ AckInv(d) /\ ReackInv(Peer(d))
      /\ Peer(d) \in Devs /\ Peer(Peer(d)) = d /\ Peer(d) # d
  BY PeerFacts DEF LinkInv
<1>3. rx[d].counter = lane[d].seen /\ rx[d].counter \in taken[d] /\ rx[d].fresh
      /\ rx[d].counter \in Nat
  BY <1>1, <1>2, DeviceShape DEF TakeInv
<1>4. /\ rx' \in [Devs -> [counter : Nat, fresh : BOOLEAN]] /\ rx'[d] = NoFrame
      /\ \A b \in Devs \ {d} : rx'[b] = rx[b]
  <2>1. NoFrame \in [counter : Nat, fresh : BOOLEAN] BY DEF NoFrame
  <2>2. rx \in [Devs -> [counter : Nat, fresh : BOOLEAN]] /\ rx' = [rx EXCEPT ![d] = NoFrame]
    BY <1>2 DEF Shapes, HandUp
  <2> QED BY <2>1, <2>2
<1>5. /\ task' \in [Devs -> Tasks] /\ task'[d] = "idle"
      /\ \A b \in Devs \ {d} : task'[b] = task[b]
  BY <1>2 DEF Shapes, Tasks, HandUp, Goto
<1>6. handed[d] \in Seq(Nat) BY <1>2, DeviceShape
<1>7. PICK n : n = Append(handed[d], lane[d].seen)
  OBVIOUS
<1>8. /\ n \in Seq(Nat) /\ DOMAIN n = 1 .. Len(handed[d]) + 1 /\ n[Len(handed[d]) + 1] = lane[d].seen
      /\ \A i \in 1 .. Len(handed[d]) : n[i] = handed[d][i]
      /\ DOMAIN handed[d] = 1 .. Len(handed[d]) /\ Len(handed[d]) \in Nat
  BY <1>3, <1>6, <1>7
<1>9. /\ handed' \in [Devs -> Seq(Nat)] /\ handed'[d] = n
      /\ \A b \in Devs \ {d} : handed'[b] = handed[b]
  <2>1. handed \in [Devs -> Seq(Nat)] /\ handed' = [handed EXCEPT ![d] = n]
    BY <1>2, <1>3, <1>7 DEF Shapes, HandUp
  <2> QED BY <1>8, <2>1
<1>10. Shapes' BY <1>1, <1>2, <1>4, <1>5, <1>9 DEF Shapes, Counters, MaxCounter
<1>11. ~Active(d)' /\ ~Active(d) BY <1>1, <1>5 DEF Active
<1>12. SendInv(d)' BY <1>1, <1>2, <1>5, <1>11 DEF SendInv, MaxCounter
<1>13. TakeInv(d)' BY <1>1, <1>2, <1>4, <1>5 DEF TakeInv
<1>14. AckInv(d)' BY <1>1, <1>2, <1>5, AckKept
<1>15. ReackInv(Peer(d))' BY <1>1, <1>2, <1>5, ReackKept
<1>16. HandInv(d)'
  <2>1. ~rx'[d].fresh BY <1>4 DEF NoFrame
  <2>2. \A i \in 1 .. Len(handed[d]) :
          /\ n[i] \in taken[d] /\ n[i] < lane[d].seen /\ n[i] <= lane[d].seen
          /\ P = 1 => n[i] \notin before[d]
    BY <1>2, <1>3, <1>8 DEF HandInv
  <2>3. P = 1 => lane[d].seen \notin before[d] BY <1>2, <1>3 DEF HandInv
  <2>4. \A i \in DOMAIN n :
          n[i] \in taken[d] /\ n[i] <= lane[d].seen /\ (P = 1 => n[i] \notin before[d])
    <3> SUFFICES ASSUME NEW i \in 1 .. Len(handed[d]) + 1
                 PROVE  /\ n[i] \in taken[d] /\ n[i] <= lane[d].seen
                        /\ P = 1 => n[i] \notin before[d]
      BY <1>8
    <3>1. CASE i = Len(handed[d]) + 1 BY <1>3, <1>8, <2>3, <3>1
    <3>2. CASE i \in 1 .. Len(handed[d]) BY <2>2, <3>2
    <3> QED BY <1>8, <3>1, <3>2
  <2>5. \A i, j \in DOMAIN n : i < j => n[i] < n[j]
    <3> SUFFICES ASSUME NEW i \in 1 .. Len(handed[d]) + 1, NEW j \in 1 .. Len(handed[d]) + 1, i < j
                 PROVE  n[i] < n[j]
      BY <1>8
    <3>1. i \in 1 .. Len(handed[d]) BY <1>8
    <3>2. CASE j = Len(handed[d]) + 1 BY <1>8, <2>2, <3>1, <3>2
    <3>3. CASE j \in 1 .. Len(handed[d]) BY <1>2, <1>8, <3>1, <3>3 DEF HandInv
    <3> QED BY <1>8, <3>2, <3>3
  <2>6. P = 1 => \A c \in before[d] : c <= lane[d].seen BY <1>2 DEF HandInv
  <2> QED BY <1>1, <1>9, <2>1, <2>4, <2>5, <2>6 DEF HandInv
<1>17. \A b \in Devs \ {d} :
         /\ task'[b] = task[b] /\ next'[b] = next[b] /\ tx'[b] = tx[b] /\ lane'[b] = lane[b]
         /\ stored'[b] = stored[b] /\ rx'[b] = rx[b] /\ taken'[b] = taken[b]
         /\ handed'[b] = handed[b] /\ before'[b] = before[b] /\ acks'[b] = acks[b]
  BY <1>1, <1>4, <1>5, <1>9
<1>18. taken[d] \subseteq taken'[d] /\ UNCHANGED <<world, sent, told>>
       /\ \A f \in air' : f \in air \/ FrameInv(f)'
  BY <1>1
<1> QED BY <1>10, <1>11, <1>12, <1>13, <1>14, <1>15, <1>16, <1>17, <1>18, ReceiverFrame

-----------------------------------------------------------------------------
(***************************************************************************)
(* The invariant, and what it says                                         *)
(***************************************************************************)

LEMMA LinkStep == LinkInv /\ [LinkNext]_linkVars => LinkInv'
<1> SUFFICES ASSUME LinkInv, [LinkNext]_linkVars PROVE LinkInv'
  OBVIOUS
<1>1. CASE UNCHANGED linkVars BY <1>1, AirShrinks DEF linkVars, txVars, rxVars
<1>2. ASSUME NEW d \in Devs, Sender(d)
      PROVE  LinkInv'
  BY <1>2, TransmitStep, SenderStep DEF Sender
<1>3. ASSUME NEW d \in Devs, Receiver(d)
      PROVE  LinkInv'
  BY <1>3, AckStep, SkipStep, HandStep DEF Receiver
<1>4. ASSUME Outside
      PROVE  LinkInv'
  <2>1. UNCHANGED world BY <1>4 DEF Outside
  <2>2. ASSUME NEW d \in Devs, NEW conf \in BOOLEAN, Send(d, conf)
        PROVE  LinkInv'
    BY <2>1, <2>2, SendStep
  <2>3. ASSUME NEW d \in Devs, Crash(d)
        PROVE  LinkInv'
    BY <2>1, <2>3, CrashStep
  <2>4. ASSUME NEW d \in Devs, NEW f \in air, HearAck(d, f)
        PROVE  LinkInv'
    BY <2>1, <2>4, SenderStep
  <2>5. ASSUME NEW d \in Devs, NEW f \in air, RecvFresh(d, f) \/ RecvRetransmit(d, f)
        PROVE  LinkInv'
    BY <2>1, <2>5, FreshStep, RetransmitStep
  <2>6. ASSUME NEW f \in air, LoseFrame(f)
        PROVE  LinkInv'
    BY <2>1, <2>6, AirShrinks DEF LoseFrame, Heard
  <2> QED BY <1>4, <2>2, <2>3, <2>4, <2>5, <2>6 DEF Outside
<1> QED BY <1>1, <1>2, <1>3, <1>4 DEF LinkNext

\* The invariant of the confirmed link: send, await_ack, recv, send_ack and a
\* reset at any point keep it, on any air.
THEOREM LinkInvariant == LinkSpec => []LinkInv
<1> QED BY InitInv, LinkStep, PTL DEF LinkSpec

\* AckWait::offer: a transfer reported Delivered after an ACK was accepted by
\* the other device, whatever ACKs are late, duplicated or recorded, and
\* whichever side was reset.
THEOREM DeliveredWasTaken == LinkSpec => []DeliveredIsTaken
<1>1. LinkInv => DeliveredIsTaken
  <2> SUFFICES ASSUME LinkInv, NEW d \in Devs PROVE told[d] \subseteq taken[Peer(d)] BY DEF DeliveredIsTaken
  <2>1. Peer(d) \in Devs /\ Peer(Peer(d)) = d BY PeerFacts
  <2> QED BY <2>1 DEF LinkInv, TakeInv
<1> QED BY <1>1, LinkInvariant, PTL

\* recv: the app gets each transfer of its peer at most once per boot and in
\* the order sent, never an ACK; with a lane write on every accept, at most
\* once for good.
THEOREM HandedInOrder == LinkSpec => []HandedOnce
<1>1. LinkInv => HandedOnce
  <2> SUFFICES ASSUME LinkInv, NEW d \in Devs
               PROVE  /\ \A i, j \in DOMAIN handed[d] : i < j => handed[d][i] < handed[d][j]
                      /\ \A i \in DOMAIN handed[d] :
                           handed[d][i] \in sent[Peer(d)] /\ (P = 1 => handed[d][i] \notin before[d])
    BY DEF HandedOnce
  <2>1. HandInv(d) /\ TakeInv(d) BY DEF LinkInv
  <2> QED BY <2>1 DEF HandInv, TakeInv
<1> QED BY <1>1, LinkInvariant, PTL

LEMMA InvType == LinkInv => LinkTypeOK
<1> SUFFICES ASSUME LinkInv PROVE LinkTypeOK
  OBVIOUS
<1>1. Shapes /\ MaxCounter \in Nat \ {0} /\ world.crashes \in Nat BY WorldFacts DEF LinkInv
<1>2. ASSUME NEW d \in Devs
      PROVE  /\ next[d] \in 1 .. MaxCounter + 1
             /\ tx[d].counter \in 0 .. MaxCounter /\ tx[d].attempt \in 0 .. Reps - 1
             /\ tx[d].result \in Results
             /\ lane[d].seen \in 0 .. MaxCounter /\ lane[d].reacks \in 0 .. MaxReacks
             /\ lane[d].accepts \in 0 .. P - 1 /\ stored[d] \in 0 .. lane[d].seen
             /\ rx[d].counter \in 0 .. MaxCounter /\ handed[d] \in Seq(Counters)
  <2>1. SendInv(d) /\ TakeInv(d) /\ HandInv(d) /\ SendInv(Peer(d)) /\ Peer(d) \in Devs
    BY PeerFacts DEF LinkInv
  <2>2. /\ next[d] \in Nat /\ tx[d].counter \in Nat /\ tx[d].attempt \in Nat /\ tx[d].result \in Results
        /\ lane[d].seen \in Nat /\ lane[d].accepts \in Nat /\ lane[d].reacks \in Nat
        /\ stored[d] \in Nat /\ rx[d].counter \in Nat /\ handed[d] \in Seq(Nat)
        /\ taken[d] \subseteq Nat /\ next[Peer(d)] \in Nat
    BY <1>1, <2>1, DeviceShape
  <2>3. next[d] \in 1 .. MaxCounter + 1 /\ tx[d].counter \in 0 .. MaxCounter
        /\ tx[d].attempt \in 0 .. Reps - 1
    BY <1>1, <2>1, <2>2, LinkAssumption, SMTT(30) DEF SendInv
  <2>4. \A c \in taken[d] : c \in Counters BY <1>1, <2>1, <2>2 DEF TakeInv, SendInv, Counters
  <2>5. lane[d].seen \in 0 .. MaxCounter BY <1>1, <2>1, <2>2, <2>4 DEF TakeInv, Counters
  <2>6. rx[d].counter \in 0 .. MaxCounter BY <1>1, <2>1, <2>2, <2>4 DEF TakeInv, Counters, NoFrame
  <2>7. lane[d].reacks \in 0 .. MaxReacks /\ lane[d].accepts \in 0 .. P - 1
        /\ stored[d] \in 0 .. lane[d].seen
    BY <2>1, <2>2, LinkAssumption DEF TakeInv, MaxReacks
  <2>8. \A i \in 1 .. Len(handed[d]) : handed[d][i] \in Counters
    <3>1. DOMAIN handed[d] = 1 .. Len(handed[d]) BY <2>2
    <3>2. \A i \in DOMAIN handed[d] : handed[d][i] \in taken[d] BY <2>1 DEF HandInv
    <3> QED BY <2>4, <3>1, <3>2
  <2>9. handed[d] \in Seq(Counters)
    <3>1. Len(handed[d]) \in Nat /\ handed[d] = [i \in 1 .. Len(handed[d]) |-> handed[d][i]] BY <2>2
    <3>2. handed[d] \in [1 .. Len(handed[d]) -> Counters] BY <2>8, <3>1
    <3> QED BY <3>1, <3>2, SeqDef
  <2> QED BY <2>2, <2>3, <2>5, <2>6, <2>7, <2>9
<1>3. /\ task \in [Devs -> Tasks] /\ next \in [Devs -> Nat] /\ crashes \in 0 .. world.crashes
  BY <1>1 DEF Shapes
<1>4. next \in [Devs -> 1 .. MaxCounter + 1] BY <1>2, <1>3
<1> QED BY <1>2, <1>3, <1>4 DEF LinkTypeOK, Tasks, Results

\* reack: no counter draws more than MAX_REPS ACKs in a boot, and where
\* nothing is replayed a sender that is still repeating finds one left.
THEOREM AckBudgetHolds == LinkSpec => []AckBudget
<1>1. LinkInv => AckBudget
  <2> SUFFICES ASSUME LinkInv PROVE AckBudget
    OBVIOUS
  <2>1. \A d \in Devs, c \in Counters : acks[d][c] <= Reps BY DEF LinkInv, AckInv
  <2>2. ASSUME NEW d \in Devs, ~Replays, task[d] = "window", lane[Peer(d)].seen = tx[d].counter,
               Data(d, tx[d].counter, TRUE) \in air
        PROVE  MayReack(lane[Peer(d)])
    <3>1. Shapes /\ SendInv(d) /\ ReackInv(d) /\ Peer(d) \in Devs BY PeerFacts DEF LinkInv
    <3>2. lane[Peer(d)].reacks \in Nat /\ tx[d].attempt \in Nat BY <3>1, DeviceShape
    <3>3. lane[Peer(d)].reacks + 2 <= tx[d].attempt + 1 BY <2>2, <3>1 DEF ReackInv, Active, Went
    <3>4. tx[d].attempt < Reps BY <3>1 DEF SendInv
    <3> QED BY <3>2, <3>3, <3>4, LinkAssumption DEF MayReack, MaxReacks
  <2> QED BY <2>1, <2>2, InvType DEF AckBudget
<1> QED BY <1>1, LinkInvariant, PTL

-----------------------------------------------------------------------------
(***************************************************************************)
(* Each direction of the link is a Delivery                                *)
(***************************************************************************)

\* The transfer a receiver has taken and not yet handed over.
InHand(e) == IF rx[e].fresh THEN rx[e].counter ELSE 0

Refines(d) == UNCHANGED Direction(d)!vars \/ Direction(d)!Next

\* A step that moves none of a direction's state.
LEMMA Still ==
  ASSUME NEW d \in Devs, Active(d)' <=> Active(d), sent'[d] = sent[d], told'[d] = told[d],
         lane'[Peer(d)].seen = lane[Peer(d)].seen, taken'[Peer(d)] = taken[Peer(d)],
         InHand(Peer(d))' = InHand(Peer(d)), handed'[Peer(d)] = handed[Peer(d)]
  PROVE  Refines(d)
  BY DEF Refines, Direction!vars, Active, InHand, LastHanded

\* A sender's step moves the direction it sends in only.
LEMMA OtherDirection ==
  ASSUME NEW d \in Devs, UNCHANGED rxVars,
         task'[Peer(d)] = task[Peer(d)], sent'[Peer(d)] = sent[Peer(d)], told'[Peer(d)] = told[Peer(d)]
  PROVE  Refines(Peer(d))
<1>1. Peer(d) \in Devs BY PeerFacts
<1>2. UNCHANGED <<lane, rx, taken, handed>> BY DEF rxVars
<1>3. Active(Peer(d))' <=> Active(Peer(d)) BY DEF Active
<1> QED BY <1>1, <1>2, <1>3, Still DEF InHand

\* A transfer that ends is resolved.
LEMMA FinishResolves ==
  ASSUME LinkInv, NEW d \in Devs, NEW r \in Results, Finish(d, r), Active(d), UNCHANGED rxVars,
         r = "Delivered" /\ tx[d].confirmed => tx[d].counter \in taken[Peer(d)]
  PROVE  Refines(d) /\ Refines(Peer(d))
<1>1. Shapes /\ SendInv(d) /\ Peer(d) \in Devs /\ Peer(d) # d BY PeerFacts DEF LinkInv
<1>2. UNCHANGED <<lane, rx, taken, handed>> BY DEF rxVars
<1>3. /\ UNCHANGED sent /\ task'[d] = "idle"
      /\ told'[d] = IF r = "Delivered" /\ tx[d].confirmed THEN told[d] \cup {tx[d].counter}
                    ELSE told[d]
      /\ \A e \in Devs \ {d} : task'[e] = task[e] /\ told'[e] = told[e]
  BY <1>1, FinishFacts
<1>4. tx[d].counter \in sent[d] /\ \A c \in sent[d] : c <= tx[d].counter BY <1>1 DEF SendInv
<1>5. Direction(d)!Resolve
  <2>1. \/ told'[d] = told[d]
        \/ \E c \in taken[Peer(d)] \cap sent[d] :
             (\A b \in sent[d] : b <= c) /\ told'[d] = told[d] \cup {c}
    BY <1>3, <1>4
  <2> QED BY <1>2, <1>3, <2>1 DEF Direction!Resolve, Active, LastHanded
<1>6. Refines(d) BY <1>5 DEF Refines, Direction!Next
<1>7. Refines(Peer(d)) BY <1>1, <1>3, OtherDirection
<1> QED BY <1>6, <1>7

LEMMA NextRepRefines ==
  ASSUME LinkInv, NEW d \in Devs, NEW r \in Results \ {"Delivered"}, NextRep(d, r), Active(d),
         UNCHANGED rxVars
  PROVE  Refines(d) /\ Refines(Peer(d))
<1>1. CASE ~(tx[d].attempt + 1 < RepsOf(tx[d]))
  <2>1. Finish(d, r) BY <1>1 DEF NextRep
  <2> QED BY <2>1, FinishResolves
<1>2. CASE tx[d].attempt + 1 < RepsOf(tx[d])
  <2>1. task \in [Devs -> Tasks] /\ task' = [task EXCEPT ![d] = "attempt"] /\ UNCHANGED <<sent, told>>
    BY <1>2 DEF NextRep, Goto, LinkInv, Shapes
  <2>2. Active(d)' /\ \A e \in Devs \ {d} : task'[e] = task[e] BY <2>1 DEF Active
  <2>3. UNCHANGED <<lane, rx, taken, handed>> BY DEF rxVars
  <2> QED BY <2>1, <2>2, <2>3, PeerFacts, Still, OtherDirection DEF InHand
<1> QED BY <1>1, <1>2

LEMMA SendRefines ==
  ASSUME LinkInv, NEW d \in Devs, NEW conf \in BOOLEAN, Send(d, conf)
  PROVE  Refines(d) /\ Refines(Peer(d))
<1>1. Shapes /\ SendInv(d) /\ Peer(d) \in Devs /\ Peer(d) # d BY PeerFacts DEF LinkInv
<1>2. UNCHANGED <<lane, rx, taken, handed, told>> /\ UNCHANGED rxVars BY DEF Send, rxVars
<1>3. /\ task'[d] = "attempt" /\ task[d] = "idle" /\ sent'[d] = sent[d] \cup {next[d]}
      /\ \A e \in Devs \ {d} : task'[e] = task[e] /\ sent'[e] = sent[e]
  <2>1. /\ task \in [Devs -> Tasks] /\ task' = [task EXCEPT ![d] = "attempt"] /\ task[d] = "idle"
        /\ sent \in [Devs -> SUBSET Nat] /\ sent' = [sent EXCEPT ![d] = @ \cup {next[d]}]
    BY <1>1 DEF Shapes, Send, Goto
  <2> QED BY <2>1
<1>4. \A b \in sent[d] : b < next[d] BY <1>1 DEF SendInv
<1>5. next[d] \notin sent[d]
  <2>1. next[d] \in Nat BY <1>1, DeviceShape
  <2> QED BY <1>4, <2>1
<1>6. Direction(d)!Offer
  <2>1. \E c \in sent'[d] \ sent[d] : sent'[d] = sent[d] \cup {c} /\ \A b \in sent[d] : b < c
    BY <1>3, <1>4, <1>5
  <2> QED BY <1>2, <1>3, <2>1 DEF Direction!Offer, LastHanded
<1>7. Refines(d) BY <1>6 DEF Refines, Direction!Next
<1>8. Refines(Peer(d)) BY <1>1, <1>2, <1>3, OtherDirection
<1> QED BY <1>7, <1>8

LEMMA SenderRefines ==
  ASSUME LinkInv, NEW d \in Devs,
         \/ Transmit(d) \/ DutyRefuses(d) \/ RadioFails(d) \/ Busy(d) \/ WindowElapses(d)
         \/ \E f \in air : HearAck(d, f)
  PROVE  Refines(d) /\ Refines(Peer(d))
<1>1. Shapes /\ SendInv(d) /\ Peer(d) \in Devs /\ Peer(d) # d /\ tx[d].result \in Results
      /\ tx[d].confirmed \in BOOLEAN
  BY DeviceShape, PeerFacts DEF LinkInv
<1>2. CASE Transmit(d)
  <2>1. UNCHANGED rxVars /\ Active(d) BY <1>2 DEF Transmit, Active
  <2>2. CASE tx[d].confirmed
    <3>1. task \in [Devs -> Tasks] /\ task' = [task EXCEPT ![d] = "window"] /\ UNCHANGED <<sent, told>>
      BY <1>1, <1>2, <2>2 DEF Transmit, Goto, txVars, Shapes
    <3>2. Active(d)' /\ \A e \in Devs \ {d} : task'[e] = task[e] BY <3>1 DEF Active
    <3>3. UNCHANGED <<lane, rx, taken, handed>> BY <2>1 DEF rxVars
    <3> QED BY <1>1, <2>1, <3>1, <3>2, <3>3, Still, OtherDirection DEF InHand
  <2>3. CASE ~tx[d].confirmed
    <3>1. Finish(d, "Delivered") BY <1>2, <2>3 DEF Transmit
    <3> QED BY <2>1, <2>3, <3>1, FinishResolves DEF Results
  <2> QED BY <1>1, <2>2, <2>3
<1>3. CASE DutyRefuses(d) BY <1>3, FinishResolves DEF DutyRefuses, Active, Results
<1>4. CASE RadioFails(d) BY <1>4, FinishResolves DEF RadioFails, Active, Results
<1>5. CASE Busy(d) BY <1>5, NextRepRefines DEF Busy, Active, Results
<1>6. CASE WindowElapses(d)
  <2>1. Active(d) /\ NextRep(d, tx[d].result) /\ UNCHANGED rxVars BY <1>6 DEF WindowElapses, Active
  <2>2. tx[d].result # "Delivered" BY <1>1, <2>1 DEF SendInv
  <2> QED BY <1>1, <2>1, <2>2, NextRepRefines
<1>7. ASSUME NEW f \in air, HearAck(d, f)
      PROVE  Refines(d) /\ Refines(Peer(d))
  <2>1. Finish(d, "Delivered") /\ Active(d) /\ UNCHANGED rxVars BY <1>7 DEF HearAck, Active
  <2>2. FrameInv(f) /\ f.kind = "ack" /\ f.src = Peer(d) /\ f.acked = tx[d].counter
    BY <1>7 DEF HearAck, Resolves, LinkInv
  <2>3. tx[d].counter \in taken[Peer(d)] BY <2>2 DEF FrameInv
  <2> QED BY <2>1, <2>3, FinishResolves DEF Results
<1> QED BY <1>2, <1>3, <1>4, <1>5, <1>6, <1>7

\* A receiver's step leaves the direction it sends in alone.
LEMMA OwnDirection ==
  ASSUME NEW d \in Devs, ~Active(d), ~Active(d)', UNCHANGED <<sent, told>>,
         \A e \in Devs \ {d} : /\ lane'[e] = lane[e] /\ rx'[e] = rx[e] /\ taken'[e] = taken[e]
                               /\ handed'[e] = handed[e]
  PROVE  Refines(d)
<1>1. Peer(d) \in Devs /\ Peer(d) # d BY PeerFacts
<1> QED BY <1>1, Still DEF InHand

LEMMA FreshTakes ==
  ASSUME LinkInv, NEW d \in Devs, NEW f \in air, RecvFresh(d, f)
  PROVE  Refines(d) /\ Refines(Peer(d))
<1>1. Shapes /\ TakeInv(d) /\ Peer(d) \in Devs /\ Peer(d) # d /\ Peer(Peer(d)) = d BY PeerFacts DEF LinkInv
<1>2. UNCHANGED <<handed, sent, told>> /\ task[d] = "idle" BY DEF RecvFresh, txVars
<1>3. f.counter > lane[d].seen /\ f.counter \in sent[Peer(d)] BY DEF RecvFresh, IsFresh, LinkInv, FrameInv
<1>4. /\ task \in [Devs -> Tasks] /\ rx \in [Devs -> [counter : Nat, fresh : BOOLEAN]]
      /\ lane \in [Devs -> Lanes] /\ taken \in [Devs -> SUBSET Nat]
  BY <1>1 DEF Shapes, Lanes
<1>5. /\ task' = [task EXCEPT ![d] = IF f.confirmed THEN "acking" ELSE "handing"]
      /\ rx' = [rx EXCEPT ![d] = [counter |-> f.counter, fresh |-> TRUE]]
      /\ lane' = [lane EXCEPT ![d] = Accept(@, f.counter)]
      /\ taken' = [taken EXCEPT ![d] = @ \cup {f.counter}]
  BY DEF RecvFresh, Goto
<1>6. task'[d] \in {"acking", "handing"} /\ \A e \in Devs \ {d} : task'[e] = task[e] BY <1>4, <1>5
<1>7. rx'[d].counter = f.counter /\ rx'[d].fresh /\ \A e \in Devs \ {d} : rx'[e] = rx[e] BY <1>4, <1>5
<1>8. lane'[d].seen = f.counter /\ \A e \in Devs \ {d} : lane'[e] = lane[e] BY <1>4, <1>5 DEF Accept
<1>9. taken'[d] = taken[d] \cup {f.counter} /\ \A e \in Devs \ {d} : taken'[e] = taken[e] BY <1>4, <1>5
<1>10. Refines(d)
  <2>1. ~Active(d) /\ ~Active(d)' BY <1>2, <1>6 DEF Active
  <2> QED BY <1>2, <1>7, <1>8, <1>9, <2>1, OwnDirection
<1>11. ~rx[d].fresh BY <1>1, <1>2 DEF TakeInv, NoFrame
<1>12. Direction(Peer(d))!Take(f.counter)
  BY <1>1, <1>2, <1>3, <1>6, <1>7, <1>8, <1>9, <1>11 DEF Direction!Take, LastHanded
<1>13. Refines(Peer(d)) BY <1>3, <1>12 DEF Refines, Direction!Next
<1> QED BY <1>10, <1>13

LEMMA RetransmitStutters ==
  ASSUME LinkInv, NEW d \in Devs, NEW f \in air, RecvRetransmit(d, f)
  PROVE  Refines(d) /\ Refines(Peer(d))
<1>1. Shapes /\ TakeInv(d) /\ Peer(d) \in Devs /\ Peer(d) # d /\ Peer(Peer(d)) = d BY PeerFacts DEF LinkInv
<1>2. UNCHANGED <<handed, sent, told, taken>> /\ task[d] = "idle" BY DEF RecvRetransmit, txVars
<1>3. /\ task \in [Devs -> Tasks] /\ rx \in [Devs -> [counter : Nat, fresh : BOOLEAN]]
      /\ lane \in [Devs -> Lanes]
  BY <1>1 DEF Shapes, Lanes
<1>4. ~rx[d].fresh BY <1>1, <1>2 DEF TakeInv, NoFrame
<1>5. /\ task'[d] \in {"idle", "acking"} /\ ~rx'[d].fresh /\ lane'[d].seen = lane[d].seen
      /\ \A e \in Devs \ {d} : task'[e] = task[e] /\ rx'[e] = rx[e] /\ lane'[e] = lane[e]
  <2>1. CASE MayReack(lane[d])
    <3>1. /\ task' = [task EXCEPT ![d] = "acking"]
          /\ rx' = [rx EXCEPT ![d] = [counter |-> f.counter, fresh |-> FALSE]]
          /\ lane' = [lane EXCEPT ![d].reacks = @ + 1]
      BY <2>1 DEF RecvRetransmit, Goto
    <3>2. task'[d] = "acking" /\ \A e \in Devs \ {d} : task'[e] = task[e] BY <1>3, <3>1
    <3>3. ~rx'[d].fresh /\ \A e \in Devs \ {d} : rx'[e] = rx[e] BY <1>3, <3>1
    <3>4. lane'[d].seen = lane[d].seen /\ \A e \in Devs \ {d} : lane'[e] = lane[e] BY <1>3, <3>1 DEF Lanes
    <3> QED BY <3>2, <3>3, <3>4
  <2>2. CASE ~MayReack(lane[d])
    <3>1. UNCHANGED <<lane, rx, task>> BY <2>2 DEF RecvRetransmit
    <3> QED BY <1>2, <1>4, <3>1
  <2> QED BY <2>1, <2>2
<1>6. ~Active(d) /\ ~Active(d)' /\ (Active(Peer(d))' <=> Active(Peer(d))) BY <1>1, <1>2, <1>5 DEF Active
<1>7. Refines(d) BY <1>2, <1>5, <1>6, OwnDirection
<1>8. Refines(Peer(d)) BY <1>1, <1>2, <1>4, <1>5, <1>6, Still DEF InHand
<1> QED BY <1>7, <1>8

LEMMA AckStutters ==
  ASSUME LinkInv, NEW d \in Devs, SendAck(d) \/ SkipAck(d)
  PROVE  Refines(d) /\ Refines(Peer(d))
<1>1. Shapes /\ Peer(d) \in Devs /\ Peer(d) # d /\ Peer(Peer(d)) = d /\ rx[d].fresh \in BOOLEAN
  BY DeviceShape, PeerFacts DEF LinkInv
<1>2. UNCHANGED <<handed, sent, told, taken, lane>> /\ task[d] = "acking" /\ AfterAck(d)
  BY DEF SendAck, SkipAck, txVars
<1>3. /\ rx'[d] = IF rx[d].fresh THEN rx[d] ELSE NoFrame
      /\ task'[d] = IF rx[d].fresh THEN "handing" ELSE "idle"
      /\ \A e \in Devs \ {d} : rx'[e] = rx[e] /\ task'[e] = task[e]
  BY <1>1, <1>2, AfterAckFacts
<1>4. ~Active(d) /\ ~Active(d)' /\ (Active(Peer(d))' <=> Active(Peer(d))) BY <1>1, <1>2, <1>3 DEF Active
<1>5. InHand(d)' = InHand(d) BY <1>1, <1>3 DEF InHand, NoFrame
<1>6. Refines(d) BY <1>2, <1>3, <1>4, OwnDirection
<1>7. Refines(Peer(d)) BY <1>1, <1>2, <1>4, <1>5, Still
<1> QED BY <1>6, <1>7

LEMMA HandUpHandsOver ==
  ASSUME LinkInv, NEW d \in Devs, HandUp(d)
  PROVE  Refines(d) /\ Refines(Peer(d))
<1>1. Shapes /\ TakeInv(d) /\ HandInv(d) /\ Peer(d) \in Devs /\ Peer(d) # d /\ Peer(Peer(d)) = d
      /\ SendInv(Peer(d))
  BY PeerFacts DEF LinkInv
<1>2. UNCHANGED <<sent, told, taken, lane>> /\ task[d] = "handing" BY DEF HandUp, txVars
<1>3. /\ task \in [Devs -> Tasks] /\ rx \in [Devs -> [counter : Nat, fresh : BOOLEAN]]
      /\ handed \in [Devs -> Seq(Nat)]
  BY <1>1 DEF Shapes
<1>4. /\ task' = [task EXCEPT ![d] = "idle"] /\ rx' = [rx EXCEPT ![d] = NoFrame]
      /\ handed' = [handed EXCEPT ![d] = Append(@, rx[d].counter)]
  BY DEF HandUp, Goto
<1>5. rx[d].fresh /\ rx[d].counter = lane[d].seen /\ rx[d].counter \in Nat
      /\ rx[d].counter \in taken[d]
  BY <1>1, <1>2, DeviceShape DEF TakeInv
<1>6. rx[d].counter > 0 BY <1>1, <1>5 DEF TakeInv, SendInv
<1>7. task'[d] = "idle" /\ \A e \in Devs \ {d} : task'[e] = task[e] BY <1>3, <1>4
<1>8. ~rx'[d].fresh /\ \A e \in Devs \ {d} : rx'[e] = rx[e] BY <1>3, <1>4 DEF NoFrame
<1>9. handed'[d] = Append(handed[d], rx[d].counter) /\ \A e \in Devs \ {d} : handed'[e] = handed[e]
  BY <1>3, <1>4
<1>10. LastHanded(d)' = rx[d].counter
  <2>1. handed[d] \in Seq(Nat) /\ Len(handed[d]) \in Nat BY <1>3
  <2>2. Len(handed'[d]) = Len(handed[d]) + 1 /\ handed'[d][Len(handed[d]) + 1] = rx[d].counter
    BY <1>5, <1>9, <2>1
  <2>3. handed'[d] # <<>> BY <2>1, <2>2
  <2> QED BY <2>2, <2>3 DEF LastHanded
<1>11. rx[d].counter > LastHanded(d)
  <2>1. CASE handed[d] = <<>> BY <1>6, <2>1 DEF LastHanded
  <2>2. CASE handed[d] # <<>>
    <3>1. handed[d] \in Seq(Nat) BY <1>3
    <3>2. Len(handed[d]) \in DOMAIN handed[d] BY <2>2, <3>1, EmptySeq
    <3>3. handed[d][Len(handed[d])] < lane[d].seen BY <1>1, <1>5, <3>2 DEF HandInv
    <3>4. handed[d][Len(handed[d])] \in Nat BY <3>1, <3>2
    <3> QED BY <1>5, <2>2, <3>3, <3>4 DEF LastHanded
  <2> QED BY <2>1, <2>2
<1>12. Refines(d)
  <2>1. ~Active(d) /\ ~Active(d)' BY <1>2, <1>7 DEF Active
  <2> QED BY <1>2, <1>8, <1>9, <2>1, OwnDirection
<1>13. Direction(Peer(d))!HandOver BY <1>1, <1>2, <1>5, <1>7, <1>8, <1>10, <1>11 DEF Direction!HandOver
<1>14. Refines(Peer(d)) BY <1>13 DEF Refines, Direction!Next
<1> QED BY <1>12, <1>14

\* A reset restarts the sender of one direction and the receiver of the other.
LEMMA CrashRestarts ==
  ASSUME LinkInv, NEW d \in Devs, Crash(d)
  PROVE  Refines(d) /\ Refines(Peer(d))
<1>1. Shapes /\ TakeInv(d) /\ Peer(d) \in Devs /\ Peer(d) # d /\ Peer(Peer(d)) = d BY PeerFacts DEF LinkInv
<1>2. UNCHANGED <<sent, told, taken>> BY DEF Crash
<1>3. /\ task \in [Devs -> Tasks] /\ rx \in [Devs -> [counter : Nat, fresh : BOOLEAN]]
      /\ handed \in [Devs -> Seq(Nat)] /\ lane \in [Devs -> Lanes]
      /\ stored[d] \in Nat /\ lane[d].seen \in Nat
  BY <1>1, DeviceShape DEF Shapes, Lanes
<1>4. /\ task' = [task EXCEPT ![d] = "idle"] /\ rx' = [rx EXCEPT ![d] = NoFrame]
      /\ handed' = [handed EXCEPT ![d] = <<>>] /\ lane' = [lane EXCEPT ![d] = NewLane(stored[d])]
  BY DEF Crash, Goto
<1>5. task'[d] = "idle" /\ \A e \in Devs \ {d} : task'[e] = task[e] BY <1>3, <1>4
<1>6. ~rx'[d].fresh /\ \A e \in Devs \ {d} : rx'[e] = rx[e] BY <1>3, <1>4 DEF NoFrame
<1>7. handed'[d] = <<>> /\ \A e \in Devs \ {d} : handed'[e] = handed[e] BY <1>3, <1>4
<1>8. lane'[d].seen = stored[d] /\ \A e \in Devs \ {d} : lane'[e] = lane[e] BY <1>3, <1>4 DEF NewLane
<1>9. Direction(d)!SenderRestarts
  BY <1>1, <1>2, <1>5, <1>6, <1>7, <1>8 DEF Direction!SenderRestarts, LastHanded
<1>10. Direction(Peer(d))!ReceiverRestarts
  <2>1. stored[d] \in 0 .. lane[d].seen /\ (P = 1 => stored[d] = lane[d].seen) BY <1>1, <1>3 DEF TakeInv
  <2> QED BY <1>1, <1>2, <1>5, <1>6, <1>7, <1>8, <2>1 DEF Direction!ReceiverRestarts, LastHanded
<1> QED BY <1>9, <1>10 DEF Refines, Direction!Next

LEMMA StepRefines ==
  ASSUME LinkInv, [LinkNext]_linkVars, NEW d \in Devs
  PROVE  Refines(d)
<1>1. \A a \in Devs : d = a \/ d = Peer(a) BY PeerFacts
<1>2. ASSUME NEW a \in Devs, Refines(a) /\ Refines(Peer(a))
      PROVE  Refines(d)
  BY <1>1, <1>2
<1>3. CASE UNCHANGED <<task, txVars, rxVars>>
  <2>1. UNCHANGED <<task, sent, told, lane, rx, taken, handed>> BY <1>3 DEF txVars, rxVars
  <2> QED BY <2>1, Still DEF Active, InHand
<1>4. CASE UNCHANGED linkVars BY <1>3, <1>4 DEF linkVars, txVars, rxVars
<1>5. ASSUME NEW a \in Devs, Sender(a)
      PROVE  Refines(d)
  BY <1>2, <1>5, SenderRefines DEF Sender
<1>6. ASSUME NEW a \in Devs, Receiver(a)
      PROVE  Refines(d)
  BY <1>2, <1>6, AckStutters, HandUpHandsOver DEF Receiver
<1>7. ASSUME Outside
      PROVE  Refines(d)
  <2>1. ASSUME NEW a \in Devs, NEW conf \in BOOLEAN, Send(a, conf)
        PROVE  Refines(d)
    BY <1>2, <2>1, SendRefines
  <2>2. ASSUME NEW a \in Devs, Crash(a)
        PROVE  Refines(d)
    BY <1>2, <2>2, CrashRestarts
  <2>3. ASSUME NEW a \in Devs, NEW f \in air, HearAck(a, f)
        PROVE  Refines(d)
    BY <1>2, <2>3, SenderRefines
  <2>4. ASSUME NEW a \in Devs, NEW f \in air, RecvFresh(a, f) \/ RecvRetransmit(a, f)
        PROVE  Refines(d)
    BY <1>2, <2>4, FreshTakes, RetransmitStutters
  <2>5. ASSUME NEW f \in air, LoseFrame(f)
        PROVE  Refines(d)
    BY <1>3, <2>5 DEF LoseFrame
  <2> QED BY <1>7, <2>1, <2>2, <2>3, <2>4, <2>5 DEF Outside
<1> QED BY <1>4, <1>5, <1>6, <1>7 DEF LinkNext

\* Each direction of the link, its retransmits, ACKs, re-ACKs, resets and
\* unreliable air included, is a Delivery: transfers taken once, handed over
\* at most once and in order, reported delivered only if taken.
THEOREM LinkImplementsDelivery == LinkSpec => ImplementsDelivery
<1>1. LinkInit => \A d \in Devs : Direction(d)!Init
  <2> SUFFICES ASSUME LinkInit, NEW d \in Devs PROVE Direction(d)!Init
    OBVIOUS
  <2>1. Peer(d) \in Devs BY PeerFacts
  <2> QED BY <2>1 DEF Direction!Init, LinkInit, LastHanded, NewLane, NoFrame
<1>2. LinkInv /\ [LinkNext]_linkVars
      => [\A d \in Devs : UNCHANGED Direction(d)!vars \/ Direction(d)!Next]_linkVars
  BY StepRefines DEF Refines
<1> QED BY <1>1, <1>2, LinkInvariant, PTL DEF LinkSpec, ImplementsDelivery
=============================================================================
