-------------------------- MODULE RemoteShellProofs -------------------------
(***************************************************************************)
(* Proofs about RemoteShell.tla for any nodes, queue limits, ids, length   *)
(* of the replies and number of commands, resets and losses: a node runs   *)
(* its commands in order and once per boot, the gateway's queue is sound   *)
(* and what the host believes of it true, and a dialog that ends as        *)
(* complete is.                                                            *)
(***************************************************************************)
EXTENDS RemoteShell, FiniteSetTheorems, SequenceTheorems, TLAPS

-----------------------------------------------------------------------------
(***************************************************************************)
(* The inductive invariant                                                 *)
(***************************************************************************)

Items    == [id : 1 .. MaxId, node : Nodes, cmd : Cmds, order : Nat, stale : BOOLEAN]
Sends    == [node : Nodes, id : 1 .. MaxId, cmd : Cmds, taken : BOOLEAN]
Drops    == [node : Nodes, id : 0 .. MaxId]
Places   == {"asleep", "uplink", "window", "reply", "chunk"}
Ups      == [cmd : 0 .. scene.cmds, chunk : Nat, last : BOOLEAN, text : BOOLEAN, taken : BOOLEAN,
             flags : SUBSET BOOLEAN]
Sinks    == [cmd : 0 .. scene.cmds, chunk : Nat, lost : Nat, end : Nat, text : BOOLEAN]
Lasts    == [cmd : 0 .. scene.cmds, lost : Nat]
Dialogs  == [node : Nodes, item : 1 .. MaxId, queued : BOOLEAN, delivered : BOOLEAN,
             next : Nat, truncated : BOOLEAN]
Outcomes == {"none", "error", "complete", "truncated"}

\* The sets the gateway's variables range over.
GwShapes ==
  /\ queue \in [items : SUBSET Items, nextId : 1 .. MaxId, nextOrder : Nat]
  /\ IsFiniteSet(queue.items)
  /\ flag \in [Nodes -> BOOLEAN]
  /\ gw \in {Idle} \cup [at : {"serving", "sending"}, node : Nodes]
  /\ down \in {NoDown} \cup Sends
  /\ reqs \in Seq(Drops)

\* The nodes'.
NodeShapes ==
  /\ pc \in [Nodes -> Places] /\ up \in [Nodes -> Ups] /\ sink \in [Nodes -> Sinks]
  /\ last \in [Nodes -> Lasts] /\ ran \in [Nodes -> Seq(Cmds)]

\* The host's, and the counts.
HostShapes ==
  /\ scene \in Scenes /\ issued \in 0 .. scene.cmds
  /\ pend \in [Cmds -> {NoPending} \cup Dialogs]
  /\ outcome \in [Cmds -> Outcomes] /\ got \in [Cmds -> SUBSET Nat]
  /\ reboots \in Nat /\ dropped \in Nat

\* Two items never share an id, and neither limit is exceeded.
UniqueIds == \A a, b \in queue.items : a.id = b.id => a = b

WithinCaps ==
  /\ \A n \in Nodes : CountFor(queue, n) <= PerNodeCap
  /\ Cardinality(queue.items) <= QueueCap

\* A node's pending flag says whether something is queued for it, at every point
\* of the loop.
FlagsTrue == \A n \in Nodes : flag[n] <=> \E it \in queue.items : it.node = n

\* The item being sent is queued.
LoopInv ==
  /\ gw.at = "sending" <=> down # NoDown
  /\ gw.at = "sending" =>
       /\ down.node = gw.node
       /\ \E it \in queue.items : it.id = down.id /\ it.node = down.node /\ it.cmd = down.cmd

QueueInv == UniqueIds /\ WithinCaps /\ FlagsTrue /\ LoopInv

\* Where a node's task is, and what it holds there.
PhaseAt(n) ==
  /\ pc[n] \notin {"reply", "chunk"} => sink[n] = NoSink
  /\ pc[n] \in {"reply", "chunk"} => sink[n].cmd >= 1
  /\ pc[n] \notin {"uplink", "chunk"} => up[n] = NoUp
  /\ pc[n] = "uplink" => up[n].cmd = 0
  /\ pc[n] = "chunk" =>
       /\ up[n].cmd = sink[n].cmd /\ up[n].chunk = sink[n].chunk
       /\ up[n].text = sink[n].text /\ up[n].last = (sink[n].chunk = sink[n].end)

PhaseInv == \A n \in Nodes : PhaseAt(n)

\* A reply runs to its last chunk; the answer to a repeat is one chunk, the first
\* or one past the lost one.
SinkAt(n) ==
  /\ sink[n].text => sink[n].end = Chunks - 1 /\ sink[n].chunk <= sink[n].end
  /\ ~sink[n].text => sink[n].chunk = sink[n].end
  /\ last[n].lost <= Chunks
  /\ ~sink[n].text /\ sink[n].cmd >= 1 =>
       /\ sink[n].cmd = last[n].cmd
       /\ sink[n].chunk = IF last[n].lost = 0 THEN 0 ELSE last[n].lost + 1

SinkInv == \A n \in Nodes : SinkAt(n)

\* The last command n ran.
Latest(n) == IF sink[n].text THEN sink[n].cmd ELSE last[n].cmd

\* The queue holds the commands in the order they were issued.
QueueOrder ==
  /\ queue.nextOrder <= issued
  /\ \A it \in queue.items : it.order < queue.nextOrder /\ it.cmd <= issued
  /\ \A a, b \in queue.items : a.order <= b.order => a.cmd <= b.cmd

\* The command being sent is the oldest for its node that has not expired.
DownOrder ==
  /\ down.cmd <= issued
  /\ \A it \in queue.items : it.node = down.node /\ ~it.stale => down.cmd <= it.cmd

\* Nothing a node may still be sent is older than what it ran last.
OrderAt(n) ==
  /\ Latest(n) <= issued
  /\ Latest(n) >= 1 => Latest(n) \in Range(ran[n])
  /\ sink[n].text => last[n].cmd < sink[n].cmd
  /\ last[n].cmd >= 1 => last[n].cmd \in Range(ran[n])
  /\ \A i \in DOMAIN ran[n] : ran[n][i] <= Latest(n)
  /\ down.node = n => Latest(n) <= down.cmd
  /\ \A it \in queue.items : it.node = n /\ ~it.stale => Latest(n) <= it.cmd
  /\ \A i, j \in DOMAIN ran[n] : i < j => ran[n][i] < ran[n][j]

OrderInv == QueueOrder /\ DownOrder /\ \A n \in Nodes : OrderAt(n)

\* The host's dialogs.
DialogInv ==
  /\ \A c \in Cmds : c > issued => pend[c] = NoPending /\ outcome[c] = "none" /\ got[c] = {}
  /\ \A c \in Cmds : outcome[c] # "none" => ~Pending(c)
  /\ \A c \in Cmds : pend[c].queued => ~pend[c].delivered

\* While no id was used twice, the ids in use are below the next one.
IdInv ==
  issued < MaxId =>
    /\ queue.nextId <= issued + 1
    /\ \A it \in queue.items : it.id < queue.nextId
    /\ \A c \in Cmds : pend[c].item < queue.nextId

\* While in addition nothing was lost on the serial link: a command the host
\* counts as queued is queued, its id means it alone, and no request drops it.
MirrorInv ==
  dropped = 0 /\ issued <= MaxId =>
    /\ \A c \in Cmds : Pending(c) /\ pend[c].queued =>
         \E it \in queue.items : it.id = pend[c].item /\ it.node = pend[c].node /\ it.cmd = c
    /\ \A b, c \in Cmds : Pending(b) /\ Pending(c) /\ pend[b].item = pend[c].item => b = c
    /\ \A i \in DOMAIN reqs : \A c \in Cmds :
         pend[c].queued /\ pend[c].node = reqs[i].node =>
           reqs[i].id # 0 /\ reqs[i].id # pend[c].item

\* A pending command is one node's.
HomeInv ==
  \A c \in Cmds : Pending(c) =>
    /\ \A it \in queue.items : it.cmd = c => it.node = pend[c].node
    /\ down.cmd = c => down.node = pend[c].node
    /\ \A n \in Nodes : c \in Range(ran[n]) => n = pend[c].node

\* What the host has of a reply: the chunks before the next, unless it knows better.
PrefixInv ==
  \A c \in Cmds : Pending(c) /\ ~pend[c].truncated =>
    got[c] = 0 .. pend[c].next - 1 /\ pend[c].next <= Chunks - 1

\* What ended a reply, or a node remembers as complete, the host saw, unless the
\* serial link lost it.
EndSeenAt(n) ==
  \A c \in Cmds : Pending(c) =>
    /\ last[n].cmd = c /\ last[n].lost = 0 => dropped > 0
    /\ up[n].taken /\ up[n].last /\ up[n].cmd = c => dropped > 0

\* What it has is text of the reply.
GotInv == \A c \in Cmds : got[c] \subseteq 0 .. Chunks - 1

ReplyInv == PrefixInv /\ (\A n \in Nodes : EndSeenAt(n)) /\ HonestReply

\* Without a reset of a node, the host is not ahead of the reply it follows.
FollowAt(n, c) ==
  /\ last[n].cmd = c /\ last[n].lost > 0 => pend[c].next <= last[n].lost
  /\ sink[n].text /\ sink[n].cmd = c =>
       pend[c].next <= IF up[n].taken THEN sink[n].chunk + 1 ELSE sink[n].chunk

FollowInv ==
  reboots = 0 =>
    \A c \in Cmds : Pending(c) =>
      /\ pend[c].next > 0 => c \in Range(ran[pend[c].node])
      /\ ~pend[c].truncated => \A n \in Nodes : FollowAt(n, c)

ShellInv ==
  /\ HostShapes /\ GwShapes /\ NodeShapes
  /\ QueueInv /\ PhaseInv /\ SinkInv /\ OrderInv
  /\ DialogInv /\ IdInv /\ MirrorInv /\ HomeInv /\ GotInv /\ ReplyInv /\ FollowInv

-----------------------------------------------------------------------------
(***************************************************************************)
(* The steps, and what they leave alone                                    *)
(***************************************************************************)

\* The scene stays, and a step is one of these.
LEMMA Cases ==
  ASSUME ShellNext
  PROVE  /\ scene' = scene
         /\ \/ Resync \/ DropRpc \/ (\E n \in Nodes : Issue(n)) \/ (\E c \in Cmds : GiveUp(c))
            \/ (\E n \in Nodes : TakeUplink(n)) \/ (\E n \in Nodes : ReAck(n))
            \/ Serve \/ SendEnds \/ Expire \/ ServeDrop \/ GwReboot
            \/ (\E it \in queue.items : Lapse(it))
            \/ (\E n \in Nodes : Wake(n)) \/ (\E n \in Nodes : NodeReboot(n))
            \/ (\E n \in Nodes : UplinkEnds(n)) \/ (\E n \in Nodes : WindowEnds(n))
            \/ (\E n \in Nodes : TakeCommand(n)) \/ (\E n \in Nodes : SendChunk(n))
            \/ (\E n \in Nodes : ChunkEnds(n))
<1>1. CASE (Host \/ Gateway \/ GwReboot) /\ UNCHANGED scene BY <1>1 DEF Host, Gateway
<1>2. CASE \E it \in queue.items : Lapse(it) BY <1>2 DEF Lapse
<1>3. CASE \E n \in Nodes : Node(n) \/ ((Wake(n) \/ NodeReboot(n)) /\ UNCHANGED scene) BY <1>3 DEF Node
<1>4. QED BY <1>1, <1>2, <1>3 DEF ShellNext

\* The sets that depend on the scene stay with it.
LEMMA SceneKept ==
  ASSUME scene' = scene
  PROVE  /\ Cmds' = Cmds /\ Chunks' = Chunks /\ Items' = Items /\ Sends' = Sends
         /\ Ups' = Ups /\ Sinks' = Sinks /\ Lasts' = Lasts
  BY DEF Cmds, Chunks, Items, Sends, Ups, Sinks, Lasts

\* What a scene is.
LEMMA SceneType ==
  ASSUME HostShapes
  PROVE  scene.cmds \in Nat /\ Chunks \in Nat /\ Chunks >= 1 /\ Cmds = 1 .. scene.cmds
  BY ShellAssumption DEF HostShapes, Chunks, Cmds

-----------------------------------------------------------------------------
(***************************************************************************)
(* The queue's operations                                                  *)
(***************************************************************************)

Queues == [items : SUBSET Items, nextId : 1 .. MaxId, nextOrder : Nat]

\* A set of positive numbers has a least one.
LEMMA MinIsLeast ==
  ASSUME NEW S \in SUBSET Nat, S # {}
  PROVE  Min(S) \in S /\ \A y \in S : Min(S) <= y
<1>1. PICK x \in S : \A y \in S : ~(y < x)
  <2>1. \E x \in S : \A y \in S : ~(<<y, x>> \in OpToRel(<, Nat)) BY NatLessThanWellFounded, WFMin
  <2>2. QED BY <2>1 DEF OpToRel
<1>2. \A y \in S : x <= y BY <1>1
<1>3. QED BY <1>2 DEF Min

\* With room left there is an id that no item holds, and the search finds one:
\* the next id itself unless an item holds it.
LEMMA FreeIdIsFree ==
  ASSUME NEW q \in Queues, IsFiniteSet(q.items), Cardinality(q.items) < QueueCap
  PROVE  /\ FreeId(q) \in 1 .. MaxId
         /\ \A it \in q.items : it.id # FreeId(q)
         /\ q.nextId \notin Held(q) => FreeId(q) = q.nextId
<1> DEFINE free  == (1 .. MaxId) \ Held(q)
           ahead == {id \in free : id >= q.nextId}
           pick  == IF ahead # {} THEN ahead ELSE free
<1>1. MaxId \in Nat /\ QueueCap \in Nat /\ MaxId >= QueueCap /\ q.nextId \in 1 .. MaxId
  BY QueueAssumption DEF Queues
<1>2. free # {}
  <2>1. SUFFICES ASSUME 1 .. MaxId \subseteq Held(q) PROVE FALSE
    OBVIOUS
  <2>2. IsFiniteSet(Held(q)) /\ Cardinality(Held(q)) <= Cardinality(q.items)
    <3> DEFINE f == [it \in q.items |-> it.id]
    <3>1. f \in Surjection(q.items, Held(q)) BY DEF Held, Surjection
    <3>2. QED BY <3>1, FS_Surjection
  <2>3. Cardinality(1 .. MaxId) <= Cardinality(Held(q)) BY <2>1, <2>2, FS_Subset
  <2>4. Cardinality(1 .. MaxId) = MaxId BY <1>1, FS_Interval
  <2>5. Cardinality(q.items) \in Nat /\ Cardinality(Held(q)) \in Nat BY <2>2, FS_CardinalityType
  <2>6. QED BY <1>1, <2>2, <2>3, <2>4, <2>5
<1>3. pick # {} /\ pick \subseteq free /\ free \subseteq 1 .. MaxId /\ pick \subseteq Nat BY <1>1, <1>2
<1>4. Min(pick) \in pick /\ \A y \in pick : Min(pick) <= y BY <1>3, MinIsLeast
<1>5. FreeId(q) = Min(pick) BY DEF FreeId
<1>6. ASSUME q.nextId \notin Held(q) PROVE Min(pick) = q.nextId
  <2>1. q.nextId \in ahead BY <1>1, <1>6
  <2>2. pick = ahead BY <2>1
  <2>3. Min(pick) <= q.nextId /\ Min(pick) >= q.nextId BY <1>4, <2>1, <2>2
  <2>4. QED BY <1>1, <1>3, <1>4, <2>3
<1>7. \A it \in q.items : it.id \in Held(q) BY DEF Held
<1> QED BY <1>3, <1>4, <1>5, <1>6, <1>7

\* A part of a finite queue.
LEMMA PartOfQueue ==
  ASSUME NEW q \in Queues, IsFiniteSet(q.items), NEW S \in SUBSET q.items
  PROVE  /\ [q EXCEPT !.items = S] \in Queues
         /\ IsFiniteSet(S) /\ Cardinality(S) <= Cardinality(q.items)
  BY FS_Subset DEF Queues

\* A push, field by field.
LEMMA PushIs ==
  ASSUME NEW q \in Queues, IsFiniteSet(q.items), NEW n \in Nodes, NEW c \in Cmds, HasRoom(q, n)
  PROVE  LET it == [id |-> FreeId(q), node |-> n, cmd |-> c, order |-> q.nextOrder, stale |-> FALSE]
         IN  /\ it \in Items /\ it \notin q.items
             /\ Push(q, n, c) \in Queues
             /\ Push(q, n, c).items = q.items \cup {it}
             /\ Push(q, n, c).nextOrder = q.nextOrder + 1
             /\ Push(q, n, c).nextId = After(FreeId(q))
             /\ IsFiniteSet(q.items \cup {it})
             /\ Cardinality(q.items \cup {it}) = Cardinality(q.items) + 1
<1> DEFINE it == [id |-> FreeId(q), node |-> n, cmd |-> c, order |-> q.nextOrder, stale |-> FALSE]
<1>1. FreeId(q) \in 1 .. MaxId /\ \A i \in q.items : i.id # FreeId(q) BY FreeIdIsFree DEF HasRoom
<1>2. it \in Items /\ it \notin q.items BY <1>1 DEF Items, Queues
<1>3. After(FreeId(q)) \in 1 .. MaxId BY <1>1, QueueAssumption DEF After
<1>4. Push(q, n, c) = [items |-> q.items \cup {it}, nextId |-> After(FreeId(q)), nextOrder |-> q.nextOrder + 1]
  BY DEF Push
<1>5. Push(q, n, c) \in Queues
  <2>0. q.items \in SUBSET Items /\ q.nextOrder \in Nat BY DEF Queues
  <2> HIDE DEF it
  <2>1. q.items \cup {it} \in SUBSET Items /\ q.nextOrder + 1 \in Nat BY <1>2, <2>0
  <2>2. QED BY <2>1, <1>3, <1>4 DEF Queues
<1>6. IsFiniteSet(q.items \cup {it}) /\ Cardinality(q.items \cup {it}) = Cardinality(q.items) + 1
  BY <1>2, FS_AddElement
<1> QED BY <1>2, <1>4, <1>5, <1>6

\* Ageing an item, field by field.
LEMMA AgeIs ==
  ASSUME NEW q \in Queues, IsFiniteSet(q.items), NEW it \in q.items
  PROVE  LET old == [it EXCEPT !.stale = TRUE]
         IN  /\ old \in Items /\ old.id = it.id /\ old.node = it.node /\ old.cmd = it.cmd
             /\ old.order = it.order /\ old.stale = TRUE
             /\ Age(q, it) \in Queues
             /\ Age(q, it).items = (q.items \ {it}) \cup {old}
             /\ Age(q, it).nextOrder = q.nextOrder /\ Age(q, it).nextId = q.nextId
             /\ IsFiniteSet((q.items \ {it}) \cup {old})
<1> DEFINE old == [it EXCEPT !.stale = TRUE]
<1>1. it \in Items BY DEF Queues
<1>2. old \in Items /\ old.id = it.id /\ old.node = it.node /\ old.cmd = it.cmd
      /\ old.order = it.order /\ old.stale = TRUE
  BY <1>1 DEF Items
<1>3. (q.items \ {it}) \cup {old} \in SUBSET Items BY <1>2 DEF Queues
<1>4. Age(q, it) = [q EXCEPT !.items = (q.items \ {it}) \cup {old}] BY DEF Age, Queues
<1>5. Age(q, it) \in Queues /\ Age(q, it).items = (q.items \ {it}) \cup {old}
      /\ Age(q, it).nextOrder = q.nextOrder /\ Age(q, it).nextId = q.nextId
  BY <1>3, <1>4 DEF Queues
<1>6. IsFiniteSet(q.items \ {it}) BY FS_RemoveElement
<1>7. IsFiniteSet((q.items \ {it}) \cup {old}) BY <1>6, FS_AddElement
<1> QED BY <1>2, <1>5, <1>7

\* A removal keeps a part of the items and the rest of the queue.
LEMMA DroppedIs ==
  ASSUME NEW q \in Queues, IsFiniteSet(q.items), NEW r \in Drops
  PROVE  /\ Dropped(q, r) \in Queues /\ IsFiniteSet(Dropped(q, r).items)
         /\ Dropped(q, r).items \subseteq q.items
         /\ Cardinality(Dropped(q, r).items) <= Cardinality(q.items)
         /\ Dropped(q, r).nextId = q.nextId /\ Dropped(q, r).nextOrder = q.nextOrder
         /\ (\A a, b \in q.items : a.id = b.id => a = b) =>
              \A it \in q.items \ Dropped(q, r).items :
                it.node = r.node /\ (r.id = 0 \/ it.id = r.id)
<1>1. PICK S \in SUBSET q.items :
        /\ Dropped(q, r) = [q EXCEPT !.items = S]
        /\ (\A a, b \in q.items : a.id = b.id => a = b) =>
              \A it \in q.items \ S : it.node = r.node /\ (r.id = 0 \/ it.id = r.id)
  <2>1. CASE r.id = 0
    <3> DEFINE S == {it \in q.items : it.node # r.node}
    <3>1. Dropped(q, r) = [q EXCEPT !.items = S] BY <2>1 DEF Dropped, DropNode, Queues
    <3>2. S \in SUBSET q.items /\ \A it \in q.items \ S : it.node = r.node
      OBVIOUS
    <3>3. QED BY <2>1, <3>1, <3>2
  <2>2. CASE r.id # 0 /\ \E it \in q.items : it.id = r.id /\ it.node = r.node
    <3> DEFINE S == {it \in q.items : it.id # r.id}
    <3>1. Dropped(q, r) = [q EXCEPT !.items = S] BY <2>2 DEF Dropped, Pop, Queues
    <3>2. S \in SUBSET q.items /\ \A it \in q.items \ S : it.id = r.id
      OBVIOUS
    <3>3. (\A a, b \in q.items : a.id = b.id => a = b) => \A it \in q.items \ S : it.node = r.node
      BY <2>2, <3>2
    <3>4. QED BY <3>1, <3>2, <3>3
  <2>3. CASE r.id # 0 /\ ~\E it \in q.items : it.id = r.id /\ it.node = r.node
    <3>1. Dropped(q, r) = [q EXCEPT !.items = q.items] BY <2>3 DEF Dropped, Queues
    <3>2. q.items \ q.items = {}
      OBVIOUS
    <3>3. QED BY <3>1, <3>2
  <2>4. QED BY <2>1, <2>2, <2>3
<1>2. [q EXCEPT !.items = S] \in Queues /\ IsFiniteSet(S) /\ Cardinality(S) <= Cardinality(q.items)
  BY PartOfQueue
<1>3. Dropped(q, r).items = S /\ Dropped(q, r).nextId = q.nextId /\ Dropped(q, r).nextOrder = q.nextOrder
  BY <1>1 DEF Queues
<1> QED BY <1>1, <1>2, <1>3

\* A finite set as a sequence.
LEMMA SetToSeqType ==
  ASSUME NEW S, IsFiniteSet(S)
  PROVE  SetToSeq(S) \in Seq(S)
<1>1. Cardinality(S) \in Nat /\ ExistsBijection(1 .. Cardinality(S), S) BY FS_CardinalityType
<1>2. \E f \in [1 .. Cardinality(S) -> S] : IsInjective(f)
  BY <1>1 DEF ExistsBijection, Bijection, Injection, IsInjective
<1>3. SetToSeq(S) \in [1 .. Cardinality(S) -> S] BY <1>2 DEF SetToSeq
<1> QED BY <1>1, <1>3

-----------------------------------------------------------------------------
(***************************************************************************)
(* Shapes                                                                  *)
(***************************************************************************)

LEMMA HostShapesFrame ==
  ASSUME HostShapes, scene' = scene, UNCHANGED <<pend, issued, outcome, got, reboots, dropped>>
  PROVE  HostShapes'
  BY SceneKept DEF HostShapes

LEMMA GwShapesFrame ==
  ASSUME GwShapes, scene' = scene, UNCHANGED <<queue, flag, gw, down, reqs>>
  PROVE  GwShapes'
  BY SceneKept DEF GwShapes

LEMMA NodeShapesFrame ==
  ASSUME NodeShapes, scene' = scene, UNCHANGED <<pc, up, sink, last, ran>>
  PROVE  NodeShapes'
  BY SceneKept DEF NodeShapes

LEMMA LoseType ==
  ASSUME HostShapes, Lose
  PROVE  dropped' \in Nat /\ dropped' > 0
  BY DEF HostShapes, Lose

\* Failed dialogs.
LEMMA FailShapes ==
  ASSUME HostShapes, scene' = scene, NEW cs, Fail(cs), UNCHANGED <<issued, got>>,
         reboots' \in Nat, dropped' \in Nat
  PROVE  HostShapes'
<1>1. pend' \in [Cmds -> {NoPending} \cup Dialogs] /\ outcome' \in [Cmds -> Outcomes]
  BY DEF Fail, HostShapes, Outcomes
<1> QED BY <1>1, SceneKept DEF HostShapes

\* A dialog that got a chunk, field by field.
LEMMA Furthered ==
  ASSUME NEW p \in Dialogs, NEW k \in Nat, NEW t \in BOOLEAN
  PROVE  [p EXCEPT !.queued = FALSE, !.delivered = TRUE, !.next = k, !.truncated = t] =
           [node |-> p.node, item |-> p.item, queued |-> FALSE, delivered |-> TRUE,
            next |-> k, truncated |-> t]
         /\ [p EXCEPT !.queued = FALSE, !.delivered = TRUE, !.next = k, !.truncated = t] \in Dialogs
<1>1. PICK p1 \in Dialogs : p1 = [p EXCEPT !.queued = FALSE] BY DEF Dialogs
<1>2. PICK p2 \in Dialogs : p2 = [p1 EXCEPT !.delivered = TRUE] BY DEF Dialogs
<1>3. PICK p3 \in Dialogs : p3 = [p2 EXCEPT !.next = k] BY DEF Dialogs
<1>4. PICK p4 \in Dialogs : p4 = [p3 EXCEPT !.truncated = t] BY DEF Dialogs
<1>5. p4 = [node |-> p3.node, item |-> p3.item, queued |-> p3.queued,
            delivered |-> p3.delivered, next |-> p3.next, truncated |-> t]
  BY <1>4 DEF Dialogs
<1>6. p3.node = p2.node /\ p3.item = p2.item /\ p3.queued = p2.queued
      /\ p3.delivered = p2.delivered /\ p3.next = k
  BY <1>3 DEF Dialogs
<1>7. p2.node = p1.node /\ p2.item = p1.item /\ p2.queued = p1.queued /\ p2.delivered = TRUE
  BY <1>2 DEF Dialogs
<1>8. p1.node = p.node /\ p1.item = p.item /\ p1.queued = FALSE BY <1>1 DEF Dialogs
<1> QED BY <1>1, <1>2, <1>3, <1>4, <1>5, <1>6, <1>7, <1>8

\* What a chunk does to the host's state and to the requests.
LEMMA ChunkShapes ==
  ASSUME HostShapes, GwShapes, scene' = scene, NEW f \in Ups, OnChunk(f)
  PROVE  /\ pend' \in [Cmds -> {NoPending} \cup Dialogs]
         /\ outcome' \in [Cmds -> Outcomes] /\ got' \in [Cmds -> SUBSET Nat]
         /\ reqs' \in Seq(Drops)
<1>0. pend \in [Cmds -> {NoPending} \cup Dialogs] /\ outcome \in [Cmds -> Outcomes]
      /\ got \in [Cmds -> SUBSET Nat] /\ reqs \in Seq(Drops)
  BY DEF HostShapes, GwShapes
<1>1. CASE f.cmd = 0 \/ ~Pending(f.cmd) BY <1>0, <1>1 DEF OnChunk
<1>2. CASE ~(f.cmd = 0 \/ ~Pending(f.cmd))
  <2> DEFINE c == f.cmd
             p == pend[c]
  <2>1. c \in Cmds /\ f.chunk \in Nat /\ f.last \in BOOLEAN /\ f.text \in BOOLEAN BY <1>2, SceneType DEF Ups
  <2>2. p \in Dialogs BY <1>0, <1>2, <2>1 DEF Pending
  <2>3. /\ reqs' = IF p.queued THEN Append(reqs, [node |-> p.node, id |-> p.item]) ELSE reqs
        /\ got' = IF f.text THEN [got EXCEPT ![c] = @ \cup {f.chunk}] ELSE got
        /\ pend' = [pend EXCEPT ![c] = IF f.last THEN NoPending ELSE
             [p EXCEPT !.queued = FALSE, !.delivered = TRUE, !.next = f.chunk + 1,
                       !.truncated = Truncated(p, f)]]
        /\ outcome' = IF f.last
             THEN [outcome EXCEPT ![c] = IF Truncated(p, f) THEN "truncated" ELSE "complete"]
             ELSE outcome
    BY <1>2 DEF OnChunk
  <2>4. Truncated(p, f) \in BOOLEAN BY <2>2 DEF Truncated, Dialogs
  <2>5. [p EXCEPT !.queued = FALSE, !.delivered = TRUE, !.next = f.chunk + 1,
                  !.truncated = Truncated(p, f)] \in Dialogs
    <3>1. f.chunk + 1 \in Nat BY <2>1
    <3> HIDE DEF p
    <3>2. QED BY <2>2, <2>4, <3>1, Furthered
  <2>6. [node |-> p.node, id |-> p.item] \in Drops BY <2>2, QueueAssumption DEF Dialogs, Drops
  <2> HIDE DEF c, p
  <2>7. pend' \in [Cmds -> {NoPending} \cup Dialogs] BY <1>0, <2>1, <2>3, <2>5
  <2>8. outcome' \in [Cmds -> Outcomes] BY <1>0, <2>1, <2>3 DEF Outcomes
  <2>9. got' \in [Cmds -> SUBSET Nat] BY <1>0, <2>1, <2>3
  <2>10. reqs' \in Seq(Drops) BY <1>0, <2>3, <2>6
  <2> QED BY <2>7, <2>8, <2>9, <2>10
<1> QED BY <1>1, <1>2

\* A dialog that begins, field by field.
LEMMA AskedIs ==
  ASSUME NEW n \in Nodes, NEW id \in 1 .. MaxId
  PROVE  /\ [NoPending EXCEPT !.node = n, !.item = id, !.queued = TRUE] =
              [node |-> n, item |-> id, queued |-> TRUE, delivered |-> FALSE,
               next |-> 0, truncated |-> FALSE]
         /\ [NoPending EXCEPT !.node = n, !.item = id, !.queued = TRUE] \in Dialogs
<1> DEFINE Loose == [node : Nodes \cup {"none"}, item : 0 .. MaxId, queued : BOOLEAN,
                     delivered : BOOLEAN, next : Nat, truncated : BOOLEAN]
<1>1. NoPending \in Loose /\ id \in 0 .. MaxId BY QueueAssumption DEF NoPending
<1>2. PICK p1 \in Loose : p1 = [NoPending EXCEPT !.node = n] BY <1>1
<1>3. PICK p2 \in Loose : p2 = [p1 EXCEPT !.item = id] BY <1>1
<1>4. PICK p3 \in Loose : p3 = [p2 EXCEPT !.queued = TRUE]
  OBVIOUS
<1>5. p1.node = n /\ p1.delivered = FALSE /\ p1.next = 0 /\ p1.truncated = FALSE BY <1>1, <1>2 DEF NoPending
<1>6. p2.node = p1.node /\ p2.item = id /\ p2.delivered = p1.delivered /\ p2.next = p1.next
      /\ p2.truncated = p1.truncated
  BY <1>3
<1>7. p3 = [node |-> p2.node, item |-> p2.item, queued |-> TRUE, delivered |-> p2.delivered,
            next |-> p2.next, truncated |-> p2.truncated]
  BY <1>4
<1>8. [node |-> n, item |-> id, queued |-> TRUE, delivered |-> FALSE, next |-> 0, truncated |-> FALSE]
        \in Dialogs
  BY DEF Dialogs
<1>9. p3 = [NoPending EXCEPT !.node = n, !.item = id, !.queued = TRUE] BY <1>2, <1>3, <1>4
<1>10. p3 = [node |-> n, item |-> id, queued |-> TRUE, delivered |-> FALSE, next |-> 0, truncated |-> FALSE]
  BY <1>5, <1>6, <1>7
<1> HIDE DEF Loose
<1> QED BY <1>8, <1>9, <1>10

LEMMA HostShapesStep ==
  ASSUME HostShapes, GwShapes, NodeShapes, QueueInv, ShellNext
  PROVE  HostShapes'
<1>0. scene' = scene BY Cases
<1>1. reboots \in Nat /\ dropped \in Nat BY DEF HostShapes
<1>2. Cmds' = Cmds BY <1>0, SceneKept
<1>3. CASE Resync BY <1>0, <1>1, <1>3, FailShapes DEF Resync, counts
<1>4. CASE DropRpc BY <1>0, <1>1, <1>4, FailShapes DEF DropRpc, DropItem, counts
<1>5. CASE \E n \in Nodes : Issue(n)
  <2>1. PICK n \in Nodes : Issue(n) BY <1>5
  <2>2. issued \in 0 .. scene.cmds /\ scene.cmds \in Nat /\ scene \in Scenes
        /\ pend \in [Cmds -> {NoPending} \cup Dialogs] /\ outcome \in [Cmds -> Outcomes]
        /\ got \in [Cmds -> SUBSET Nat]
    BY SceneType DEF HostShapes
  <2>3. issued' = issued + 1 /\ issued' \in 0 .. scene.cmds /\ issued' \in Cmds
    BY <2>1, <2>2 DEF Issue, Cmds
  <2>4. got' = got /\ reboots' = reboots BY <2>1 DEF Issue
  <2>5. dropped' \in Nat BY <2>1, <1>1, LoseType DEF Issue
  <2>6. outcome' \in [Cmds -> Outcomes]
    <3>1. outcome' = outcome \/ outcome' = [outcome EXCEPT ![issued'] = "error"] BY <2>1 DEF Issue
    <3>2. QED BY <2>2, <3>1 DEF Outcomes
  <2>7. pend' \in [Cmds -> {NoPending} \cup Dialogs]
    <3>1. CASE pend' = pend BY <2>2, <3>1
    <3>2. CASE /\ HasRoom(queue, n)
               /\ pend' = [pend EXCEPT ![issued'] =
                    [NoPending EXCEPT !.node = n, !.item = FreeId(queue), !.queued = TRUE]]
      <4>1. FreeId(queue) \in 1 .. MaxId BY <3>2, FreeIdIsFree DEF HasRoom, GwShapes, Queues
      <4>3. [NoPending EXCEPT !.node = n, !.item = FreeId(queue), !.queued = TRUE] \in Dialogs
        BY <4>1, AskedIs
      <4>4. QED BY <2>2, <3>2, <4>3
    <3>3. QED BY <2>1, <3>1, <3>2 DEF Issue
  <2>8. QED BY <1>0, <1>1, <1>2, <2>2, <2>3, <2>4, <2>5, <2>6, <2>7 DEF HostShapes
<1>6. CASE \E c \in Cmds : GiveUp(c) BY <1>0, <1>1, <1>6, FailShapes DEF GiveUp, counts
<1>7. CASE \E n \in Nodes : TakeUplink(n)
  <2>1. PICK n \in Nodes : TakeUplink(n) BY <1>7
  <2>2. up[n] \in Ups BY DEF NodeShapes
  <2>3. issued' = issued /\ reboots' = reboots BY <2>1 DEF TakeUplink
  <2>4. CASE OnChunk(up[n]) /\ dropped' = dropped
    BY <1>0, <1>1, <1>2, <2>2, <2>3, <2>4, ChunkShapes DEF HostShapes
  <2>5. CASE Lose /\ UNCHANGED <<pend, outcome, got, reqs>>
    BY <1>0, <1>1, <1>2, <2>3, <2>5, LoseType DEF HostShapes
  <2>6. QED BY <2>1, <2>4, <2>5 DEF TakeUplink
<1>8. CASE SendEnds
  <2>1. UNCHANGED <<issued, outcome, got, reboots>> BY <1>8 DEF SendEnds
  <2>2. dropped' \in Nat BY <1>1, <1>8, LoseType DEF SendEnds
  <2>3. pend' \in [Cmds -> {NoPending} \cup Dialogs]
    <3>1. CASE pend' = pend BY <3>1 DEF HostShapes
    <3>2. CASE pend' = [c \in Cmds |->
                  IF c \in Meant(down.node, down.id)
                  THEN [pend[c] EXCEPT !.delivered = TRUE, !.queued = FALSE] ELSE pend[c]]
      <4>1. ASSUME NEW c \in Cmds
            PROVE  [pend[c] EXCEPT !.delivered = TRUE, !.queued = FALSE] \in {NoPending} \cup Dialogs
                   \/ c \notin Meant(down.node, down.id)
        <5>1. CASE pend[c] \in Dialogs BY <5>1 DEF Dialogs
        <5>2. CASE pend[c] = NoPending
          <6>1. pend[c].node # down.node \/ pend[c].item # down.id
            <7>1. pend[c].node = "none" /\ pend[c].item = 0 BY <5>2 DEF NoPending
            <7>2. down \in Sends \/ down = NoDown BY DEF GwShapes
            <7>3. down \in Sends => down.node # "none" BY ShellAssumption DEF Sends
            <7>4. CASE down = NoDown
              <8>1. gw.at = "sending" => down # NoDown BY DEF QueueInv, LoopInv
              <8>2. QED BY <8>1, <7>4, <1>8 DEF SendEnds
            <7>5. QED BY <7>1, <7>2, <7>3, <7>4
          <6>2. QED BY <6>1 DEF Meant
        <5>3. QED BY <5>1, <5>2 DEF HostShapes
      <4>2. pend \in [Cmds -> {NoPending} \cup Dialogs] BY DEF HostShapes
      <4>3. QED BY <3>2, <4>1, <4>2
    <3>3. QED BY <1>8, <3>1, <3>2 DEF SendEnds
  <2>4. QED BY <1>0, <1>1, <1>2, <2>1, <2>2, <2>3 DEF HostShapes
<1>9. CASE Expire
  <2>1. CASE Lose /\ UNCHANGED <<pend, outcome>>
    BY <1>0, <1>1, <1>2, <1>9, <2>1, LoseType DEF Expire, HostShapes
  <2>2. CASE Fail(UNION {Meant(it.node, it.id) : it \in Expired(queue)}) /\ UNCHANGED dropped
    BY <1>0, <1>1, <1>9, <2>2, FailShapes DEF Expire
  <2>3. QED BY <1>9, <2>1, <2>2 DEF Expire
<1>10. CASE ServeDrop
  <2>1. dropped' \in Nat BY <1>1, <1>10, LoseType DEF ServeDrop
  <2>2. QED BY <1>0, <1>2, <1>10, <2>1 DEF ServeDrop, HostShapes
<1>11. CASE GwReboot BY <1>0, <1>1, <1>11, FailShapes DEF GwReboot
<1>12. CASE \E n \in Nodes : NodeReboot(n) BY <1>0, <1>2, <1>12 DEF NodeReboot, hostVars, HostShapes
<1>13. CASE UNCHANGED <<pend, issued, outcome, got, reboots, dropped>> BY <1>0, <1>13, HostShapesFrame
<1>14. (\/ (\E n \in Nodes : ReAck(n)) \/ Serve \/ (\E it \in queue.items : Lapse(it))
        \/ (\E n \in Nodes : Wake(n)) \/ (\E n \in Nodes : UplinkEnds(n))
        \/ (\E n \in Nodes : WindowEnds(n)) \/ (\E n \in Nodes : TakeCommand(n))
        \/ (\E n \in Nodes : SendChunk(n)) \/ (\E n \in Nodes : ChunkEnds(n)))
       => UNCHANGED <<pend, issued, outcome, got, reboots, dropped>>
  BY DEF ReAck, Serve, Lapse, Wake, UplinkEnds, WindowEnds, TakeCommand, SendChunk, ChunkEnds,
         nodeOnly, hostVars, counts
<1> QED BY <1>3, <1>4, <1>5, <1>6, <1>7, <1>8, <1>9, <1>10, <1>11, <1>12, <1>13, <1>14, Cases

LEMMA GwShapesStep ==
  ASSUME HostShapes, GwShapes, NodeShapes, QueueInv, ShellNext
  PROVE  GwShapes'
<1>0. scene' = scene BY Cases
<1>1. /\ queue \in Queues /\ IsFiniteSet(queue.items) /\ flag \in [Nodes -> BOOLEAN]
      /\ gw \in {Idle} \cup [at : {"serving", "sending"}, node : Nodes]
      /\ down \in {NoDown} \cup Sends /\ reqs \in Seq(Drops)
  BY DEF GwShapes, Queues
<1>2. Cmds' = Cmds /\ Items' = Items /\ Sends' = Sends BY <1>0, SceneKept
<1>3. SUFFICES /\ queue' \in Queues /\ IsFiniteSet(queue'.items) /\ flag' \in [Nodes -> BOOLEAN]
               /\ gw' \in {Idle} \cup [at : {"serving", "sending"}, node : Nodes]
               /\ down' \in {NoDown} \cup Sends /\ reqs' \in Seq(Drops)
  BY <1>2 DEF GwShapes, Queues
<1>4. ASSUME NEW q, NEW n, flag' = SetPending(q, n) PROVE flag' \in [Nodes -> BOOLEAN]
  <2>0. (CountFor(q, n) > 0) \in BOOLEAN BY SMT
  <2>1. PICK b \in BOOLEAN : b = (CountFor(q, n) > 0) BY <2>0, Zenon
  <2>2. flag' = [flag EXCEPT ![n] = b] BY <1>4, <2>1, Zenon DEF SetPending
  <2>3. QED BY <1>1, <2>2
<1>5. CASE Resync
  <2>1. UNCHANGED <<queue, flag, gw, down>> BY <1>5 DEF Resync
  <2> DEFINE known(it) == \E c \in Cmds : pend[c].item = it.id /\ pend[c].node = it.node
             S == {i \in queue.items : ~known(i)}
             T == {[node |-> it.node, id |-> it.id] : it \in S}
  <2>2. reqs' = SetToSeq(T) BY <1>5 DEF Resync
  <2>3. IsFiniteSet(S) BY <1>1, FS_Subset
  <2>4. [it \in S |-> [node |-> it.node, id |-> it.id]] \in Surjection(S, T) BY DEF Surjection
  <2>5. IsFiniteSet(T) BY <2>3, <2>4, FS_Surjection
  <2>6. T \subseteq Drops
    <3>1. \A it \in queue.items : it \in Items BY <1>1 DEF Queues
    <3>2. \A it \in queue.items : it.node \in Nodes /\ it.id \in 0 .. MaxId
      BY <3>1, QueueAssumption DEF Items
    <3>3. QED BY <3>2 DEF Drops
  <2> HIDE DEF T
  <2>7. reqs' \in Seq(T) BY <2>2, <2>5, SetToSeqType
  <2>8. reqs' \in Seq(Drops) BY <2>6, <2>7
  <2>9. QED BY <1>1, <2>1, <2>8
<1>6. CASE DropRpc
  <2>1. PICK it \in queue.items : \E id \in {0, it.id} : DropItem(it.node, id) BY <1>6 DEF DropRpc
  <2>2. PICK id \in {0, it.id} : DropItem(it.node, id) BY <2>1
  <2>3. it \in Items BY <1>1 DEF Queues
  <2>4. [node |-> it.node, id |-> id] \in Drops BY <2>3, QueueAssumption DEF Items, Drops
  <2>5. reqs' = Append(reqs, [node |-> it.node, id |-> id]) /\ UNCHANGED <<queue, flag, gw, down>>
    BY <2>2 DEF DropItem
  <2>6. reqs' \in Seq(Drops) BY <1>1, <2>4, <2>5
  <2>7. QED BY <1>1, <2>5, <2>6
<1>7. CASE \E n \in Nodes : Issue(n)
  <2>1. PICK n \in Nodes : Issue(n) BY <1>7
  <2>2. UNCHANGED <<gw, down, reqs>> BY <2>1 DEF Issue
  <2>3. CASE UNCHANGED <<queue, flag>> BY <1>1, <2>2, <2>3
  <2>4. CASE HasRoom(queue, n) /\ queue' = Push(queue, n, issued') /\ flag' = Premark(queue, n)
    <3>1. issued' \in Cmds BY <2>1, SceneType DEF Issue, HostShapes
    <3> DEFINE it == [id |-> FreeId(queue), node |-> n, cmd |-> issued', order |-> queue.nextOrder, stale |-> FALSE]
    <3>2. queue' \in Queues /\ queue'.items = queue.items \cup {it} /\ IsFiniteSet(queue.items \cup {it})
      BY <1>1, <2>4, <3>1, PushIs, ZenonT(30)
    <3>3. flag' \in [Nodes -> BOOLEAN] BY <1>1, <2>4 DEF Premark
    <3>4. QED BY <1>1, <2>2, <3>2, <3>3
  <2>5. QED BY <2>1, <2>3, <2>4 DEF Issue
<1>8. CASE \E n \in Nodes : TakeUplink(n)
  <2>1. PICK n \in Nodes : TakeUplink(n) BY <1>8
  <2>2. up[n] \in Ups BY DEF NodeShapes
  <2>3. UNCHANGED <<queue, flag, down>> /\ gw' = [at |-> "serving", node |-> n] BY <2>1 DEF TakeUplink
  <2>4. reqs' \in Seq(Drops) BY <1>0, <1>1, <2>1, <2>2, ChunkShapes DEF TakeUplink
  <2>5. QED BY <1>1, <2>3, <2>4
<1>9. CASE Serve
  <2>0. UNCHANGED <<queue, reqs>> /\ gw.at = "serving" BY <1>9 DEF Serve
  <2>00. gw \in [at : {"serving", "sending"}, node : Nodes] BY <1>1, <2>0 DEF Idle
  <2>1. CASE \E it \in PeekFor(queue, gw.node) :
               /\ down' = [node |-> it.node, id |-> it.id, cmd |-> it.cmd, taken |-> FALSE]
               /\ gw' = [gw EXCEPT !.at = "sending"] /\ UNCHANGED flag
    <3>1. PICK it \in PeekFor(queue, gw.node) :
               /\ down' = [node |-> it.node, id |-> it.id, cmd |-> it.cmd, taken |-> FALSE]
               /\ gw' = [gw EXCEPT !.at = "sending"] /\ UNCHANGED flag
      BY <2>1
    <3>2. it \in Items BY <1>1 DEF PeekFor, Live, Queues
    <3>3. down' \in Sends BY <3>1, <3>2 DEF Items, Sends
    <3>4. gw' \in [at : {"serving", "sending"}, node : Nodes] BY <2>00, <3>1
    <3>5. QED BY <1>1, <2>0, <3>1, <3>3, <3>4
  <2>2. CASE gw' = Idle /\ flag' = SetPending(queue, gw.node) /\ UNCHANGED down BY <1>1, <1>4, <2>0, <2>2
  <2>3. QED BY <1>9, <2>1, <2>2 DEF Serve
<1>10. CASE SendEnds
  <2>1. gw' = Idle /\ down' = NoDown /\ UNCHANGED reqs /\ flag' = SetPending(queue', gw.node)
    BY <1>10 DEF SendEnds
  <2>2. queue' \in Queues /\ IsFiniteSet(queue'.items)
    <3>1. CASE queue' = queue BY <1>1, <3>1
    <3>2. CASE queue' = Pop(queue, down.id)
      <4> DEFINE S == {it \in queue.items : it.id # down.id}
      <4>1. queue' = [queue EXCEPT !.items = S] BY <1>1, <3>2 DEF Pop, Queues
      <4>2. queue' \in Queues /\ IsFiniteSet(S) BY <1>1, <4>1, PartOfQueue
      <4>3. queue'.items = S BY <1>1, <4>1 DEF Queues
      <4>4. QED BY <4>2, <4>3
    <3>3. QED BY <1>10, <3>1, <3>2 DEF SendEnds
  <2>3. QED BY <1>1, <1>4, <2>1, <2>2
<1>11. CASE \E it \in queue.items : Lapse(it)
  <2>1. PICK it \in queue.items : Lapse(it) BY <1>11
  <2>2. UNCHANGED <<flag, gw, down, reqs>> /\ queue' = Age(queue, it) BY <2>1 DEF Lapse
  <2> DEFINE old == [it EXCEPT !.stale = TRUE]
  <2>3. /\ Age(queue, it) \in Queues /\ Age(queue, it).items = (queue.items \ {it}) \cup {old}
        /\ IsFiniteSet((queue.items \ {it}) \cup {old})
    BY <1>1, AgeIs
  <2>4. QED BY <1>1, <2>2, <2>3
<1>12. CASE Expire
  <2>1. UNCHANGED <<gw, down, reqs>> /\ queue' = [queue EXCEPT !.items = @ \ Expired(queue)]
    BY <1>12 DEF Expire
  <2> DEFINE S == queue.items \ Expired(queue)
  <2>2. queue' = [queue EXCEPT !.items = S] BY <1>1, <2>1 DEF Queues
  <2>3. queue' \in Queues /\ IsFiniteSet(S) BY <1>1, <2>2, PartOfQueue
  <2>4. queue'.items = S BY <1>1, <2>2 DEF Queues
  <2>5. flag' \in [Nodes -> BOOLEAN]
    <3>1. \A n \in Nodes : flag[n] \in BOOLEAN BY <1>1
    <3>2. flag' = [n \in Nodes |-> IF \E it \in Expired(queue) : it.node = n
                                  THEN CountFor(queue', n) > 0 ELSE flag[n]]
      BY <1>12 DEF Expire
    <3>3. \A n \in Nodes : (CountFor(queue', n) > 0) \in BOOLEAN BY SMT
    <3>4. QED BY <3>1, <3>2, <3>3, Zenon
  <2>6. QED BY <1>1, <2>1, <2>3, <2>4, <2>5
<1>13. CASE ServeDrop
  <2>1. UNCHANGED <<gw, down>> /\ reqs # <<>> /\ reqs' = Tail(reqs) BY <1>13 DEF ServeDrop
  <2>2. reqs' \in Seq(Drops) /\ Head(reqs) \in Drops BY <1>1, <2>1
  <2>3. CASE queue' = Dropped(queue, Head(reqs)) /\ flag' = SetPending(queue', Head(reqs).node)
    BY <1>1, <1>4, <2>1, <2>2, <2>3, DroppedIs
  <2>4. CASE UNCHANGED <<queue, flag>> BY <1>1, <2>1, <2>2, <2>4
  <2>5. QED BY <1>13, <2>3, <2>4 DEF ServeDrop
<1>14. CASE GwReboot
  <2>1. queue' = NewQueue /\ flag' = [n \in Nodes |-> FALSE] /\ gw' = Idle /\ down' = NoDown
        /\ (reqs' = reqs \/ (reqs # <<>> /\ reqs' = Tail(reqs)))
    BY <1>14 DEF GwReboot
  <2>2. reqs' \in Seq(Drops) BY <1>1, <2>1
  <2>3. queue' \in Queues /\ IsFiniteSet(queue'.items)
    BY <2>1, FS_EmptySet, QueueAssumption DEF NewQueue, Queues
  <2>4. flag' \in [Nodes -> BOOLEAN] BY <2>1
  <2>5. QED BY <2>1, <2>2, <2>3, <2>4
<1>15. CASE \E n \in Nodes : TakeCommand(n)
  <2>1. PICK n \in Nodes : TakeCommand(n) BY <1>15
  <2>2. UNCHANGED <<queue, flag, gw, reqs>> /\ down' = [down EXCEPT !.taken = TRUE] /\ down.node = n
    BY <2>1 DEF TakeCommand, nodeOnly
  <2>3. down \in Sends BY <1>1, <2>2, ShellAssumption DEF NoDown
  <2>4. down' \in Sends BY <2>2, <2>3 DEF Sends
  <2>5. QED BY <1>1, <2>2, <2>4
<1>16. CASE UNCHANGED <<queue, flag, gw, down, reqs>> BY <1>1, <1>16
<1>17. (\/ (\E c \in Cmds : GiveUp(c)) \/ (\E n \in Nodes : ReAck(n)) \/ (\E n \in Nodes : NodeReboot(n))
        \/ (\E n \in Nodes : Wake(n)) \/ (\E n \in Nodes : UplinkEnds(n))
        \/ (\E n \in Nodes : WindowEnds(n)) \/ (\E n \in Nodes : SendChunk(n))
        \/ (\E n \in Nodes : ChunkEnds(n)))
       => UNCHANGED <<queue, flag, gw, down, reqs>>
  BY DEF GiveUp, ReAck, NodeReboot, Wake, UplinkEnds, WindowEnds, SendChunk, ChunkEnds,
         nodeOnly, gwVars, counts
<1> QED BY <1>5, <1>6, <1>7, <1>8, <1>9, <1>10, <1>11, <1>12, <1>13, <1>14, <1>15, <1>16, <1>17, Cases

LEMMA EmptyRecords ==
  ASSUME HostShapes
  PROVE  NoUp \in Ups /\ NoSink \in Sinks /\ NoLast \in Lasts
  BY SceneType DEF NoUp, NoSink, NoLast, Ups, Sinks, Lasts

\* An uplink taken, or acknowledged again.
LEMMA TakenUp ==
  ASSUME NodeShapes, flag \in [Nodes -> BOOLEAN], NEW n \in Nodes,
         up' = [up EXCEPT ![n].taken = TRUE, ![n].flags = @ \cup {flag[n]}]
  PROVE  \E u \in Ups : /\ up' = [up EXCEPT ![n] = u]
                        /\ u.cmd = up[n].cmd /\ u.chunk = up[n].chunk /\ u.last = up[n].last
                        /\ u.text = up[n].text /\ u.taken = TRUE
<1>0. up \in [Nodes -> Ups] /\ up[n] \in Ups /\ flag[n] \in BOOLEAN BY DEF NodeShapes
<1>1. PICK u1 \in Ups : u1 = [up[n] EXCEPT !.taken = TRUE] BY <1>0 DEF Ups
<1>2. u1.cmd = up[n].cmd /\ u1.chunk = up[n].chunk /\ u1.last = up[n].last
      /\ u1.text = up[n].text /\ u1.taken = TRUE /\ u1.flags \in SUBSET BOOLEAN
  BY <1>0, <1>1 DEF Ups
<1>3. u1.flags \cup {flag[n]} \in SUBSET BOOLEAN BY <1>0, <1>2
<1>4. PICK u \in Ups : u = [u1 EXCEPT !.flags = u1.flags \cup {flag[n]}] BY <1>3 DEF Ups
<1>5. u.cmd = u1.cmd /\ u.chunk = u1.chunk /\ u.last = u1.last /\ u.text = u1.text /\ u.taken = u1.taken
  BY <1>4 DEF Ups
<1>6. up' = [[up EXCEPT ![n] = u1] EXCEPT ![n] = [u1 EXCEPT !.flags = u1.flags \cup {flag[n]}]]
  BY <1>0, <1>1
<1>7. up' = [up EXCEPT ![n] = u] BY <1>0, <1>4, <1>6
<1> QED BY <1>2, <1>5, <1>7

LEMMA ReAckedUp ==
  ASSUME NodeShapes, flag \in [Nodes -> BOOLEAN], NEW n \in Nodes,
         up' = [up EXCEPT ![n].flags = @ \cup {flag[n]}]
  PROVE  \E u \in Ups : /\ up' = [up EXCEPT ![n] = u]
                        /\ u.cmd = up[n].cmd /\ u.chunk = up[n].chunk /\ u.last = up[n].last
                        /\ u.text = up[n].text /\ u.taken = up[n].taken
<1>0. up \in [Nodes -> Ups] /\ up[n] \in Ups /\ flag[n] \in BOOLEAN BY DEF NodeShapes
<1>1. up[n].flags \cup {flag[n]} \in SUBSET BOOLEAN BY <1>0 DEF Ups
<1>2. PICK u \in Ups : u = [up[n] EXCEPT !.flags = up[n].flags \cup {flag[n]}] BY <1>0, <1>1 DEF Ups
<1>3. u.cmd = up[n].cmd /\ u.chunk = up[n].chunk /\ u.last = up[n].last
      /\ u.text = up[n].text /\ u.taken = up[n].taken
  BY <1>0, <1>2 DEF Ups
<1>4. up' = [up EXCEPT ![n] = u] BY <1>0, <1>2
<1> QED BY <1>3, <1>4

\* A chunk on its way.
LEMMA SentUp ==
  ASSUME HostShapes, NodeShapes, NEW n \in Nodes, SendChunk(n)
  PROVE  \E u \in Ups : /\ up' = [up EXCEPT ![n] = u] /\ u.taken = FALSE
                        /\ u.cmd = sink[n].cmd /\ u.chunk = sink[n].chunk
                        /\ u.last = (sink[n].chunk = sink[n].end) /\ u.text = sink[n].text
<1>0. sink[n] \in Sinks /\ NoUp \in Ups BY EmptyRecords DEF NodeShapes
<1>1. PICK l \in BOOLEAN : l = (sink[n].chunk = sink[n].end) BY Zenon
<1>2. PICK u1 \in Ups : u1 = [NoUp EXCEPT !.cmd = sink[n].cmd] BY <1>0 DEF Ups, Sinks
<1>3. PICK u2 \in Ups : u2 = [u1 EXCEPT !.chunk = sink[n].chunk] BY <1>0 DEF Ups, Sinks
<1>4. PICK u3 \in Ups : u3 = [u2 EXCEPT !.last = l] BY <1>0 DEF Ups
<1>5. PICK u \in Ups : u = [u3 EXCEPT !.text = sink[n].text] BY <1>0 DEF Ups, Sinks
<1>6. u1.cmd = sink[n].cmd /\ u1.taken = FALSE BY <1>0, <1>2 DEF Ups, NoUp
<1>7. u2.cmd = u1.cmd /\ u2.taken = u1.taken /\ u2.chunk = sink[n].chunk BY <1>3 DEF Ups
<1>8. u3.cmd = u2.cmd /\ u3.taken = u2.taken /\ u3.chunk = u2.chunk /\ u3.last = l BY <1>4 DEF Ups
<1>9. u.cmd = u3.cmd /\ u.taken = u3.taken /\ u.chunk = u3.chunk /\ u.last = u3.last /\ u.text = sink[n].text
  BY <1>5 DEF Ups
<1>10. u = [NoUp EXCEPT !.cmd = sink[n].cmd, !.chunk = sink[n].chunk, !.last = l, !.text = sink[n].text]
  BY <1>2, <1>3, <1>4, <1>5
<1>11. up' = [up EXCEPT ![n] = u] BY <1>1, <1>10 DEF SendChunk, Uplink
<1> QED BY <1>1, <1>6, <1>7, <1>8, <1>9, <1>11

\* What the window makes of a command.
LEMMA TakenSink ==
  ASSUME HostShapes, GwShapes, NodeShapes, NEW n \in Nodes, TakeCommand(n)
  PROVE  /\ down \in Sends /\ down.cmd \in Cmds
         /\ \E s \in Sinks :
              /\ sink' = [sink EXCEPT ![n] = s] /\ s.cmd = down.cmd
              /\ \/ /\ last[n].cmd = down.cmd /\ s.text = FALSE /\ s.chunk = s.end /\ ran' = ran
                    /\ s.chunk = IF last[n].lost = 0 THEN 0 ELSE last[n].lost + 1
                 \/ /\ last[n].cmd # down.cmd /\ s.text = TRUE /\ s.chunk = 0 /\ s.end = Chunks - 1
                    /\ ran' = [ran EXCEPT ![n] = Append(ran[n], down.cmd)]
<1>0. NoSink \in Sinks /\ last[n] \in Lasts /\ Chunks \in Nat /\ Chunks >= 1 /\ scene.cmds \in Nat
  BY EmptyRecords, SceneType DEF NodeShapes
<1>1. down \in Sends /\ down.cmd \in Cmds BY ShellAssumption DEF TakeCommand, GwShapes, NoDown, Sends
<1>2. down.cmd \in 0 .. scene.cmds /\ last[n].lost \in Nat BY <1>0, <1>1 DEF Cmds, Lasts
<1>3. PICK s1 \in Sinks : s1 = [NoSink EXCEPT !.cmd = down.cmd] BY <1>0, <1>2 DEF Sinks
<1>4. s1.cmd = down.cmd /\ s1.chunk = 0 /\ s1.text = FALSE /\ s1.end = 0 BY <1>0, <1>3 DEF Sinks, NoSink
<1>5. CASE last[n].cmd = down.cmd
  <2>1. sink' = [sink EXCEPT ![n] = RepeatReply(n, down.cmd)] /\ ran' = ran
    BY <1>5 DEF TakeCommand, Repeated
  <2>2. CASE last[n].lost = 0
    <3>1. PICK s \in Sinks : s = [s1 EXCEPT !.end = 0] BY DEF Sinks
    <3>2. s.cmd = s1.cmd /\ s.chunk = s1.chunk /\ s.text = s1.text /\ s.end = 0 BY <3>1 DEF Sinks
    <3>3. RepeatReply(n, down.cmd) = s BY <2>2, <3>1, <1>3 DEF RepeatReply
    <3>4. QED BY <1>1, <1>4, <1>5, <2>1, <2>2, <3>2, <3>3
  <2>3. CASE last[n].lost # 0
    <3>0. last[n].lost + 1 \in Nat BY <1>2
    <3>1. PICK s2 \in Sinks : s2 = [s1 EXCEPT !.chunk = last[n].lost + 1] BY <3>0 DEF Sinks
    <3>2. PICK s \in Sinks : s = [s2 EXCEPT !.end = last[n].lost + 1] BY <3>0 DEF Sinks
    <3>3. s2.cmd = s1.cmd /\ s2.chunk = last[n].lost + 1 /\ s2.text = s1.text BY <3>1 DEF Sinks
    <3>4. s.cmd = s2.cmd /\ s.chunk = s2.chunk /\ s.text = s2.text /\ s.end = last[n].lost + 1
      BY <3>2 DEF Sinks
    <3>5. RepeatReply(n, down.cmd) = s BY <2>3, <3>1, <3>2, <1>3 DEF RepeatReply
    <3>6. QED BY <1>1, <1>4, <1>5, <2>1, <2>3, <3>3, <3>4, <3>5
  <2>4. QED BY <2>2, <2>3
<1>6. CASE last[n].cmd # down.cmd
  <2>0. Chunks - 1 \in Nat BY <1>0
  <2>1. PICK s2 \in Sinks : s2 = [s1 EXCEPT !.end = Chunks - 1] BY <2>0 DEF Sinks
  <2>2. PICK s \in Sinks : s = [s2 EXCEPT !.text = TRUE] BY DEF Sinks
  <2>3. s2.cmd = s1.cmd /\ s2.chunk = s1.chunk /\ s2.end = Chunks - 1 BY <2>1 DEF Sinks
  <2>4. s.cmd = s2.cmd /\ s.chunk = s2.chunk /\ s.end = s2.end /\ s.text = TRUE BY <2>2 DEF Sinks
  <2>5. sink' = [sink EXCEPT ![n] = [NoSink EXCEPT !.cmd = down.cmd, !.end = Chunks - 1, !.text = TRUE]]
        /\ ran' = [ran EXCEPT ![n] = Append(ran[n], down.cmd)]
    BY <1>6 DEF TakeCommand, Repeated
  <2>6. s = [NoSink EXCEPT !.cmd = down.cmd, !.end = Chunks - 1, !.text = TRUE] BY <2>1, <2>2, <1>3
  <2>7. QED BY <1>1, <1>4, <1>6, <2>3, <2>4, <2>5, <2>6
<1> QED BY <1>5, <1>6

\* A chunk's fate: the next chunk is due, or the reply is over and remembered.
LEMMA ChunkFate ==
  ASSUME NodeShapes, NEW n \in Nodes, ChunkEnds(n)
  PROVE  /\ up' = [up EXCEPT ![n] = NoUp] /\ pc[n] = "chunk"
         /\ \/ /\ up[n].taken /\ ~up[n].last /\ last' = last /\ pc' = [pc EXCEPT ![n] = "reply"]
               /\ \E s \in Sinks :
                    /\ sink' = [sink EXCEPT ![n] = s] /\ s.cmd = sink[n].cmd
                    /\ s.chunk = sink[n].chunk + 1 /\ s.end = sink[n].end /\ s.text = sink[n].text
            \/ /\ sink' = [sink EXCEPT ![n] = NoSink]
               /\ \E q \in {"window", "asleep"} : pc' = [pc EXCEPT ![n] = q]
               /\ \E r \in Lasts :
                    /\ last' = [last EXCEPT ![n] = r]
                    /\ \/ ~sink[n].text /\ r = last[n]
                       \/ /\ sink[n].text /\ r.cmd = sink[n].cmd
                          /\ \/ up[n].taken /\ up[n].last /\ r.lost = 0
                             \/ r.lost = sink[n].chunk + 1
<1>0. sink \in [Nodes -> Sinks] /\ sink[n] \in Sinks /\ last[n] \in Lasts /\ up[n] \in Ups BY DEF NodeShapes
<1>1. up' = [up EXCEPT ![n] = NoUp] /\ pc[n] = "chunk" BY DEF ChunkEnds
<1>2. ASSUME NEW l \in Nat
      PROVE  /\ Remembered(n, l) \in Lasts
             /\ \/ ~sink[n].text /\ Remembered(n, l) = last[n]
                \/ sink[n].text /\ Remembered(n, l).cmd = sink[n].cmd /\ Remembered(n, l).lost = l
  BY <1>0 DEF Remembered, Sinks, Lasts
<1>3. CASE /\ up[n].taken /\ ~up[n].last
           /\ sink' = [sink EXCEPT ![n].chunk = @ + 1] /\ pc' = [pc EXCEPT ![n] = "reply"]
           /\ UNCHANGED last
  <2>0. sink[n].chunk + 1 \in Nat BY <1>0 DEF Sinks
  <2>1. PICK s \in Sinks : s = [sink[n] EXCEPT !.chunk = sink[n].chunk + 1] BY <1>0, <2>0 DEF Sinks
  <2>2. s.cmd = sink[n].cmd /\ s.chunk = sink[n].chunk + 1 /\ s.end = sink[n].end /\ s.text = sink[n].text
    BY <1>0, <2>1 DEF Sinks
  <2>3. sink' = [sink EXCEPT ![n] = s] BY <1>0, <1>3, <2>1
  <2>4. QED BY <1>1, <1>3, <2>2, <2>3
<1>4. CASE /\ up[n].taken /\ up[n].last
           /\ sink' = [sink EXCEPT ![n] = NoSink]
           /\ last' = [last EXCEPT ![n] = Remembered(n, 0)]
           /\ \E pending \in up[n].flags : Chain(n, pending)
  <2>1. \E q \in {"window", "asleep"} : pc' = [pc EXCEPT ![n] = q] BY <1>4 DEF Chain
  <2>2. 0 \in Nat
    OBVIOUS
  <2>3. QED BY <1>1, <1>2, <1>4, <2>1, <2>2
<1>5. CASE /\ sink' = [sink EXCEPT ![n] = NoSink]
           /\ last' = [last EXCEPT ![n] = Remembered(n, sink[n].chunk + 1)]
           /\ Chain(n, FALSE)
  <2>1. \E q \in {"window", "asleep"} : pc' = [pc EXCEPT ![n] = q] BY <1>5 DEF Chain
  <2>2. sink[n].chunk + 1 \in Nat BY <1>0 DEF Sinks
  <2>3. QED BY <1>1, <1>2, <1>5, <2>1, <2>2
<1> QED BY <1>3, <1>4, <1>5 DEF ChunkEnds

LEMMA NodeShapesStep ==
  ASSUME HostShapes, GwShapes, NodeShapes, ShellNext
  PROVE  NodeShapes'
<1>0. scene' = scene BY Cases
<1>1. /\ pc \in [Nodes -> Places] /\ up \in [Nodes -> Ups] /\ sink \in [Nodes -> Sinks]
      /\ last \in [Nodes -> Lasts] /\ ran \in [Nodes -> Seq(Cmds)] /\ flag \in [Nodes -> BOOLEAN]
  BY DEF NodeShapes, GwShapes
<1>2. SUFFICES /\ pc' \in [Nodes -> Places] /\ up' \in [Nodes -> Ups] /\ sink' \in [Nodes -> Sinks]
               /\ last' \in [Nodes -> Lasts] /\ ran' \in [Nodes -> Seq(Cmds)]
  BY <1>0, SceneKept DEF NodeShapes
<1>3. NoUp \in Ups /\ NoSink \in Sinks /\ NoLast \in Lasts BY EmptyRecords
<1>4. \A n \in Nodes : \A p \in {"asleep", "uplink", "window", "reply", "chunk"} :
        pc' = [pc EXCEPT ![n] = p] => pc' \in [Nodes -> Places]
  BY <1>1 DEF Places
<1>5. CASE \E n \in Nodes : TakeUplink(n)
  <2>1. PICK n \in Nodes : TakeUplink(n) BY <1>5
  <2>2. up' = [up EXCEPT ![n].taken = TRUE, ![n].flags = @ \cup {flag[n]}]
        /\ UNCHANGED <<pc, sink, last, ran>>
    BY <2>1 DEF TakeUplink
  <2>3. up' \in [Nodes -> Ups] BY <1>1, <2>2, TakenUp, ZenonT(30)
  <2>4. QED BY <1>1, <2>2, <2>3
<1>6. CASE \E n \in Nodes : ReAck(n)
  <2>1. PICK n \in Nodes : ReAck(n) BY <1>6
  <2>2. up' = [up EXCEPT ![n].flags = @ \cup {flag[n]}] /\ UNCHANGED <<pc, sink, last, ran>>
    BY <2>1 DEF ReAck
  <2>3. up' \in [Nodes -> Ups] BY <1>1, <2>2, ReAckedUp
  <2>4. QED BY <1>1, <2>2, <2>3
<1>7. CASE \E n \in Nodes : Wake(n)
  <2>1. PICK n \in Nodes : Wake(n) BY <1>7
  <2>2. up' = [up EXCEPT ![n] = [NoUp EXCEPT !.last = TRUE]] /\ pc' = [pc EXCEPT ![n] = "uplink"]
        /\ UNCHANGED <<sink, last, ran>>
    BY <2>1 DEF Wake, Uplink
  <2>3. [NoUp EXCEPT !.last = TRUE] \in Ups BY <1>3 DEF Ups
  <2>4. up' \in [Nodes -> Ups] BY <1>1, <2>2, <2>3
  <2>5. QED BY <1>1, <1>4, <2>2, <2>4
<1>8. CASE \E n \in Nodes : NodeReboot(n)
  <2>1. PICK n \in Nodes : NodeReboot(n) BY <1>8
  <2>2. pc' = [pc EXCEPT ![n] = "asleep"] /\ up' = [up EXCEPT ![n] = NoUp]
        /\ sink' = [sink EXCEPT ![n] = NoSink] /\ last' = [last EXCEPT ![n] = NoLast]
        /\ ran' = [ran EXCEPT ![n] = <<>>]
    BY <2>1 DEF NodeReboot
  <2>3. up' \in [Nodes -> Ups] /\ sink' \in [Nodes -> Sinks] /\ last' \in [Nodes -> Lasts]
    BY <1>1, <1>3, <2>2
  <2>4. ran' \in [Nodes -> Seq(Cmds)] BY <1>1, <2>2
  <2>5. QED BY <1>4, <2>2, <2>3, <2>4
<1>9. CASE \E n \in Nodes : UplinkEnds(n)
  <2>1. PICK n \in Nodes : UplinkEnds(n) BY <1>9
  <2>2. up' = [up EXCEPT ![n] = NoUp] /\ UNCHANGED <<sink, last, ran>> BY <2>1 DEF UplinkEnds
  <2>3. \E q \in {"window", "asleep"} : pc' = [pc EXCEPT ![n] = q] BY <2>1 DEF UplinkEnds, Chain
  <2>4. pc' \in [Nodes -> Places] BY <1>4, <2>3
  <2>5. up' \in [Nodes -> Ups] BY <1>1, <1>3, <2>2
  <2>6. QED BY <1>1, <2>2, <2>4, <2>5
<1>10. CASE \E n \in Nodes : WindowEnds(n) BY <1>1, <1>4, <1>10 DEF WindowEnds
<1>11. CASE \E n \in Nodes : TakeCommand(n)
  <2>1. PICK n \in Nodes : TakeCommand(n) BY <1>11
  <2>2. UNCHANGED <<up, last>> /\ pc' = [pc EXCEPT ![n] = "reply"] BY <2>1 DEF TakeCommand
  <2>3. PICK s \in Sinks :
          /\ sink' = [sink EXCEPT ![n] = s] /\ s.cmd = down.cmd
          /\ \/ /\ last[n].cmd = down.cmd /\ s.text = FALSE /\ s.chunk = s.end /\ ran' = ran
                /\ s.chunk = IF last[n].lost = 0 THEN 0 ELSE last[n].lost + 1
             \/ /\ last[n].cmd # down.cmd /\ s.text = TRUE /\ s.chunk = 0 /\ s.end = Chunks - 1
                /\ ran' = [ran EXCEPT ![n] = Append(ran[n], down.cmd)]
    BY <2>1, TakenSink
  <2>4. down.cmd \in Cmds BY <2>1, TakenSink
  <2>5. sink' \in [Nodes -> Sinks] BY <1>1, <2>3
  <2>6. ran' \in [Nodes -> Seq(Cmds)]
    <3>1. Append(ran[n], down.cmd) \in Seq(Cmds) BY <1>1, <2>4
    <3>2. QED BY <1>1, <2>3, <3>1
  <2>7. QED BY <1>1, <1>4, <2>2, <2>5, <2>6
<1>12. CASE \E n \in Nodes : SendChunk(n)
  <2>1. PICK n \in Nodes : SendChunk(n) BY <1>12
  <2>2. UNCHANGED <<sink, last, ran>> /\ pc' = [pc EXCEPT ![n] = "chunk"] BY <2>1 DEF SendChunk, Uplink
  <2>3. up' \in [Nodes -> Ups] BY <1>1, <2>1, SentUp
  <2>4. QED BY <1>1, <1>4, <2>2, <2>3
<1>13. CASE \E n \in Nodes : ChunkEnds(n)
  <2>1. PICK n \in Nodes : ChunkEnds(n) BY <1>13
  <2>2. ran' = ran BY <2>1 DEF ChunkEnds
  <2>3. \E p \in {"reply", "window", "asleep"} : pc' = [pc EXCEPT ![n] = p] BY <2>1, ChunkFate
  <2>4. \E s \in Sinks : sink' = [sink EXCEPT ![n] = s] BY <1>3, <2>1, ChunkFate
  <2>5. last' = last \/ \E r \in Lasts : last' = [last EXCEPT ![n] = r] BY <2>1, ChunkFate
  <2>6. up' = [up EXCEPT ![n] = NoUp] BY <2>1, ChunkFate
  <2>7. pc' \in [Nodes -> Places] BY <1>4, <2>3
  <2>8. up' \in [Nodes -> Ups] /\ sink' \in [Nodes -> Sinks] /\ last' \in [Nodes -> Lasts]
    BY <1>1, <1>3, <2>4, <2>5, <2>6
  <2>9. QED BY <1>1, <2>2, <2>7, <2>8
<1>14. CASE UNCHANGED <<pc, up, sink, last, ran>> BY <1>1, <1>14
<1>15. (\/ Resync \/ DropRpc \/ (\E n \in Nodes : Issue(n)) \/ (\E c \in Cmds : GiveUp(c))
        \/ Serve \/ SendEnds \/ Expire \/ ServeDrop \/ GwReboot \/ (\E it \in queue.items : Lapse(it)))
       => UNCHANGED <<pc, up, sink, last, ran>>
  BY DEF Resync, DropRpc, DropItem, Issue, GiveUp, Serve, SendEnds, Expire, ServeDrop, GwReboot, Lapse, nodeVars
<1> QED BY <1>5, <1>6, <1>7, <1>8, <1>9, <1>10, <1>11, <1>12, <1>13, <1>14, <1>15, Cases

-----------------------------------------------------------------------------
(***************************************************************************)
(* The queue and the gateway's loop                                        *)
(***************************************************************************)

LEMMA CountPart ==
  ASSUME NEW q, NEW p, IsFiniteSet(q.items), p.items \subseteq q.items, NEW n
  PROVE  CountFor(p, n) <= CountFor(q, n) /\ CountFor(p, n) \in Nat /\ CountFor(q, n) \in Nat
<1> DEFINE P == {it \in p.items : it.node = n}
           Q == {it \in q.items : it.node = n}
<1>1. IsFiniteSet(Q) /\ Q \in SUBSET q.items BY FS_Subset
<1>2. P \in SUBSET Q
  OBVIOUS
<1>3. IsFiniteSet(P) /\ Cardinality(P) <= Cardinality(Q) BY <1>1, <1>2, FS_Subset
<1> QED BY <1>1, <1>3, FS_CardinalityType DEF CountFor

LEMMA CountSome ==
  ASSUME NEW q, IsFiniteSet(q.items), NEW n
  PROVE  CountFor(q, n) > 0 <=> \E it \in q.items : it.node = n
<1> DEFINE Q == {it \in q.items : it.node = n}
<1>1. IsFiniteSet(Q) BY FS_Subset
<1>2. Cardinality(Q) \in Nat /\ (Cardinality(Q) = 0 <=> Q = {}) BY <1>1, FS_CardinalityType, FS_EmptySet
<1>3. Q = {} <=> ~\E it \in q.items : it.node = n
  OBVIOUS
<1> QED BY <1>2, <1>3 DEF CountFor

LEMMA SwapOne ==
  ASSUME NEW S, IsFiniteSet(S), NEW x \in S, NEW y
  PROVE  IsFiniteSet((S \ {x}) \cup {y}) /\ Cardinality((S \ {x}) \cup {y}) <= Cardinality(S)
<1>1. IsFiniteSet(S \ {x}) /\ Cardinality(S \ {x}) = Cardinality(S) - 1 BY FS_RemoveElement
<1>2. IsFiniteSet((S \ {x}) \cup {y})
      /\ Cardinality((S \ {x}) \cup {y}) = IF y \in S \ {x} THEN Cardinality(S \ {x}) ELSE Cardinality(S \ {x}) + 1
  BY <1>1, FS_AddElement
<1>3. Cardinality(S) \in Nat BY FS_CardinalityType
<1> QED BY <1>1, <1>2, <1>3

\* The rules hold of every part of the queue.
LEMMA FewerItems ==
  ASSUME GwShapes, UniqueIds, WithinCaps, IsFiniteSet(queue'.items),
         queue'.items \subseteq queue.items
  PROVE  UniqueIds' /\ WithinCaps'
<1>1. IsFiniteSet(queue.items) BY DEF GwShapes
<1>2. UniqueIds' BY DEF UniqueIds
<1>3. \A n \in Nodes : CountFor(queue', n) <= PerNodeCap
  <2>1. TAKE n \in Nodes
  <2>2. CountFor(queue, n) <= PerNodeCap BY DEF WithinCaps
  <2>3. CountFor(queue', n) <= CountFor(queue, n) /\ CountFor(queue', n) \in Nat /\ CountFor(queue, n) \in Nat
    BY <1>1, CountPart
  <2>4. QED BY <2>2, <2>3, QueueAssumption
<1>4. Cardinality(queue'.items) <= QueueCap
  <2>1. Cardinality(queue'.items) <= Cardinality(queue.items) BY <1>1, FS_Subset
  <2>2. Cardinality(queue'.items) \in Nat /\ Cardinality(queue.items) \in Nat BY <1>1, FS_CardinalityType
  <2>3. QED BY <2>1, <2>2, QueueAssumption DEF WithinCaps
<1> QED BY <1>2, <1>3, <1>4 DEF WithinCaps

\* The pending flag is set from the count; it was right for the other nodes.
LEMMA FlagsSet ==
  ASSUME flag \in [Nodes -> BOOLEAN], IsFiniteSet(queue'.items), FlagsTrue, NEW m \in Nodes,
         flag' = SetPending(queue', m),
         \A it \in queue.items : it.node # m => it \in queue'.items,
         queue'.items \subseteq queue.items
  PROVE  FlagsTrue'
<1>1. ASSUME NEW n \in Nodes
      PROVE  flag'[n] <=> \E it \in queue'.items : it.node = n
  <2>1. CASE n = m
    <3>1. flag'[m] = (CountFor(queue', m) > 0) BY Zenon DEF SetPending
    <3>2. QED BY <2>1, <3>1, CountSome
  <2>2. CASE n # m
    <3>1. flag'[n] = flag[n] BY <2>2, Zenon DEF SetPending
    <3>2. flag[n] <=> \E it \in queue.items : it.node = n BY DEF FlagsTrue
    <3>3. QED BY <2>2, <3>1, <3>2
  <2>3. QED BY <2>1, <2>2
<1> QED BY <1>1 DEF FlagsTrue

\* Serve, taken apart.
LEMMA ServeIs ==
  ASSUME GwShapes, Serve
  PROVE  /\ UNCHANGED <<queue, reqs>> /\ gw.at = "serving" /\ gw.node \in Nodes
         /\ \/ \E it \in queue.items :
                 /\ it.node = gw.node /\ ~it.stale
                 /\ \A o \in queue.items : o.node = gw.node /\ ~o.stale => it.order <= o.order
                 /\ down' = [node |-> it.node, id |-> it.id, cmd |-> it.cmd, taken |-> FALSE]
                 /\ gw' = [at |-> "sending", node |-> gw.node] /\ flag' = flag
            \/ gw' = Idle /\ flag' = SetPending(queue, gw.node) /\ down' = down
<1>1. gw.at = "serving" /\ UNCHANGED <<queue, reqs>> BY DEF Serve
<1>2. gw \in [at : {"serving", "sending"}, node : Nodes] BY <1>1 DEF GwShapes, Idle
<1>3. [gw EXCEPT !.at = "sending"] = [at |-> "sending", node |-> gw.node] BY <1>2
<1>4. CASE \E it \in PeekFor(queue, gw.node) :
             /\ down' = [node |-> it.node, id |-> it.id, cmd |-> it.cmd, taken |-> FALSE]
             /\ gw' = [gw EXCEPT !.at = "sending"] /\ UNCHANGED flag
  BY <1>1, <1>2, <1>3, <1>4 DEF PeekFor, Live
<1>5. CASE gw' = Idle /\ flag' = SetPending(queue, gw.node) /\ UNCHANGED down BY <1>1, <1>2, <1>5
<1> QED BY <1>4, <1>5 DEF Serve

\* What the end of a send does to the queue.
LEMMA SendEndsIs ==
  ASSUME HostShapes, GwShapes, QueueInv, SendEnds
  PROVE  /\ gw.node \in Nodes /\ down \in Sends /\ down.node = gw.node
         /\ gw' = Idle /\ down' = NoDown /\ reqs' = reqs /\ flag' = SetPending(queue', gw.node)
         /\ \/ queue' = queue /\ pend' = pend /\ dropped' = dropped
            \/ /\ down.taken /\ queue' = [queue EXCEPT !.items = queue'.items]
               /\ queue'.items = {it \in queue.items : it.id # down.id}
               /\ \A it \in queue.items : it.id = down.id => it.node = down.node /\ it.cmd = down.cmd
<1>1. gw.at = "sending" /\ gw' = Idle /\ down' = NoDown /\ reqs' = reqs /\ flag' = SetPending(queue', gw.node)
  BY DEF SendEnds
<1>2. gw \in [at : {"serving", "sending"}, node : Nodes] /\ queue \in Queues /\ (down \in Sends \/ down = NoDown)
  BY <1>1 DEF GwShapes, Idle, Queues
<1>3. down \in Sends /\ down.node = gw.node BY <1>1, <1>2 DEF QueueInv, LoopInv
<1>4. PICK d \in queue.items : d.id = down.id /\ d.node = down.node /\ d.cmd = down.cmd
  BY <1>1 DEF QueueInv, LoopInv
<1>5. \A it \in queue.items : it.id = down.id => it = d BY <1>4 DEF QueueInv, UniqueIds
<1>6. CASE queue' = queue /\ pend' = pend /\ dropped' = dropped BY <1>1, <1>2, <1>3, <1>6
<1>7. CASE down.taken /\ queue' = Pop(queue, down.id)
  <2>1. queue' = [queue EXCEPT !.items = {it \in queue.items : it.id # down.id}]
    BY <1>2, <1>7 DEF Pop, Queues
  <2>2. queue'.items = {it \in queue.items : it.id # down.id} BY <1>2, <2>1 DEF Queues
  <2>3. QED BY <1>1, <1>2, <1>3, <1>4, <1>5, <1>7, <2>1, <2>2
<1> QED BY <1>6, <1>7 DEF SendEnds

\* Expire, taken apart.
LEMMA ExpireIs ==
  ASSUME GwShapes, Expire
  PROVE  /\ gw = Idle /\ UNCHANGED <<gw, down, reqs>>
         /\ queue' = [queue EXCEPT !.items = queue'.items]
         /\ queue'.items = {it \in queue.items : ~it.stale}
         /\ flag' = [n \in Nodes |->
              IF \E it \in Expired(queue) : it.node = n THEN CountFor(queue', n) > 0 ELSE flag[n]]
<1>1. queue \in Queues BY DEF GwShapes, Queues
<1>2. queue.items \ Expired(queue) = {it \in queue.items : ~it.stale} BY DEF Expired
<1>3. queue' = [queue EXCEPT !.items = queue.items \ Expired(queue)] BY <1>1 DEF Expire, Queues
<1>4. queue'.items = queue.items \ Expired(queue) BY <1>1, <1>3 DEF Queues
<1> QED BY <1>2, <1>3, <1>4 DEF Expire

LEMMA QueueInvStep ==
  ASSUME HostShapes, GwShapes, GwShapes', NodeShapes, QueueInv, ShellNext
  PROVE  QueueInv'
<1>1. /\ queue \in Queues /\ IsFiniteSet(queue.items) /\ flag \in [Nodes -> BOOLEAN]
      /\ (down \in Sends \/ down = NoDown) /\ UniqueIds /\ WithinCaps /\ FlagsTrue /\ LoopInv
      /\ IsFiniteSet(queue'.items) /\ reqs \in Seq(Drops)
  BY DEF GwShapes, Queues, QueueInv
<1>2. CASE UNCHANGED <<queue, flag, gw, down>>
  BY <1>2 DEF QueueInv, UniqueIds, WithinCaps, FlagsTrue, LoopInv
<1>3. (\/ Resync \/ DropRpc \/ (\E c \in Cmds : GiveUp(c)) \/ (\E n \in Nodes : ReAck(n))
       \/ (\E n \in Nodes : Wake(n)) \/ (\E n \in Nodes : NodeReboot(n))
       \/ (\E n \in Nodes : UplinkEnds(n)) \/ (\E n \in Nodes : WindowEnds(n))
       \/ (\E n \in Nodes : SendChunk(n)) \/ (\E n \in Nodes : ChunkEnds(n)))
      => UNCHANGED <<queue, flag, gw, down>>
  BY DEF Resync, DropRpc, DropItem, GiveUp, ReAck, Wake, NodeReboot, UplinkEnds, WindowEnds, SendChunk,
         ChunkEnds, nodeOnly, gwVars
<1>4. CASE \E n \in Nodes : Issue(n)
  <2>1. PICK m \in Nodes : Issue(m) BY <1>4
  <2>2. UNCHANGED <<gw, down>> /\ gw = Idle BY <2>1 DEF Issue
  <2>3. CASE UNCHANGED <<queue, flag>> BY <1>2, <2>2, <2>3
  <2>4. CASE HasRoom(queue, m) /\ queue' = Push(queue, m, issued') /\ flag' = Premark(queue, m)
    <3>1. issued' \in Cmds BY <2>1, SceneType DEF Issue, HostShapes
    <3>2. PICK it : it = [id |-> FreeId(queue), node |-> m, cmd |-> issued', order |-> queue.nextOrder, stale |-> FALSE]
      OBVIOUS
    <3>3. /\ it \notin queue.items /\ queue'.items = queue.items \cup {it} /\ IsFiniteSet(queue.items \cup {it})
          /\ Cardinality(queue.items \cup {it}) = Cardinality(queue.items) + 1
      BY <1>1, <2>4, <3>1, <3>2, PushIs
    <3>4. UniqueIds'
      <4>1. \A i \in queue.items : i.id # FreeId(queue) BY <1>1, <2>4, FreeIdIsFree DEF HasRoom
      <4>2. it.id = FreeId(queue) BY <3>2
      <4>3. \A a, b \in queue.items : a.id = b.id => a = b BY <1>1 DEF UniqueIds
      <4>4. QED BY <3>3, <4>1, <4>2, <4>3 DEF UniqueIds
    <3>5. WithinCaps'
      <4>1. Cardinality(queue'.items) <= QueueCap
        <5>1. Cardinality(queue.items) \in Nat BY <1>1, FS_CardinalityType
        <5>2. QED BY <2>4, <3>3, <5>1, QueueAssumption DEF HasRoom
      <4>2. ASSUME NEW n \in Nodes PROVE CountFor(queue', n) <= PerNodeCap
        <5> DEFINE Q == {i \in queue.items : i.node = n}
        <5>0. IsFiniteSet(Q) /\ Cardinality(Q) \in Nat
          <6>1. IsFiniteSet(Q) BY <1>1, FS_Subset
          <6>2. QED BY <6>1, FS_CardinalityType
        <5>1. CASE n = m
          <6>1. {i \in queue'.items : i.node = n} = Q \cup {it} BY <3>2, <3>3, <5>1
          <6>2. it \notin Q BY <3>3
          <6>3. Cardinality(Q \cup {it}) = Cardinality(Q) + 1 BY <5>0, <6>2, FS_AddElement
          <6>4. Cardinality(Q) < PerNodeCap BY <2>4, <5>1 DEF HasRoom, CountFor
          <6>5. QED BY <5>0, <6>1, <6>3, <6>4, QueueAssumption DEF CountFor
        <5>2. CASE n # m
          <6>1. {i \in queue'.items : i.node = n} = Q BY <3>2, <3>3, <5>2
          <6>2. QED BY <1>1, <6>1 DEF WithinCaps, CountFor
        <5>3. QED BY <5>1, <5>2
      <4>3. QED BY <4>1, <4>2 DEF WithinCaps
    <3>6. FlagsTrue'
      <4>1. flag' = [flag EXCEPT ![m] = TRUE] BY <2>4 DEF Premark
      <4>2. ASSUME NEW n \in Nodes PROVE flag'[n] <=> \E i \in queue'.items : i.node = n
        <5>1. flag[n] <=> \E i \in queue.items : i.node = n BY <1>1 DEF FlagsTrue
        <5>2. QED BY <1>1, <3>2, <3>3, <4>1, <5>1
      <4>3. QED BY <4>2 DEF FlagsTrue
    <3>7. LoopInv' BY <1>1, <2>2 DEF LoopInv, Idle
    <3>8. QED BY <3>4, <3>5, <3>6, <3>7 DEF QueueInv
  <2>5. QED BY <2>1, <2>3, <2>4 DEF Issue
<1>5. CASE \E n \in Nodes : TakeUplink(n)
  <2>1. UNCHANGED <<queue, flag, down>> /\ gw = Idle /\ gw'.at = "serving" BY <1>5 DEF TakeUplink
  <2>2. LoopInv' BY <1>1, <2>1 DEF LoopInv, Idle
  <2>3. QED BY <1>1, <2>1, <2>2 DEF QueueInv, UniqueIds, WithinCaps, FlagsTrue
<1>6. CASE Serve
  <2>1. UNCHANGED queue /\ gw.at = "serving" /\ gw.node \in Nodes BY <1>6, ServeIs
  <2>2. UniqueIds' /\ WithinCaps' BY <1>1, <2>1 DEF UniqueIds, WithinCaps
  <2>3. CASE \E it \in queue.items :
                 /\ it.node = gw.node /\ ~it.stale
                 /\ \A o \in queue.items : o.node = gw.node /\ ~o.stale => it.order <= o.order
                 /\ down' = [node |-> it.node, id |-> it.id, cmd |-> it.cmd, taken |-> FALSE]
                 /\ gw' = [at |-> "sending", node |-> gw.node] /\ flag' = flag
    <3>1. PICK it \in queue.items :
                 /\ it.node = gw.node
                 /\ down' = [node |-> it.node, id |-> it.id, cmd |-> it.cmd, taken |-> FALSE]
                 /\ gw' = [at |-> "sending", node |-> gw.node] /\ flag' = flag
      BY <2>3
    <3>2. down'.node # "none" BY <2>1, <3>1, ShellAssumption
    <3>3. LoopInv' BY <2>1, <3>1, <3>2 DEF LoopInv, NoDown
    <3>4. FlagsTrue' BY <1>1, <2>1, <3>1 DEF FlagsTrue
    <3>5. QED BY <2>2, <3>3, <3>4 DEF QueueInv
  <2>4. CASE gw' = Idle /\ flag' = SetPending(queue, gw.node) /\ down' = down
    <3>1. LoopInv' BY <1>1, <2>1, <2>4 DEF LoopInv, Idle
    <3>2. flag' = SetPending(queue', gw.node) BY <2>1, <2>4
    <3>3. FlagsTrue' BY <1>1, <2>1, <3>2, FlagsSet
    <3>4. QED BY <2>2, <3>1, <3>3 DEF QueueInv
  <2>5. QED BY <1>6, <2>3, <2>4, ServeIs
<1>7. CASE SendEnds
  <2>1. /\ gw.node \in Nodes /\ gw' = Idle /\ down' = NoDown /\ flag' = SetPending(queue', gw.node)
        /\ queue'.items \subseteq queue.items
        /\ \A it \in queue.items : it.node # gw.node => it \in queue'.items
    BY <1>7, SendEndsIs
  <2>2. UniqueIds' /\ WithinCaps' BY <1>1, <2>1, FewerItems
  <2>3. FlagsTrue' BY <1>1, <2>1, FlagsSet
  <2>4. LoopInv' BY <2>1 DEF LoopInv, Idle
  <2>5. QED BY <2>2, <2>3, <2>4 DEF QueueInv
<1>8. CASE \E it \in queue.items : Lapse(it)
  <2>1. PICK it \in queue.items : Lapse(it) BY <1>8
  <2>2. UNCHANGED <<flag, gw, down>> /\ queue' = Age(queue, it) BY <2>1 DEF Lapse
  <2>3. PICK old : old = [it EXCEPT !.stale = TRUE]
    OBVIOUS
  <2>4. /\ old.id = it.id /\ old.node = it.node /\ old.cmd = it.cmd
        /\ queue'.items = (queue.items \ {it}) \cup {old}
    BY <1>1, <2>2, <2>3, AgeIs
  <2>5. UniqueIds' BY <1>1, <2>4 DEF UniqueIds
  <2>6. WithinCaps'
    <3>1. Cardinality(queue'.items) <= QueueCap
      <4>1. Cardinality(queue'.items) <= Cardinality(queue.items) BY <1>1, <2>4, SwapOne
      <4>2. Cardinality(queue'.items) \in Nat /\ Cardinality(queue.items) \in Nat
        BY <1>1, FS_CardinalityType
      <4>3. QED BY <1>1, <4>1, <4>2, QueueAssumption DEF WithinCaps
    <3>2. ASSUME NEW n \in Nodes PROVE CountFor(queue', n) <= PerNodeCap
      <4> DEFINE Q == {i \in queue.items : i.node = n}
                 P == {i \in queue'.items : i.node = n}
      <4>0. IsFiniteSet(Q) /\ Cardinality(Q) <= PerNodeCap BY <1>1, FS_Subset DEF WithinCaps, CountFor
      <4>1. CASE it.node = n
        <5>1. it \in Q /\ P = (Q \ {it}) \cup {old} BY <2>4, <4>1
        <5>2. IsFiniteSet(P) /\ Cardinality(P) <= Cardinality(Q)
          <6> HIDE DEF P, Q
          <6> QED BY <4>0, <5>1, SwapOne
        <5>3. Cardinality(P) \in Nat /\ Cardinality(Q) \in Nat BY <4>0, <5>2, FS_CardinalityType
        <5>4. QED BY <4>0, <5>2, <5>3, QueueAssumption DEF CountFor
      <4>2. CASE it.node # n
        <5>1. P = Q BY <2>4, <4>2
        <5>2. QED BY <4>0, <5>1 DEF CountFor
      <4>3. QED BY <4>1, <4>2
    <3>3. QED BY <3>1, <3>2 DEF WithinCaps
  <2>7. FlagsTrue'
    <3>1. ASSUME NEW n \in Nodes PROVE flag'[n] <=> \E i \in queue'.items : i.node = n
      <4>1. flag[n] <=> \E i \in queue.items : i.node = n BY <1>1 DEF FlagsTrue
      <4>2. QED BY <2>2, <2>4, <4>1
    <3>2. QED BY <3>1 DEF FlagsTrue
  <2>8. LoopInv' BY <1>1, <2>2, <2>4 DEF LoopInv
  <2>9. QED BY <2>5, <2>6, <2>7, <2>8 DEF QueueInv
<1>9. CASE Expire
  <2>1. /\ gw = Idle /\ UNCHANGED <<gw, down>> /\ queue'.items = {it \in queue.items : ~it.stale}
        /\ flag' = [n \in Nodes |->
              IF \E it \in Expired(queue) : it.node = n THEN CountFor(queue', n) > 0 ELSE flag[n]]
    BY <1>9, ExpireIs
  <2>2. UniqueIds' /\ WithinCaps' BY <1>1, <2>1, FewerItems
  <2>3. FlagsTrue'
    <3>1. ASSUME NEW n \in Nodes PROVE flag'[n] <=> \E i \in queue'.items : i.node = n
      <4>1. CASE \E it \in Expired(queue) : it.node = n
        <5>1. flag'[n] = (CountFor(queue', n) > 0) BY <2>1, <4>1, Zenon
        <5>2. QED BY <1>1, <5>1, CountSome
      <4>2. CASE ~\E it \in Expired(queue) : it.node = n
        <5>1. flag'[n] = flag[n] BY <2>1, <4>2, Zenon
        <5>2. flag[n] <=> \E i \in queue.items : i.node = n BY <1>1 DEF FlagsTrue
        <5>3. \A i \in queue.items : i.node = n => i \in queue'.items BY <2>1, <4>2 DEF Expired
        <5>4. QED BY <2>1, <5>1, <5>2, <5>3
      <4>3. QED BY <4>1, <4>2
    <3>2. QED BY <3>1 DEF FlagsTrue
  <2>4. LoopInv' BY <1>1, <2>1 DEF LoopInv, Idle
  <2>5. QED BY <2>2, <2>3, <2>4 DEF QueueInv
<1>10. CASE ServeDrop
  <2>1. UNCHANGED <<gw, down>> /\ gw = Idle /\ reqs # <<>> BY <1>10 DEF ServeDrop
  <2>2. CASE UNCHANGED <<queue, flag>> BY <1>2, <2>1, <2>2
  <2>3. CASE queue' = Dropped(queue, Head(reqs)) /\ flag' = SetPending(queue', Head(reqs).node)
    <3>1. PICK r \in Drops : r = Head(reqs) BY <1>1, <2>1
    <3>2. r.node \in Nodes BY DEF Drops
    <3>3. /\ queue'.items \subseteq queue.items
          /\ \A it \in queue.items \ queue'.items : it.node = r.node /\ (r.id = 0 \/ it.id = r.id)
      BY <1>1, <2>3, <3>1, DroppedIs DEF UniqueIds
    <3>4. flag' = SetPending(queue', r.node) BY <2>3, <3>1
    <3>5. UniqueIds' /\ WithinCaps' BY <1>1, <3>3, FewerItems
    <3>6. FlagsTrue' BY <1>1, <3>2, <3>3, <3>4, FlagsSet
    <3>7. LoopInv' BY <1>1, <2>1 DEF LoopInv, Idle
    <3>8. QED BY <3>5, <3>6, <3>7 DEF QueueInv
  <2>4. QED BY <1>10, <2>2, <2>3 DEF ServeDrop
<1>11. CASE GwReboot
  <2>1. queue' = NewQueue /\ flag' = [n \in Nodes |-> FALSE] /\ gw' = Idle /\ down' = NoDown
    BY <1>11 DEF GwReboot
  <2>2. queue'.items = {} BY <2>1 DEF NewQueue
  <2>3. UniqueIds' /\ WithinCaps' BY <1>1, <2>2, FewerItems
  <2>4. FlagsTrue' /\ LoopInv' BY <2>1, <2>2 DEF FlagsTrue, LoopInv, Idle
  <2>5. QED BY <2>3, <2>4 DEF QueueInv
<1>12. CASE \E n \in Nodes : TakeCommand(n)
  <2>1. PICK m \in Nodes : TakeCommand(m) BY <1>12
  <2>2. UNCHANGED <<queue, flag, gw>> /\ down' = [down EXCEPT !.taken = TRUE] /\ down.node = m
    BY <2>1 DEF TakeCommand, nodeOnly
  <2>3. down \in Sends BY <2>1, TakenSink
  <2>4. down'.node = down.node /\ down'.id = down.id /\ down'.cmd = down.cmd /\ down'.taken = TRUE
    BY <2>2, <2>3 DEF Sends
  <2>5. down # NoDown /\ down' # NoDown BY <2>2, <2>4, ShellAssumption DEF NoDown
  <2>6. LoopInv' BY <1>1, <2>2, <2>4, <2>5 DEF LoopInv
  <2>7. QED BY <1>1, <2>2, <2>6 DEF QueueInv, UniqueIds, WithinCaps, FlagsTrue
<1> QED BY <1>2, <1>3, <1>4, <1>5, <1>6, <1>7, <1>8, <1>9, <1>10, <1>11, <1>12, Cases

-----------------------------------------------------------------------------
(***************************************************************************)
(* The node's task                                                         *)
(***************************************************************************)

NodeStep(m) ==
  \/ TakeUplink(m) \/ ReAck(m) \/ Wake(m) \/ NodeReboot(m) \/ UplinkEnds(m)
  \/ WindowEnds(m) \/ TakeCommand(m) \/ SendChunk(m) \/ ChunkEnds(m)

\* A step is one node's, or leaves the nodes alone.
LEMMA NodeCases ==
  ASSUME ShellNext
  PROVE  \/ \E m \in Nodes : NodeStep(m)
         \/ UNCHANGED <<pc, up, sink, last, ran>>
  BY Cases DEF NodeStep, Resync, DropRpc, DropItem, Issue, GiveUp, Serve, SendEnds, Expire, ServeDrop, GwReboot,
     Lapse, nodeVars

LEMMA OthersKept ==
  ASSUME GwShapes, NodeShapes, HostShapes, NEW m \in Nodes, NodeStep(m), NEW n \in Nodes, n # m
  PROVE  pc'[n] = pc[n] /\ up'[n] = up[n] /\ sink'[n] = sink[n] /\ last'[n] = last[n] /\ ran'[n] = ran[n]
<1>1. /\ pc \in [Nodes -> Places] /\ up \in [Nodes -> Ups] /\ sink \in [Nodes -> Sinks]
      /\ last \in [Nodes -> Lasts] /\ ran \in [Nodes -> Seq(Cmds)] /\ flag \in [Nodes -> BOOLEAN]
  BY DEF NodeShapes, GwShapes
<1>2. pc' = pc \/ \E p : pc' = [pc EXCEPT ![m] = p]
  BY DEF NodeStep, TakeUplink, ReAck, Wake, NodeReboot, UplinkEnds, WindowEnds, TakeCommand, SendChunk,
         ChunkEnds, Chain, Uplink
<1>3. up' = up \/ \E u : up' = [up EXCEPT ![m] = u]
  <2>1. CASE TakeUplink(m)
    <3>1. up' = [up EXCEPT ![m].taken = TRUE, ![m].flags = @ \cup {flag[m]}] BY <2>1 DEF TakeUplink
    <3>2. QED BY <1>1, <3>1, TakenUp
  <2>2. CASE ReAck(m)
    <3>1. up' = [up EXCEPT ![m].flags = @ \cup {flag[m]}] BY <2>2 DEF ReAck
    <3>2. QED BY <1>1, <3>1, ReAckedUp
  <2>3. CASE Wake(m) \/ NodeReboot(m) \/ UplinkEnds(m) \/ WindowEnds(m) \/ TakeCommand(m) \/ SendChunk(m)
             \/ ChunkEnds(m)
    BY <2>3 DEF Wake, NodeReboot, UplinkEnds, WindowEnds, TakeCommand, SendChunk, ChunkEnds, Uplink
  <2>4. QED BY <2>1, <2>2, <2>3 DEF NodeStep
<1>4. sink' = sink \/ \E u : sink' = [sink EXCEPT ![m] = u]
  <2>1. CASE ChunkEnds(m) BY <2>1, ChunkFate
  <2>2. CASE ~ChunkEnds(m)
    BY <2>2 DEF NodeStep, TakeUplink, ReAck, Wake, NodeReboot, UplinkEnds, WindowEnds, TakeCommand, SendChunk
  <2>3. QED BY <2>1, <2>2
<1>5. last' = last \/ \E u : last' = [last EXCEPT ![m] = u]
  BY DEF NodeStep, TakeUplink, ReAck, Wake, NodeReboot, UplinkEnds, WindowEnds, TakeCommand, SendChunk, ChunkEnds
<1>6. ran' = ran \/ \E u : ran' = [ran EXCEPT ![m] = u]
  BY DEF NodeStep, TakeUplink, ReAck, Wake, NodeReboot, UplinkEnds, WindowEnds, TakeCommand, SendChunk, ChunkEnds
<1>7. pc'[n] = pc[n] /\ up'[n] = up[n] BY <1>1, <1>2, <1>3
<1>8. sink'[n] = sink[n] /\ last'[n] = last[n] /\ ran'[n] = ran[n] BY <1>1, <1>4, <1>5, <1>6
<1> QED BY <1>7, <1>8

LEMMA PhaseInvStep ==
  ASSUME HostShapes, GwShapes, NodeShapes, PhaseInv, ShellNext
  PROVE  PhaseInv'
<1>1. CASE UNCHANGED <<pc, up, sink, last, ran>> BY <1>1 DEF PhaseInv, PhaseAt
<1>2. CASE \E m \in Nodes : NodeStep(m)
  <2>1. PICK m \in Nodes : NodeStep(m) BY <1>2
  <2>2. ASSUME NEW n \in Nodes, n # m PROVE PhaseAt(n)' BY <2>1, <2>2, OthersKept DEF PhaseInv, PhaseAt
  <2>3. PhaseAt(m) BY DEF PhaseInv
  <2>4. /\ pc \in [Nodes -> Places] /\ up \in [Nodes -> Ups] /\ sink \in [Nodes -> Sinks]
        /\ flag \in [Nodes -> BOOLEAN]
    BY DEF NodeShapes, GwShapes
  <2>5. PhaseAt(m)'
    <3>1. CASE TakeUplink(m)
      <4>1. up' = [up EXCEPT ![m].taken = TRUE, ![m].flags = @ \cup {flag[m]}]
            /\ UNCHANGED <<pc, sink>> /\ up[m] # NoUp
        BY <3>1 DEF TakeUplink
      <4>2. PICK u \in Ups : /\ up' = [up EXCEPT ![m] = u]
                             /\ u.cmd = up[m].cmd /\ u.chunk = up[m].chunk /\ u.last = up[m].last
                             /\ u.text = up[m].text /\ u.taken = TRUE
        BY <2>4, <4>1, TakenUp
      <4>3. up'[m] = u BY <2>4, <4>2
      <4>4. QED BY <2>3, <4>1, <4>2, <4>3 DEF PhaseAt
    <3>2. CASE ReAck(m)
      <4>1. up' = [up EXCEPT ![m].flags = @ \cup {flag[m]}] /\ UNCHANGED <<pc, sink>> /\ up[m].taken
        BY <3>2 DEF ReAck
      <4>2. PICK u \in Ups : /\ up' = [up EXCEPT ![m] = u]
                             /\ u.cmd = up[m].cmd /\ u.chunk = up[m].chunk /\ u.last = up[m].last
                             /\ u.text = up[m].text /\ u.taken = up[m].taken
        BY <2>4, <4>1, ReAckedUp
      <4>3. up'[m] = u BY <2>4, <4>2
      <4>4. up[m] # NoUp BY <4>1 DEF NoUp
      <4>5. QED BY <2>3, <4>1, <4>2, <4>3, <4>4 DEF PhaseAt
    <3>3. CASE Wake(m)
      <4>1. pc[m] = "asleep" /\ pc' = [pc EXCEPT ![m] = "uplink"] /\ sink' = sink
            /\ up' = [up EXCEPT ![m] = [NoUp EXCEPT !.last = TRUE]]
        BY <3>3 DEF Wake, Uplink
      <4>2. [NoUp EXCEPT !.last = TRUE].cmd = 0 BY DEF NoUp
      <4>3. pc'[m] = "uplink" /\ up'[m].cmd = 0 /\ sink'[m] = sink[m] BY <2>4, <4>1, <4>2
      <4>4. QED BY <2>3, <4>1, <4>3 DEF PhaseAt
    <3>4. CASE NodeReboot(m)
      <4>1. pc' = [pc EXCEPT ![m] = "asleep"] /\ up' = [up EXCEPT ![m] = NoUp]
            /\ sink' = [sink EXCEPT ![m] = NoSink]
        BY <3>4 DEF NodeReboot
      <4>2. pc'[m] = "asleep" /\ up'[m] = NoUp /\ sink'[m] = NoSink BY <2>4, <4>1
      <4>3. QED BY <4>2 DEF PhaseAt
    <3>5. CASE UplinkEnds(m)
      <4>1. pc[m] = "uplink" /\ up' = [up EXCEPT ![m] = NoUp] /\ sink' = sink BY <3>5 DEF UplinkEnds
      <4>2. PICK p \in {"window", "asleep"} : pc' = [pc EXCEPT ![m] = p] BY <3>5 DEF UplinkEnds, Chain
      <4>3. pc'[m] = p /\ up'[m] = NoUp /\ sink'[m] = sink[m] BY <2>4, <4>1, <4>2
      <4>4. QED BY <2>3, <4>1, <4>2, <4>3 DEF PhaseAt
    <3>6. CASE WindowEnds(m)
      <4>1. pc[m] = "window" /\ UNCHANGED <<up, sink>> /\ pc' = [pc EXCEPT ![m] = "asleep"]
        BY <3>6 DEF WindowEnds
      <4>2. pc'[m] = "asleep" BY <2>4, <4>1
      <4>3. QED BY <2>3, <4>1, <4>2 DEF PhaseAt
    <3>7. CASE TakeCommand(m)
      <4>1. pc[m] = "window" /\ up' = up /\ pc' = [pc EXCEPT ![m] = "reply"] BY <3>7 DEF TakeCommand
      <4>2. PICK s \in Sinks : sink' = [sink EXCEPT ![m] = s] /\ s.cmd = down.cmd BY <3>7, TakenSink
      <4>3. s.cmd >= 1
        <5>1. down.cmd \in Cmds BY <3>7, TakenSink
        <5>2. QED BY <4>2, <5>1, SceneType
      <4>4. pc'[m] = "reply" /\ sink'[m] = s BY <2>4, <4>1, <4>2
      <4>5. QED BY <2>3, <4>1, <4>3, <4>4 DEF PhaseAt
    <3>8. CASE SendChunk(m)
      <4>1. pc[m] = "reply" /\ sink' = sink /\ pc' = [pc EXCEPT ![m] = "chunk"]
        BY <3>8 DEF SendChunk, Uplink
      <4>2. PICK u \in Ups : /\ up' = [up EXCEPT ![m] = u] /\ u.taken = FALSE
                             /\ u.cmd = sink[m].cmd /\ u.chunk = sink[m].chunk
                             /\ u.last = (sink[m].chunk = sink[m].end) /\ u.text = sink[m].text
        BY <3>8, SentUp
      <4>3. pc'[m] = "chunk" /\ up'[m] = u BY <2>4, <4>1, <4>2
      <4>4. QED BY <2>3, <4>1, <4>2, <4>3 DEF PhaseAt
    <3>9. CASE ChunkEnds(m)
      <4>1. up' = [up EXCEPT ![m] = NoUp] /\ pc[m] = "chunk" BY <3>9, ChunkFate
      <4>2. CASE /\ pc' = [pc EXCEPT ![m] = "reply"]
                 /\ \E s \in Sinks : sink' = [sink EXCEPT ![m] = s] /\ s.cmd = sink[m].cmd
        <5>1. pc'[m] = "reply" /\ up'[m] = NoUp /\ sink'[m].cmd = sink[m].cmd BY <2>4, <4>1, <4>2
        <5>2. QED BY <2>3, <4>1, <5>1 DEF PhaseAt
      <4>3. CASE /\ sink' = [sink EXCEPT ![m] = NoSink]
                 /\ \E q \in {"window", "asleep"} : pc' = [pc EXCEPT ![m] = q]
        <5>1. pc'[m] \in {"window", "asleep"} /\ up'[m] = NoUp /\ sink'[m] = NoSink BY <2>4, <4>1, <4>3
        <5>2. QED BY <5>1 DEF PhaseAt
      <4>4. QED BY <3>9, <4>2, <4>3, ChunkFate
    <3>10. QED BY <2>1, <3>1, <3>2, <3>3, <3>4, <3>5, <3>6, <3>7, <3>8, <3>9 DEF NodeStep
  <2>6. QED BY <2>2, <2>5 DEF PhaseInv
<1> QED BY <1>1, <1>2, NodeCases

LEMMA SinkInvStep ==
  ASSUME HostShapes, GwShapes, NodeShapes, PhaseInv, SinkInv, ShellNext
  PROVE  SinkInv'
<1>0. Chunks' = Chunks /\ Chunks \in Nat /\ Chunks >= 1 BY Cases, SceneKept, SceneType
<1>1. CASE UNCHANGED <<pc, up, sink, last, ran>> BY <1>0, <1>1 DEF SinkInv, SinkAt
<1>2. CASE \E m \in Nodes : NodeStep(m)
  <2>1. PICK m \in Nodes : NodeStep(m) BY <1>2
  <2>2. ASSUME NEW n \in Nodes, n # m PROVE SinkAt(n)' BY <1>0, <2>1, <2>2, OthersKept DEF SinkInv, SinkAt
  <2>3. PhaseAt(m) /\ SinkAt(m) BY DEF PhaseInv, SinkInv
  <2>4. sink \in [Nodes -> Sinks] /\ last \in [Nodes -> Lasts] /\ sink[m] \in Sinks /\ last[m] \in Lasts
    BY DEF NodeShapes
  <2>5. SinkAt(m)'
    <3>1. CASE UNCHANGED <<sink, last>> BY <1>0, <2>3, <3>1 DEF SinkAt
    <3>2. (TakeUplink(m) \/ ReAck(m) \/ Wake(m) \/ UplinkEnds(m) \/ WindowEnds(m) \/ SendChunk(m))
          => UNCHANGED <<sink, last>>
      BY DEF TakeUplink, ReAck, Wake, UplinkEnds, WindowEnds, SendChunk
    <3>3. CASE NodeReboot(m)
      <4>1. sink' = [sink EXCEPT ![m] = NoSink] /\ last' = [last EXCEPT ![m] = NoLast]
        BY <3>3 DEF NodeReboot
      <4>2. sink'[m] = NoSink /\ last'[m] = NoLast BY <2>4, <4>1
      <4>3. QED BY <1>0, <4>2 DEF SinkAt, NoSink, NoLast
    <3>4. CASE TakeCommand(m)
      <4>1. last' = last BY <3>4 DEF TakeCommand
      <4>2. PICK s \in Sinks :
          /\ sink' = [sink EXCEPT ![m] = s] /\ s.cmd = down.cmd
          /\ \/ /\ last[m].cmd = down.cmd /\ s.text = FALSE /\ s.chunk = s.end /\ ran' = ran
                /\ s.chunk = IF last[m].lost = 0 THEN 0 ELSE last[m].lost + 1
             \/ /\ last[m].cmd # down.cmd /\ s.text = TRUE /\ s.chunk = 0 /\ s.end = Chunks - 1
                /\ ran' = [ran EXCEPT ![m] = Append(ran[m], down.cmd)]
        BY <3>4, TakenSink
      <4>3. sink'[m] = s BY <2>4, <4>2
      <4>4. QED BY <1>0, <2>3, <4>1, <4>2, <4>3 DEF SinkAt
    <3>5. CASE ChunkEnds(m)
      <4>1. pc[m] = "chunk" /\ up[m].last = (sink[m].chunk = sink[m].end)
        BY <2>3, <3>5, ChunkFate DEF PhaseAt
      <4>2. CASE /\ ~up[m].last /\ last' = last
                 /\ \E s \in Sinks :
                    /\ sink' = [sink EXCEPT ![m] = s] /\ s.cmd = sink[m].cmd
                    /\ s.chunk = sink[m].chunk + 1 /\ s.end = sink[m].end /\ s.text = sink[m].text
        <5>1. PICK s \in Sinks :
                    /\ sink' = [sink EXCEPT ![m] = s] /\ s.cmd = sink[m].cmd
                    /\ s.chunk = sink[m].chunk + 1 /\ s.end = sink[m].end /\ s.text = sink[m].text
          BY <4>2
        <5>2. sink'[m] = s BY <2>4, <5>1
        <5>3. sink[m].chunk # sink[m].end BY <4>1, <4>2
        <5>4. sink[m].text /\ sink[m].chunk \in Nat /\ sink[m].end \in Nat
          BY <2>3, <2>4, <5>3 DEF SinkAt, Sinks
        <5>5. s.text /\ s.end = Chunks - 1 /\ s.chunk <= s.end BY <1>0, <2>3, <5>1, <5>3, <5>4 DEF SinkAt
        <5>6. last[m].lost <= Chunks BY <2>3 DEF SinkAt
        <5>7. QED BY <1>0, <4>2, <5>2, <5>5, <5>6 DEF SinkAt
      <4>3. CASE /\ sink' = [sink EXCEPT ![m] = NoSink]
                 /\ \E r \in Lasts :
                    /\ last' = [last EXCEPT ![m] = r]
                    /\ \/ ~sink[m].text /\ r = last[m]
                       \/ /\ sink[m].text /\ r.cmd = sink[m].cmd
                          /\ \/ up[m].taken /\ up[m].last /\ r.lost = 0
                             \/ r.lost = sink[m].chunk + 1
        <5>1. PICK r \in Lasts :
                    /\ last' = [last EXCEPT ![m] = r]
                    /\ \/ ~sink[m].text /\ r = last[m]
                       \/ /\ sink[m].text /\ r.cmd = sink[m].cmd
                          /\ \/ up[m].taken /\ up[m].last /\ r.lost = 0
                             \/ r.lost = sink[m].chunk + 1
          BY <4>3
        <5>2. sink'[m] = NoSink /\ last'[m] = r BY <2>4, <4>3, <5>1
        <5>3. sink[m].chunk \in Nat /\ sink[m].end \in Nat BY <2>4 DEF Sinks
        <5>4. r.lost <= Chunks BY <1>0, <2>3, <5>1, <5>3 DEF SinkAt
        <5>5. QED BY <1>0, <5>2, <5>4 DEF SinkAt, NoSink
      <4>4. QED BY <3>5, <4>2, <4>3, ChunkFate
    <3>6. QED BY <2>1, <3>1, <3>2, <3>3, <3>4, <3>5 DEF NodeStep
  <2>6. QED BY <2>2, <2>5 DEF SinkInv
<1> QED BY <1>1, <1>2, NodeCases

-----------------------------------------------------------------------------
(***************************************************************************)
(* The order of the commands                                               *)
(***************************************************************************)

\* An item of the next queue that is in this one, older perhaps.
OldItem(it) ==
  \E o \in queue.items : /\ o.id = it.id /\ o.node = it.node /\ o.cmd = it.cmd
                         /\ o.order = it.order /\ (o.stale => it.stale)

\* The item a step pushes.
NewItem(it) ==
  /\ \E n \in Nodes : Issue(n) /\ HasRoom(queue, n) /\ it.node = n
  /\ it.cmd = issued' /\ it.order = queue.nextOrder /\ it.id = FreeId(queue)
  /\ queue'.nextOrder = queue.nextOrder + 1 /\ queue'.nextId = After(FreeId(queue))

\* What a step does to the queue, seen from the next state.
LEMMA QueueMoves ==
  ASSUME HostShapes, GwShapes, NodeShapes, QueueInv, ShellNext
  PROVE  /\ issued \in Nat /\ issued' \in Nat /\ issued' = IF \E n \in Nodes : Issue(n) THEN issued + 1 ELSE issued
         /\ queue.nextOrder \in Nat
         /\ \/ queue'.nextOrder = queue.nextOrder /\ queue'.nextId = queue.nextId
            \/ GwReboot /\ queue'.nextOrder = 0 /\ queue'.nextId = 1 /\ queue'.items = {}
            \/ queue'.nextOrder = queue.nextOrder + 1 /\ issued' = issued + 1
               /\ (\E n \in Nodes : Issue(n) /\ HasRoom(queue, n)) /\ queue'.nextId = After(FreeId(queue))
         /\ \A it \in queue'.items : OldItem(it) \/ NewItem(it)
<1>1. issued \in Nat /\ scene.cmds \in Nat BY SceneType DEF HostShapes
<1>2. queue \in Queues /\ IsFiniteSet(queue.items) /\ reqs \in Seq(Drops) BY DEF GwShapes, Queues
<1>3. queue.nextOrder \in Nat BY <1>2 DEF Queues
<1>4. \A it \in queue.items : OldItem(it) BY DEF OldItem
<1>5. CASE \E n \in Nodes : Issue(n)
  <2>1. PICK n \in Nodes : Issue(n) BY <1>5
  <2>2. issued' = issued + 1 /\ issued' \in Nat /\ issued' \in Cmds BY <1>1, <2>1, SceneType DEF Issue
  <2>3. CASE queue' = queue BY <1>1, <1>3, <1>4, <1>5, <2>2, <2>3
  <2>4. CASE HasRoom(queue, n) /\ queue' = Push(queue, n, issued')
    <3>1. PICK it : it = [id |-> FreeId(queue), node |-> n, cmd |-> issued', order |-> queue.nextOrder, stale |-> FALSE]
      OBVIOUS
    <3>2. /\ queue'.items = queue.items \cup {it} /\ queue'.nextOrder = queue.nextOrder + 1
          /\ queue'.nextId = After(FreeId(queue))
      BY <1>2, <2>2, <2>4, <3>1, PushIs
    <3>3. NewItem(it) BY <2>1, <2>4, <3>1, <3>2 DEF NewItem
    <3>4. QED BY <1>1, <1>3, <1>4, <1>5, <2>1, <2>2, <2>4, <3>2, <3>3
  <2>5. QED BY <2>1, <2>3, <2>4 DEF Issue
<1>6. CASE ~\E n \in Nodes : Issue(n)
  <2>1. issued' = issued
    BY <1>6, Cases DEF Resync, DropRpc, DropItem, GiveUp, TakeUplink, ReAck, Serve, SendEnds, Expire, ServeDrop,
       GwReboot, Lapse, Wake, NodeReboot, UplinkEnds, WindowEnds, TakeCommand, SendChunk, ChunkEnds,
       nodeOnly, hostVars
  <2>2. CASE queue' = queue BY <1>1, <1>3, <1>4, <1>6, <2>1, <2>2
  <2>3. CASE /\ queue'.items \subseteq queue.items
             /\ queue'.nextOrder = queue.nextOrder /\ queue'.nextId = queue.nextId
    BY <1>1, <1>3, <1>4, <1>6, <2>1, <2>3
  <2>4. CASE SendEnds
    <3>1. CASE queue' = queue BY <2>2, <3>1
    <3>2. CASE /\ queue' = [queue EXCEPT !.items = queue'.items]
               /\ queue'.items = {it \in queue.items : it.id # down.id}
      <4>1. queue'.nextOrder = queue.nextOrder /\ queue'.nextId = queue.nextId BY <1>2, <3>2 DEF Queues
      <4>2. QED BY <2>3, <3>2, <4>1
    <3>3. QED BY <2>4, <3>1, <3>2, SendEndsIs
  <2>5. CASE Expire
    <3>1. /\ queue' = [queue EXCEPT !.items = queue'.items]
          /\ queue'.items = {it \in queue.items : ~it.stale}
      BY <2>5, ExpireIs
    <3>2. queue'.nextOrder = queue.nextOrder /\ queue'.nextId = queue.nextId BY <1>2, <3>1 DEF Queues
    <3>3. QED BY <2>3, <3>1, <3>2
  <2>6. CASE ServeDrop
    <3>1. CASE queue' = queue BY <2>2, <3>1
    <3>2. CASE queue' = Dropped(queue, Head(reqs))
      <4>1. Head(reqs) \in Drops BY <1>2, <2>6 DEF ServeDrop
      <4>2. QED BY <1>2, <2>3, <3>2, <4>1, DroppedIs
    <3>3. QED BY <2>6, <3>1, <3>2 DEF ServeDrop
  <2>7. CASE GwReboot
    <3>1. queue' = NewQueue BY <2>7 DEF GwReboot
    <3>2. queue'.nextOrder = 0 /\ queue'.nextId = 1 /\ queue'.items = {} BY <3>1 DEF NewQueue
    <3>3. QED BY <1>1, <1>3, <1>6, <2>1, <2>7, <3>2
  <2>8. CASE \E it \in queue.items : Lapse(it)
    <3>1. PICK it \in queue.items : Lapse(it) BY <2>8
    <3>2. queue' = Age(queue, it) BY <3>1 DEF Lapse
    <3>3. PICK old : old = [it EXCEPT !.stale = TRUE]
      OBVIOUS
    <3>4. /\ old.id = it.id /\ old.node = it.node /\ old.cmd = it.cmd
          /\ old.order = it.order /\ old.stale = TRUE
          /\ queue'.items = (queue.items \ {it}) \cup {old}
          /\ queue'.nextOrder = queue.nextOrder /\ queue'.nextId = queue.nextId
      BY <1>2, <3>2, <3>3, AgeIs
    <3>5. OldItem(old) BY <3>4 DEF OldItem
    <3>6. QED BY <1>1, <1>3, <1>4, <1>6, <2>1, <3>4, <3>5
  <2>9. (\/ Resync \/ DropRpc \/ (\E c \in Cmds : GiveUp(c)) \/ (\E n \in Nodes : TakeUplink(n))
         \/ (\E n \in Nodes : ReAck(n)) \/ Serve
         \/ (\E n \in Nodes : Wake(n)) \/ (\E n \in Nodes : NodeReboot(n))
         \/ (\E n \in Nodes : UplinkEnds(n)) \/ (\E n \in Nodes : WindowEnds(n))
         \/ (\E n \in Nodes : TakeCommand(n)) \/ (\E n \in Nodes : SendChunk(n))
         \/ (\E n \in Nodes : ChunkEnds(n)))
        => queue' = queue
    BY DEF Resync, DropRpc, DropItem, GiveUp, TakeUplink, ReAck, Serve, Wake, NodeReboot, UplinkEnds,
       WindowEnds, TakeCommand, SendChunk, ChunkEnds, nodeOnly, gwVars
  <2> QED BY <1>6, <2>2, <2>4, <2>5, <2>6, <2>7, <2>8, <2>9, Cases
<1> QED BY <1>5, <1>6

\* What a step does to the downlink in flight.
LEMMA DownMoves ==
  ASSUME HostShapes, GwShapes, NodeShapes, ShellNext
  PROVE  \/ down' = NoDown
         \/ down'.node = down.node /\ down'.cmd = down.cmd /\ down'.id = down.id
         \/ /\ UNCHANGED <<queue, pc, up, sink, last, ran>>
            /\ \E it \in queue.items :
                 /\ ~it.stale /\ down'.node = it.node /\ down'.cmd = it.cmd /\ down'.id = it.id
                 /\ \A o \in queue.items : o.node = it.node /\ ~o.stale => it.order <= o.order
<1>1. CASE Serve
  <2>1. UNCHANGED <<pc, up, sink, last, ran>> BY <1>1 DEF Serve, nodeVars
  <2>2. QED BY <1>1, <2>1, ServeIs
<1>2. CASE \E n \in Nodes : TakeCommand(n)
  <2>1. down \in Sends /\ down' = [down EXCEPT !.taken = TRUE] BY <1>2, TakenSink DEF TakeCommand
  <2>2. QED BY <2>1 DEF Sends
<1>3. CASE ~Serve /\ ~\E n \in Nodes : TakeCommand(n)
  <2>1. down' = down \/ down' = NoDown
    BY <1>3, Cases DEF Resync, DropRpc, DropItem, Issue, GiveUp, TakeUplink, ReAck, SendEnds, Expire, ServeDrop,
       GwReboot, Lapse, Wake, NodeReboot, UplinkEnds, WindowEnds, SendChunk, ChunkEnds, gwVars
  <2>2. QED BY <2>1
<1> QED BY <1>1, <1>2, <1>3

LEMMA QueueOrderStep ==
  ASSUME HostShapes, GwShapes, GwShapes', NodeShapes, QueueInv, QueueOrder, ShellNext
  PROVE  QueueOrder'
<1>1. /\ issued \in Nat /\ issued' \in Nat /\ issued' = IF \E n \in Nodes : Issue(n) THEN issued + 1 ELSE issued
      /\ queue.nextOrder \in Nat
      /\ \/ queue'.nextOrder = queue.nextOrder /\ queue'.nextId = queue.nextId
         \/ GwReboot /\ queue'.nextOrder = 0 /\ queue'.nextId = 1 /\ queue'.items = {}
         \/ queue'.nextOrder = queue.nextOrder + 1 /\ issued' = issued + 1
            /\ (\E n \in Nodes : Issue(n) /\ HasRoom(queue, n)) /\ queue'.nextId = After(FreeId(queue))
      /\ \A it \in queue'.items : OldItem(it) \/ NewItem(it)
  BY QueueMoves
<1>2. /\ queue.nextOrder <= issued
      /\ \A it \in queue.items : it.order < queue.nextOrder /\ it.cmd <= issued
      /\ \A a, b \in queue.items : a.order <= b.order => a.cmd <= b.cmd
  BY DEF QueueOrder
<1>3. \A it \in queue.items : it.order \in Nat /\ it.cmd \in Nat
  <2>1. \A it \in queue.items : it \in Items BY DEF GwShapes
  <2>2. QED BY <2>1, SceneType DEF Items
<1>4. issued <= issued' BY <1>1
<1>5. queue'.nextOrder <= issued' BY <1>1, <1>2
<1>6. ASSUME NEW it \in queue'.items
      PROVE  /\ it.order < queue'.nextOrder /\ it.cmd <= issued'
             /\ OldItem(it) \/ (it.order = queue.nextOrder /\ it.cmd = issued' /\ issued' = issued + 1)
  <2>1. CASE OldItem(it)
    <3>1. PICK o \in queue.items : o.cmd = it.cmd /\ o.order = it.order BY <2>1 DEF OldItem
    <3>2. queue.nextOrder <= queue'.nextOrder BY <1>1
    <3>3. QED BY <1>1, <1>2, <1>3, <1>4, <2>1, <3>1, <3>2
  <2>2. CASE NewItem(it)
    <3>1. it.cmd = issued' /\ it.order = queue.nextOrder /\ queue'.nextOrder = queue.nextOrder + 1
      BY <2>2 DEF NewItem
    <3>2. issued' = issued + 1 BY <1>1, <2>2 DEF NewItem
    <3>3. QED BY <1>1, <3>1, <3>2
  <2>3. QED BY <1>1, <2>1, <2>2
<1>7. ASSUME NEW a \in queue'.items, NEW b \in queue'.items, a.order <= b.order
      PROVE  a.cmd <= b.cmd
  <2>1. ASSUME NEW c \in queue'.items, OldItem(c)
        PROVE  \E o \in queue.items : o.cmd = c.cmd /\ o.order = c.order
    BY <2>1 DEF OldItem
  <2>2. CASE OldItem(a) /\ OldItem(b) BY <1>2, <1>7, <2>1, <2>2
  <2>3. CASE OldItem(a) /\ b.order = queue.nextOrder /\ b.cmd = issued' /\ issued' = issued + 1
    BY <1>1, <1>6, <2>3
  <2>4. CASE a.order = queue.nextOrder /\ OldItem(b)
    <3>1. PICK o \in queue.items : o.cmd = b.cmd /\ o.order = b.order BY <2>1, <2>4
    <3>2. QED BY <1>1, <1>2, <1>3, <1>7, <2>4, <3>1
  <2>5. CASE a.cmd = issued' /\ b.cmd = issued' BY <1>1, <2>5
  <2>6. QED BY <1>6, <2>2, <2>3, <2>4, <2>5
<1> QED BY <1>5, <1>6, <1>7 DEF QueueOrder

LEMMA DownOrderStep ==
  ASSUME HostShapes, GwShapes, GwShapes', NodeShapes, QueueInv, QueueOrder, DownOrder, ShellNext
  PROVE  DownOrder'
<1>1. /\ issued \in Nat /\ issued' \in Nat /\ issued' = IF \E n \in Nodes : Issue(n) THEN issued + 1 ELSE issued
      /\ \A it \in queue'.items : OldItem(it) \/ NewItem(it)
  BY QueueMoves
<1>2. \A it \in queue'.items : it.node \in Nodes /\ it.cmd \in Nat
  <2>1. \A it \in queue'.items : it \in Items' BY DEF GwShapes
  <2>2. Items' = Items BY Cases, SceneKept
  <2>3. \A it \in queue'.items : it \in Items BY <2>1, <2>2
  <2>4. Cmds \subseteq Nat BY SceneType
  <2>5. QED BY <2>3, <2>4 DEF Items
<1>3. down.cmd \in Nat BY SceneType DEF GwShapes, Sends, NoDown
<1>4. CASE down' = NoDown BY <1>1, <1>2, <1>4, ShellAssumption DEF DownOrder, NoDown
<1>5. CASE down'.node = down.node /\ down'.cmd = down.cmd
  <2>1. down.cmd <= issued' BY <1>1, <1>3 DEF DownOrder
  <2>2. ASSUME NEW it \in queue'.items, it.node = down.node, ~it.stale PROVE down.cmd <= it.cmd
    <3>1. CASE OldItem(it)
      <4>1. PICK o \in queue.items : o.node = it.node /\ o.cmd = it.cmd /\ (o.stale => it.stale)
        BY <3>1 DEF OldItem
      <4>2. QED BY <2>2, <4>1 DEF DownOrder
    <3>2. CASE NewItem(it) BY <2>1, <3>2 DEF NewItem
    <3>3. QED BY <1>1, <3>1, <3>2
  <2>3. QED BY <1>5, <2>1, <2>2 DEF DownOrder
<1>6. CASE queue' = queue /\ \E it \in queue.items :
                 /\ ~it.stale /\ down'.node = it.node /\ down'.cmd = it.cmd /\ down'.id = it.id
                 /\ \A o \in queue.items : o.node = it.node /\ ~o.stale => it.order <= o.order
  <2>1. PICK it \in queue.items :
                 /\ ~it.stale /\ down'.node = it.node /\ down'.cmd = it.cmd /\ down'.id = it.id
                 /\ \A o \in queue.items : o.node = it.node /\ ~o.stale => it.order <= o.order
    BY <1>6
  <2>2. it.cmd <= issued /\ \A o \in queue.items : it.order <= o.order => it.cmd <= o.cmd BY DEF QueueOrder
  <2>3. it.cmd <= issued' BY <1>1, <1>2, <1>6, <2>2
  <2>4. QED BY <1>6, <2>1, <2>2, <2>3 DEF DownOrder
<1> QED BY <1>4, <1>5, <1>6, DownMoves

\* What a node ran is a sequence of commands.
LEMMA RanType ==
  ASSUME HostShapes, NodeShapes, NEW n \in Nodes
  PROVE  /\ ran[n] \in Seq(Cmds) /\ DOMAIN ran[n] = 1 .. Len(ran[n]) /\ Len(ran[n]) \in Nat
         /\ \A i \in DOMAIN ran[n] : ran[n][i] \in Cmds /\ ran[n][i] \in Nat
         /\ Latest(n) \in Nat /\ last[n].cmd \in Nat /\ sink[n].cmd \in Nat /\ sink[n].text \in BOOLEAN
<1>1. ran[n] \in Seq(Cmds) BY DEF NodeShapes
<1>2. sink[n] \in Sinks /\ last[n] \in Lasts /\ Cmds = 1 .. scene.cmds /\ scene.cmds \in Nat
  BY SceneType DEF NodeShapes
<1>3. last[n].cmd \in Nat /\ sink[n].cmd \in Nat /\ sink[n].text \in BOOLEAN BY <1>2 DEF Sinks, Lasts
<1>4. \A i \in DOMAIN ran[n] : ran[n][i] \in Cmds BY <1>1
<1>5. \A i \in DOMAIN ran[n] : ran[n][i] \in Nat BY <1>2, <1>4
<1> QED BY <1>1, <1>3, <1>4, <1>5 DEF Latest

\* What a node's step leaves alone outside the nodes.
LEMMA NodeStepKeeps ==
  ASSUME HostShapes, GwShapes, NodeShapes, NEW m \in Nodes, NodeStep(m)
  PROVE  queue' = queue /\ issued' = issued /\ down'.node = down.node /\ down'.cmd = down.cmd
<1>1. queue' = queue /\ issued' = issued
  BY DEF NodeStep, TakeUplink, ReAck, Wake, NodeReboot, UplinkEnds, WindowEnds, TakeCommand, SendChunk, ChunkEnds,
         nodeOnly, hostVars, gwVars
<1>2. CASE TakeCommand(m)
  <2>1. down \in Sends /\ down' = [down EXCEPT !.taken = TRUE] BY <1>2, TakenSink DEF TakeCommand
  <2>2. QED BY <1>1, <2>1 DEF Sends
<1>3. CASE ~TakeCommand(m)
  <2>1. down' = down
    BY <1>3 DEF NodeStep, TakeUplink, ReAck, Wake, NodeReboot, UplinkEnds, WindowEnds, SendChunk, ChunkEnds, gwVars
  <2>2. QED BY <1>1, <2>1
<1> QED BY <1>2, <1>3

LEMMA OrderAtStep ==
  ASSUME HostShapes, GwShapes, GwShapes', NodeShapes, QueueInv, PhaseInv, QueueOrder, DownOrder,
         \A n \in Nodes : OrderAt(n), ShellNext, NEW n \in Nodes
  PROVE  OrderAt(n)'
<1>0. OrderAt(n)
  OBVIOUS
<1>1. CASE sink'[n] = sink[n] /\ last'[n] = last[n] /\ ran'[n] = ran[n]
  <2>1. Latest(n)' = Latest(n) /\ Latest(n) \in Nat BY <1>1, RanType DEF Latest
  <2>2. PICK l \in Nat : l = Latest(n) /\ l = Latest(n)' BY <2>1
  <2>3. /\ l <= issued /\ (down.node = n => l <= down.cmd)
        /\ \A it \in queue.items : it.node = n /\ ~it.stale => l <= it.cmd
    BY <1>0, <2>2 DEF OrderAt
  <2>4. /\ issued \in Nat /\ issued' \in Nat /\ issued' = IF \E k \in Nodes : Issue(k) THEN issued + 1 ELSE issued
        /\ \A it \in queue'.items : OldItem(it) \/ NewItem(it)
    BY QueueMoves
  <2>5. l <= issued' BY <2>3, <2>4
  <2>6. ASSUME down'.node = n PROVE l <= down'.cmd
    <3>1. CASE down' = NoDown BY <2>6, <3>1, ShellAssumption DEF NoDown
    <3>2. CASE down'.node = down.node /\ down'.cmd = down.cmd BY <2>3, <2>6, <3>2
    <3>3. CASE \E it \in queue.items : ~it.stale /\ down'.node = it.node /\ down'.cmd = it.cmd
      BY <2>3, <2>6, <3>3
    <3>4. QED BY <3>1, <3>2, <3>3, DownMoves
  <2>7. ASSUME NEW it \in queue'.items, it.node = n, ~it.stale PROVE l <= it.cmd
    <3>1. CASE OldItem(it)
      <4>1. PICK o \in queue.items : o.node = it.node /\ o.cmd = it.cmd /\ (o.stale => it.stale)
        BY <3>1 DEF OldItem
      <4>2. QED BY <2>3, <2>7, <4>1
    <3>2. CASE NewItem(it) BY <2>5, <3>2 DEF NewItem
    <3>3. QED BY <2>4, <3>1, <3>2
  <2>8. /\ l >= 1 => l \in Range(ran'[n])
        /\ sink'[n].text => last'[n].cmd < sink'[n].cmd
        /\ last'[n].cmd >= 1 => last'[n].cmd \in Range(ran'[n])
        /\ \A i \in DOMAIN ran'[n] : ran'[n][i] <= l
        /\ \A i, j \in DOMAIN ran'[n] : i < j => ran'[n][i] < ran'[n][j]
    BY <1>0, <1>1, <2>2 DEF OrderAt
  <2>9. QED BY <2>2, <2>5, <2>6, <2>7, <2>8 DEF OrderAt
<1>2. CASE NodeStep(n)
  <2>1. queue' = queue /\ issued' = issued /\ down'.node = down.node /\ down'.cmd = down.cmd
    BY <1>2, NodeStepKeeps
  <2>2. /\ sink \in [Nodes -> Sinks] /\ last \in [Nodes -> Lasts] /\ ran \in [Nodes -> Seq(Cmds)]
        /\ issued \in Nat /\ scene.cmds \in Nat
    BY SceneType DEF NodeShapes, HostShapes
  <2>3. CASE NodeReboot(n)
    <3>1. sink' = [sink EXCEPT ![n] = NoSink] /\ last' = [last EXCEPT ![n] = NoLast]
          /\ ran' = [ran EXCEPT ![n] = <<>>]
      BY <2>3 DEF NodeReboot
    <3>2. sink'[n] = NoSink /\ last'[n] = NoLast /\ ran'[n] = <<>> BY <2>2, <3>1
    <3>3. sink'[n].text = FALSE /\ last'[n].cmd = 0 /\ DOMAIN ran'[n] = {} /\ Latest(n)' = 0
      BY <3>2 DEF NoSink, NoLast, Latest
    <3>4. down'.cmd \in Nat /\ \A it \in queue'.items : it.cmd \in Nat
      <4>1. down.cmd \in Nat BY SceneType DEF GwShapes, Sends, NoDown
      <4>2. \A it \in queue.items : it \in Items BY DEF GwShapes
      <4>3. QED BY <2>1, <4>1, <4>2, SceneType DEF Items
    <3>5. QED BY <2>1, <2>2, <3>3, <3>4 DEF OrderAt
  <2>4. CASE TakeCommand(n)
    <3>1. last' = last /\ pc[n] = "window" /\ down.node = n BY <2>4 DEF TakeCommand
    <3>2. sink[n].text = FALSE BY <3>1 DEF PhaseInv, PhaseAt, NoSink
    <3>3. down.cmd \in Cmds /\ down.cmd \in Nat /\ down.cmd >= 1
      <4>1. down.cmd \in Cmds BY <2>4, TakenSink
      <4>2. QED BY <4>1, SceneType
    <3>4. PICK s \in Sinks :
          /\ sink' = [sink EXCEPT ![n] = s] /\ s.cmd = down.cmd
          /\ \/ /\ last[n].cmd = down.cmd /\ s.text = FALSE /\ s.chunk = s.end /\ ran' = ran
                /\ s.chunk = IF last[n].lost = 0 THEN 0 ELSE last[n].lost + 1
             \/ /\ last[n].cmd # down.cmd /\ s.text = TRUE /\ s.chunk = 0 /\ s.end = Chunks - 1
                /\ ran' = [ran EXCEPT ![n] = Append(ran[n], down.cmd)]
      BY <2>4, TakenSink
    <3>5. sink'[n] = s BY <2>2, <3>4
    <3>6. Latest(n) = last[n].cmd BY <3>2 DEF Latest
    <3>7. last[n].cmd \in Nat /\ ran[n] \in Seq(Cmds) /\ DOMAIN ran[n] = 1 .. Len(ran[n]) /\ Len(ran[n]) \in Nat
          /\ (\A i \in DOMAIN ran[n] : ran[n][i] \in Nat)
      BY RanType
    <3>8. CASE s.text = FALSE /\ ran' = ran
      <4>1. Latest(n)' = last[n].cmd BY <3>1, <3>5, <3>8 DEF Latest
      <4>2. QED BY <1>0, <2>1, <3>1, <3>5, <3>6, <3>8, <4>1 DEF OrderAt
    <3>9. CASE last[n].cmd # down.cmd /\ s.text = TRUE /\ ran' = [ran EXCEPT ![n] = Append(ran[n], down.cmd)]
      <4>1. Latest(n)' = down.cmd BY <3>4, <3>5, <3>9 DEF Latest
      <4>2. PICK c \in Nat : c = down.cmd /\ c = Latest(n)' BY <3>3, <4>1
      <4>3. PICK l \in Nat : l = last[n].cmd BY <3>7
      <4>4. /\ l <= c /\ l < c
            /\ \A i \in DOMAIN ran[n] : ran[n][i] <= l
            /\ \A i, j \in DOMAIN ran[n] : i < j => ran[n][i] < ran[n][j]
            /\ l >= 1 => l \in Range(ran[n])
        BY <1>0, <3>1, <3>6, <3>9, <4>2, <4>3 DEF OrderAt
      <4>5. PICK r \in Seq(Cmds) : r = ran[n] BY <3>7
      <4>6. ran'[n] = Append(r, c) BY <2>2, <3>9, <4>2, <4>5
      <4>7. /\ Len(ran'[n]) = Len(r) + 1 /\ DOMAIN ran'[n] = 1 .. Len(r) + 1
            /\ ran'[n][Len(r) + 1] = c /\ \A i \in 1 .. Len(r) : ran'[n][i] = r[i]
        BY <3>3, <4>2, <4>5, <4>6
      <4>8. c \in Range(ran'[n]) BY <3>7, <4>5, <4>7 DEF Range
      <4>9. l >= 1 => l \in Range(ran'[n])
        <5>1. SUFFICES ASSUME l >= 1 PROVE l \in Range(ran'[n])
          OBVIOUS
        <5>2. PICK i \in DOMAIN ran[n] : ran[n][i] = l BY <4>4, <5>1 DEF Range
        <5>3. QED BY <3>7, <4>5, <4>7, <5>2 DEF Range
      <4>10. \A i \in DOMAIN ran'[n] : ran'[n][i] <= c BY <3>7, <4>4, <4>5, <4>7
      <4>11. \A i, j \in DOMAIN ran'[n] : i < j => ran'[n][i] < ran'[n][j]
        BY <3>7, <4>4, <4>5, <4>7, SMTT(30)
      <4>12. c <= issued /\ \A it \in queue.items : it.node = n /\ ~it.stale => c <= it.cmd
        BY <3>1, <4>2 DEF DownOrder
      <4>13. sink'[n].cmd = c /\ last'[n].cmd = l /\ down'.cmd = c BY <2>1, <3>1, <3>4, <3>5, <4>2, <4>3
      <4>14. QED BY <2>1, <4>2, <4>4, <4>8, <4>9, <4>10, <4>11, <4>12, <4>13 DEF OrderAt
    <3>10. QED BY <3>4, <3>8, <3>9
  <2>5. CASE ChunkEnds(n)
    <3>1. ran' = ran BY <2>5 DEF ChunkEnds
    <3>2. Latest(n)' = Latest(n) /\ (sink'[n].text => last'[n].cmd < sink'[n].cmd)
          /\ (last'[n].cmd >= 1 => last'[n].cmd \in Range(ran[n]))
      <4>1. CASE last' = last /\ \E s \in Sinks :
                    /\ sink' = [sink EXCEPT ![n] = s] /\ s.cmd = sink[n].cmd
                    /\ s.chunk = sink[n].chunk + 1 /\ s.end = sink[n].end /\ s.text = sink[n].text
        <5>1. sink'[n].cmd = sink[n].cmd /\ sink'[n].text = sink[n].text BY <2>2, <4>1
        <5>2. QED BY <1>0, <4>1, <5>1 DEF Latest, OrderAt
      <4>2. CASE /\ sink' = [sink EXCEPT ![n] = NoSink]
                 /\ \E r \in Lasts :
                    /\ last' = [last EXCEPT ![n] = r]
                    /\ \/ ~sink[n].text /\ r = last[n]
                       \/ /\ sink[n].text /\ r.cmd = sink[n].cmd
                          /\ \/ up[n].taken /\ up[n].last /\ r.lost = 0
                             \/ r.lost = sink[n].chunk + 1
        <5>1. sink'[n].text = FALSE BY <2>2, <4>2 DEF NoSink
        <5>2. last'[n].cmd = IF sink[n].text THEN sink[n].cmd ELSE last[n].cmd BY <2>2, <4>2
        <5>3. QED BY <1>0, <5>1, <5>2 DEF Latest, OrderAt
      <4>3. QED BY <2>5, <4>1, <4>2, ChunkFate
    <3>3. QED BY <1>0, <2>1, <3>1, <3>2 DEF OrderAt
  <2>6. CASE ~NodeReboot(n) /\ ~TakeCommand(n) /\ ~ChunkEnds(n)
    <3>1. sink' = sink /\ last' = last /\ ran' = ran
      BY <1>2, <2>6 DEF NodeStep, TakeUplink, ReAck, Wake, UplinkEnds, WindowEnds, SendChunk
    <3>2. QED BY <1>1, <3>1
  <2>7. QED BY <2>3, <2>4, <2>5, <2>6
<1>3. \/ sink'[n] = sink[n] /\ last'[n] = last[n] /\ ran'[n] = ran[n]
      \/ NodeStep(n)
  BY NodeCases, OthersKept
<1> QED BY <1>1, <1>2, <1>3

-----------------------------------------------------------------------------
(***************************************************************************)
(* The host's dialogs                                                      *)
(***************************************************************************)

Kept(c)  == pend'[c] = pend[c] /\ outcome'[c] = outcome[c] /\ got'[c] = got[c]

\* The dialog of c fails, or never begins.
Ended(c) ==
  /\ Pending(c) \/ (c = issued' /\ \E n \in Nodes : Issue(n))
  /\ pend'[c] = NoPending /\ outcome'[c] = "error" /\ got'[c] = got[c]

Begun(c) ==
  /\ \E n \in Nodes :
       /\ Issue(n) /\ HasRoom(queue, n)
       /\ pend'[c] = [node |-> n, item |-> FreeId(queue), queued |-> TRUE, delivered |-> FALSE,
                      next |-> 0, truncated |-> FALSE]
       /\ queue'.items = queue.items \cup
            {[id |-> FreeId(queue), node |-> n, cmd |-> c, order |-> queue.nextOrder, stale |-> FALSE]}
  /\ c = issued' /\ outcome'[c] = outcome[c] /\ got'[c] = got[c]

\* A chunk of the reply to c arrives.
Chunked(m, c) ==
  /\ TakeUplink(m) /\ up[m].cmd = c /\ Pending(c) /\ dropped' = dropped
  /\ got'[c] = IF up[m].text THEN got[c] \cup {up[m].chunk} ELSE got[c]
  /\ \/ /\ up[m].last /\ pend'[c] = NoPending
        /\ outcome'[c] = IF Truncated(pend[c], up[m]) THEN "truncated" ELSE "complete"
     \/ /\ ~up[m].last /\ outcome'[c] = outcome[c]
        /\ pend'[c] = [node |-> pend[c].node, item |-> pend[c].item, queued |-> FALSE,
                       delivered |-> TRUE, next |-> up[m].chunk + 1,
                       truncated |-> Truncated(pend[c], up[m])]

\* The gateway reports the item of c delivered.
Reported(c) ==
  /\ SendEnds /\ Pending(c) /\ outcome'[c] = outcome[c] /\ got'[c] = got[c]
  /\ pend'[c] = [node |-> pend[c].node, item |-> pend[c].item, queued |-> FALSE,
                 delivered |-> TRUE, next |-> pend[c].next, truncated |-> pend[c].truncated]

\* A report means a pending command.
LEMMA MeantPending ==
  ASSUME HostShapes, NEW n \in Nodes, NEW id, NEW c \in Meant(n, id)
  PROVE  c \in Cmds /\ Pending(c) /\ pend[c].node = n /\ pend[c].item = id
<1>1. c \in Cmds /\ pend[c].node = n /\ pend[c].item = id BY DEF Meant
<1>2. pend[c] # NoPending BY <1>1, ShellAssumption DEF NoPending
<1> QED BY <1>1, <1>2 DEF Pending

LEMMA PendType ==
  ASSUME HostShapes, NEW c \in Cmds
  PROVE  /\ pend[c] = NoPending \/ pend[c] \in Dialogs
         /\ Pending(c) => pend[c] \in Dialogs
         /\ pend[c].node \in Nodes => Pending(c)
<1>1. pend[c] = NoPending \/ pend[c] \in Dialogs BY DEF HostShapes
<1>2. pend[c] = NoPending => pend[c].node \notin Nodes BY ShellAssumption DEF NoPending
<1> QED BY <1>1, <1>2 DEF Pending

\* Fail, one dialog at a time.
LEMMA FailMoves ==
  ASSUME HostShapes, NEW cs, Fail(cs), got' = got, \A c \in Cmds : c \in cs => Pending(c)
  PROVE  \A c \in Cmds : Kept(c) \/ Ended(c)
<1>1. TAKE c \in Cmds
<1>2. pend'[c] = IF c \in cs THEN NoPending ELSE pend[c] BY DEF Fail
<1>3. outcome'[c] = IF c \in cs THEN "error" ELSE outcome[c] BY DEF Fail
<1> QED BY <1>2, <1>3 DEF Kept, Ended

LEMMA DialogMoves ==
  ASSUME HostShapes, GwShapes, NodeShapes, QueueInv, DialogInv, ShellNext, NEW c \in Cmds
  PROVE  Kept(c) \/ Ended(c) \/ Begun(c) \/ Reported(c) \/ \E m \in Nodes : Chunked(m, c)
<1>0. /\ pend \in [Cmds -> {NoPending} \cup Dialogs] /\ outcome \in [Cmds -> Outcomes]
      /\ got \in [Cmds -> SUBSET Nat]
  BY DEF HostShapes
<1>00. queue \in Queues /\ IsFiniteSet(queue.items) /\ \A it \in queue.items : it.node \in Nodes
  <2>1. queue \in Queues /\ IsFiniteSet(queue.items) BY DEF GwShapes, Queues
  <2>2. \A it \in queue.items : it \in Items BY <2>1 DEF Queues
  <2>3. QED BY <2>1, <2>2 DEF Items
<1>1. CASE UNCHANGED <<pend, outcome, got>> BY <1>1 DEF Kept
<1>2. CASE Resync
  <2> DEFINE held(d) == \E it \in queue.items : it.id = pend[d].item /\ it.node = pend[d].node
             cs == {d \in Cmds : Pending(d) /\ ~pend[d].delivered /\ ~held(d)}
  <2>1. Fail(cs) /\ got' = got BY <1>2 DEF Resync
  <2>2. \A d \in Cmds : d \in cs => Pending(d)
    OBVIOUS
  <2> HIDE DEF cs
  <2>3. QED BY <2>1, <2>2, FailMoves
<1>3. CASE DropRpc
  <2>1. PICK it \in queue.items : \E id \in {0, it.id} : DropItem(it.node, id) BY <1>3 DEF DropRpc
  <2>2. PICK id \in {0, it.id} : DropItem(it.node, id) BY <2>1
  <2> DEFINE cs == {d \in Cmds : pend[d].node = it.node /\
            IF id = 0 THEN ~pend[d].delivered ELSE pend[d].item = id}
  <2>3. Fail(cs) /\ got' = got BY <2>2 DEF DropItem
  <2>4. \A d \in Cmds : d \in cs => Pending(d) BY <1>00, PendType
  <2> HIDE DEF cs
  <2>5. QED BY <2>3, <2>4, FailMoves
<1>4. CASE \E n \in Nodes : Issue(n)
  <2>1. PICK n \in Nodes : Issue(n) BY <1>4
  <2>2. got' = got /\ issued' \in Cmds BY <2>1, SceneType DEF Issue, HostShapes
  <2>3. CASE c # issued'
    <3>1. outcome' = outcome \/ outcome' = [outcome EXCEPT ![issued'] = "error"] BY <2>1 DEF Issue
    <3>2. pend' = pend \/ \E p : pend' = [pend EXCEPT ![issued'] = p] BY <2>1 DEF Issue
    <3>3. outcome'[c] = outcome[c] BY <1>0, <2>3, <3>1
    <3>4. pend'[c] = pend[c] BY <1>0, <2>3, <3>2
    <3>5. QED BY <2>2, <3>3, <3>4 DEF Kept
  <2>4. CASE c = issued' /\ pend' = pend /\ outcome' = [outcome EXCEPT ![issued'] = "error"]
    <3>1. outcome'[c] = "error" /\ pend'[c] = pend[c] BY <1>0, <2>4
    <3>2. c > issued BY <2>1, <2>4, SceneType DEF Issue, HostShapes
    <3>3. pend[c] = NoPending BY <3>2 DEF DialogInv
    <3>4. QED BY <1>4, <2>2, <2>4, <3>1, <3>3 DEF Ended
  <2>5. CASE /\ c = issued' /\ HasRoom(queue, n) /\ outcome' = outcome /\ queue' = Push(queue, n, issued')
             /\ pend' = [pend EXCEPT ![issued'] =
                  [NoPending EXCEPT !.node = n, !.item = FreeId(queue), !.queued = TRUE]]
    <3>1. FreeId(queue) \in 1 .. MaxId BY <1>00, <2>5, FreeIdIsFree DEF HasRoom
    <3>2. pend'[c] = [node |-> n, item |-> FreeId(queue), queued |-> TRUE, delivered |-> FALSE,
                      next |-> 0, truncated |-> FALSE]
      <4>1. pend'[c] = [NoPending EXCEPT !.node = n, !.item = FreeId(queue), !.queued = TRUE] BY <1>0, <2>5
      <4>2. QED BY <3>1, <4>1, AskedIs
    <3>3. queue'.items = queue.items \cup
            {[id |-> FreeId(queue), node |-> n, cmd |-> c, order |-> queue.nextOrder, stale |-> FALSE]}
      BY <1>00, <2>2, <2>5, PushIs
    <3>4. QED BY <2>1, <2>2, <2>5, <3>2, <3>3 DEF Begun
  <2>6. QED BY <2>1, <2>3, <2>4, <2>5 DEF Issue
<1>5. CASE \E d \in Cmds : GiveUp(d)
  <2>1. PICK d \in Cmds : GiveUp(d) BY <1>5
  <2>2. Fail({d}) /\ got' = got /\ Pending(d) BY <2>1 DEF GiveUp
  <2>3. \A e \in Cmds : e \in {d} => Pending(e) BY <2>2
  <2>4. QED BY <2>2, <2>3, FailMoves
<1>6. CASE \E m \in Nodes : TakeUplink(m)
  <2>1. PICK m \in Nodes : TakeUplink(m) BY <1>6
  <2>2. PICK f \in Ups : f = up[m] BY DEF NodeShapes
  <2>3. CASE UNCHANGED <<pend, outcome, got>> BY <1>1, <2>3
  <2>4. CASE OnChunk(f) /\ dropped' = dropped
    <3>1. CASE f.cmd = 0 \/ ~Pending(f.cmd) BY <1>1, <2>4, <3>1 DEF OnChunk
    <3>2. CASE ~(f.cmd = 0 \/ ~Pending(f.cmd))
      <4>1. PICK d : d = f.cmd
        OBVIOUS
      <4>2. d \in Cmds /\ f.chunk \in Nat /\ Pending(d) /\ f.last \in BOOLEAN
        BY <3>2, <4>1, SceneType DEF Ups
      <4>3. PICK p \in Dialogs : p = pend[d] BY <4>2, PendType
      <4>4. /\ got' = IF f.text THEN [got EXCEPT ![d] = @ \cup {f.chunk}] ELSE got
            /\ pend' = [pend EXCEPT ![d] = IF f.last THEN NoPending ELSE
                 [p EXCEPT !.queued = FALSE, !.delivered = TRUE, !.next = f.chunk + 1,
                           !.truncated = Truncated(p, f)]]
            /\ outcome' = IF f.last
                 THEN [outcome EXCEPT ![d] = IF Truncated(p, f) THEN "truncated" ELSE "complete"]
                 ELSE outcome
        BY <2>4, <3>2, <4>1, <4>3 DEF OnChunk
      <4>5. CASE c # d
        <5>1. got'[c] = got[c] BY <1>0, <4>4, <4>5
        <5>2. pend'[c] = pend[c] BY <1>0, <4>4, <4>5
        <5>3. outcome'[c] = outcome[c] BY <1>0, <4>4, <4>5
        <5>4. QED BY <5>1, <5>2, <5>3 DEF Kept
      <4>6. CASE c = d
        <5>1. got'[d] = IF f.text THEN got[d] \cup {f.chunk} ELSE got[d] BY <1>0, <4>2, <4>4
        <5>2. PICK t \in BOOLEAN : t = Truncated(p, f)
          <6>1. p.truncated \in BOOLEAN BY DEF Dialogs
          <6>2. QED BY <6>1, Zenon DEF Truncated
        <5>3. CASE f.last
          <6>1. pend'[d] = NoPending BY <1>0, <4>2, <4>4, <5>3
          <6>2. outcome'[d] = IF Truncated(p, f) THEN "truncated" ELSE "complete" BY <1>0, <4>2, <4>4, <5>3
          <6>3. QED BY <2>1, <2>2, <2>4, <4>1, <4>2, <4>3, <4>6, <5>1, <5>3, <6>1, <6>2 DEF Chunked
        <5>4. CASE ~f.last
          <6>1. outcome' = outcome BY <4>4, <5>4
          <6>2. pend'[d] = [p EXCEPT !.queued = FALSE, !.delivered = TRUE, !.next = f.chunk + 1,
                           !.truncated = t]
            BY <1>0, <4>2, <4>4, <5>2, <5>4
          <6>3. f.chunk + 1 \in Nat BY <4>2
          <6>4. pend'[d] = [node |-> p.node, item |-> p.item, queued |-> FALSE, delivered |-> TRUE,
                            next |-> f.chunk + 1, truncated |-> t]
            BY <6>2, <6>3, Furthered
          <6>5. QED BY <2>1, <2>2, <2>4, <4>1, <4>2, <4>3, <4>6, <5>1, <5>2, <5>4, <6>1, <6>4 DEF Chunked
        <5>5. QED BY <5>3, <5>4
      <4>7. QED BY <4>5, <4>6
    <3>3. QED BY <3>1, <3>2
  <2>5. QED BY <2>1, <2>2, <2>3, <2>4 DEF TakeUplink
<1>7. CASE SendEnds
  <2>1. got' = got /\ outcome' = outcome BY <1>7 DEF SendEnds
  <2>2. CASE pend' = pend BY <1>1, <2>1, <2>2
  <2>3. CASE pend' = [d \in Cmds |->
                  IF d \in Meant(down.node, down.id)
                  THEN [pend[d] EXCEPT !.delivered = TRUE, !.queued = FALSE] ELSE pend[d]]
    <3>1. CASE c \notin Meant(down.node, down.id) BY <2>1, <2>3, <3>1 DEF Kept
    <3>2. CASE c \in Meant(down.node, down.id)
      <4>1. down.node \in Nodes BY <1>7, SendEndsIs DEF Sends
      <4>2. Pending(c) BY <3>2, <4>1, MeantPending
      <4>3. PICK p \in Dialogs : p = pend[c] BY <4>2, PendType
      <4>4. pend'[c] = [p EXCEPT !.delivered = TRUE, !.queued = FALSE] BY <2>3, <3>2, <4>3
      <4>5. PICK p1 \in Dialogs : p1 = [p EXCEPT !.delivered = TRUE] BY DEF Dialogs
      <4>6. PICK p2 \in Dialogs : p2 = [p1 EXCEPT !.queued = FALSE] BY DEF Dialogs
      <4>7. p1.node = p.node /\ p1.item = p.item /\ p1.delivered = TRUE /\ p1.next = p.next /\ p1.truncated = p.truncated
        BY <4>5 DEF Dialogs
      <4>8. p2 = [node |-> p1.node, item |-> p1.item, queued |-> FALSE, delivered |-> p1.delivered,
                  next |-> p1.next, truncated |-> p1.truncated]
        BY <4>6 DEF Dialogs
      <4>9. pend'[c] = p2 BY <4>4, <4>5, <4>6
      <4>10. QED BY <1>7, <2>1, <4>2, <4>3, <4>7, <4>8, <4>9 DEF Reported
    <3>3. QED BY <3>1, <3>2
  <2>4. QED BY <1>7, <2>2, <2>3 DEF SendEnds
<1>8. CASE Expire
  <2>1. got' = got BY <1>8 DEF Expire
  <2> DEFINE cs == UNION {Meant(it.node, it.id) : it \in Expired(queue)}
  <2>2. CASE Fail(cs)
    <3>1. \A d \in Cmds : d \in cs => Pending(d) BY <1>00, MeantPending DEF Expired
    <3> HIDE DEF cs
    <3>2. QED BY <2>1, <2>2, <3>1, FailMoves
  <2>3. CASE UNCHANGED <<pend, outcome>> BY <1>1, <2>1, <2>3
  <2>4. QED BY <1>8, <2>2, <2>3 DEF Expire
<1>9. CASE GwReboot
  <2> DEFINE cs == {d \in Cmds : Pending(d)}
  <2>1. Fail(cs) /\ got' = got BY <1>9 DEF GwReboot
  <2>2. \A d \in Cmds : d \in cs => Pending(d)
    OBVIOUS
  <2> HIDE DEF cs
  <2>3. QED BY <2>1, <2>2, FailMoves
<1>10. (\/ (\E n \in Nodes : ReAck(n)) \/ Serve \/ ServeDrop \/ (\E it \in queue.items : Lapse(it))
        \/ (\E n \in Nodes : Wake(n)) \/ (\E n \in Nodes : NodeReboot(n)) \/ (\E n \in Nodes : UplinkEnds(n))
        \/ (\E n \in Nodes : WindowEnds(n)) \/ (\E n \in Nodes : TakeCommand(n))
        \/ (\E n \in Nodes : SendChunk(n)) \/ (\E n \in Nodes : ChunkEnds(n)))
       => UNCHANGED <<pend, outcome, got>>
  BY DEF ReAck, Serve, ServeDrop, Lapse, Wake, NodeReboot, UplinkEnds, WindowEnds, TakeCommand, SendChunk, ChunkEnds,
         nodeOnly, hostVars
<1> QED BY <1>1, <1>2, <1>3, <1>4, <1>5, <1>6, <1>7, <1>8, <1>9, <1>10, Cases

\* A dialog that is open was open, unless it begins; its node and item stay.
LEMMA StillPending ==
  ASSUME HostShapes, GwShapes, NodeShapes, QueueInv, DialogInv, ShellNext, NEW c \in Cmds, Pending(c)'
  PROVE  \/ Begun(c)
         \/ /\ Pending(c) /\ ~Begun(c) /\ c <= issued
            /\ pend'[c].node = pend[c].node /\ pend'[c].item = pend[c].item
            /\ pend'[c].queued => pend[c].queued
            /\ Kept(c) \/ Reported(c) \/ \E m \in Nodes : Chunked(m, c) /\ ~up[m].last
<1>1. pend'[c] # NoPending BY DEF Pending
<1>2. c \in Nat /\ issued \in Nat BY SceneType DEF HostShapes
<1>3. Pending(c) => c <= issued BY <1>2 DEF DialogInv, Pending
<1>4. CASE Kept(c)
  <2>1. Pending(c) BY <1>1, <1>4 DEF Kept, Pending
  <2>2. QED BY <1>3, <1>4, <2>1 DEF Kept
<1>5. CASE Ended(c) BY <1>1, <1>5 DEF Ended
<1>6. CASE Reported(c) BY <1>3, <1>6 DEF Reported
<1>7. CASE \E m \in Nodes : Chunked(m, c)
  <2>1. PICK m \in Nodes : Chunked(m, c) BY <1>7
  <2>2. Pending(c) /\ ~up[m].last BY <1>1, <2>1 DEF Chunked
  <2>3. pend'[c].node = pend[c].node /\ pend'[c].item = pend[c].item /\ pend'[c].queued = FALSE
    BY <2>1, <2>2 DEF Chunked
  <2>4. QED BY <1>3, <2>1, <2>2, <2>3
<1> QED BY <1>4, <1>5, <1>6, <1>7, DialogMoves

\* The command a dialog begins for is the next one.
LEMMA BegunIsNext ==
  ASSUME HostShapes, NEW c \in Cmds, Begun(c)
  PROVE  c = issued + 1 /\ issued \in Nat /\ issued' = issued + 1
  BY SceneType DEF Begun, Issue, HostShapes

LEMMA DialogInvStep ==
  ASSUME HostShapes, GwShapes, NodeShapes, QueueInv, DialogInv, ShellNext
  PROVE  DialogInv'
<1>0. Cmds' = Cmds /\ issued \in Nat /\ issued' \in Nat /\ issued <= issued'
  <2>1. Cmds' = Cmds BY Cases, SceneKept
  <2>2. issued \in Nat /\ issued' \in Nat /\ issued' = IF \E n \in Nodes : Issue(n) THEN issued + 1 ELSE issued
    BY QueueMoves
  <2>3. QED BY <2>1, <2>2
<1>1. ASSUME NEW c \in Cmds
      PROVE  /\ c > issued' => pend'[c] = NoPending /\ outcome'[c] = "none" /\ got'[c] = {}
             /\ outcome'[c] # "none" => pend'[c] = NoPending
             /\ pend'[c].queued => ~pend'[c].delivered
  <2>0. c \in Nat BY SceneType
  <2>1. /\ c > issued => pend[c] = NoPending /\ outcome[c] = "none" /\ got[c] = {}
        /\ outcome[c] # "none" => pend[c] = NoPending
        /\ pend[c].queued => ~pend[c].delivered
    BY DEF DialogInv, Pending
  <2>2. Pending(c) => c <= issued BY <1>0, <2>0, <2>1 DEF Pending
  <2>3. CASE Kept(c) BY <1>0, <2>0, <2>1, <2>3 DEF Kept
  <2>4. CASE Ended(c) BY <1>0, <2>0, <2>2, <2>4 DEF Ended, NoPending
  <2>5. CASE Begun(c)
    <3>1. c = issued + 1 /\ c = issued' BY <1>0, <2>5, BegunIsNext
    <3>2. outcome'[c] = "none" BY <1>0, <2>1, <2>5, <3>1 DEF Begun
    <3>3. pend'[c].delivered = FALSE BY <2>5 DEF Begun
    <3>4. QED BY <1>0, <3>1, <3>2, <3>3
  <2>6. CASE Reported(c)
    <3>1. Pending(c) /\ outcome'[c] = outcome[c] /\ pend'[c].queued = FALSE BY <2>6 DEF Reported
    <3>2. QED BY <1>0, <2>0, <2>1, <2>2, <3>1 DEF Pending
  <2>7. CASE \E m \in Nodes : Chunked(m, c)
    <3>1. PICK m \in Nodes : Chunked(m, c) BY <2>7
    <3>2. Pending(c) BY <3>1 DEF Chunked
    <3>3. CASE pend'[c] = NoPending BY <1>0, <2>0, <2>2, <3>2, <3>3 DEF NoPending
    <3>4. CASE ~up[m].last
      <4>1. outcome'[c] = outcome[c] /\ pend'[c].queued = FALSE BY <3>1, <3>4 DEF Chunked
      <4>2. QED BY <1>0, <2>0, <2>1, <2>2, <3>2, <4>1 DEF Pending
    <3>5. QED BY <3>1, <3>3, <3>4 DEF Chunked
  <2>8. QED BY <2>3, <2>4, <2>5, <2>6, <2>7, DialogMoves
<1> QED BY <1>0, <1>1 DEF DialogInv, Pending

\* What a node's history gains.
LEMMA RanMoves ==
  ASSUME HostShapes, GwShapes, NodeShapes, ShellNext, NEW n \in Nodes, NEW c \in Range(ran'[n])
  PROVE  c \in Range(ran[n]) \/ (TakeCommand(n) /\ c = down.cmd /\ down.node = n /\ last[n].cmd # down.cmd)
<1>0. ran \in [Nodes -> Seq(Cmds)] /\ ran[n] \in Seq(Cmds) BY DEF NodeShapes
<1>1. CASE ran'[n] = ran[n] BY <1>1
<1>2. CASE NodeReboot(n)
  <2>1. ran' = [ran EXCEPT ![n] = <<>>] BY <1>2 DEF NodeReboot
  <2>2. ran'[n] = <<>> BY <1>0, <2>1
  <2>3. QED BY <2>2 DEF Range
<1>3. CASE TakeCommand(n) /\ ran' # ran
  <2>1. ran' = [ran EXCEPT ![n] = Append(ran[n], down.cmd)] /\ down.cmd \in Cmds /\ last[n].cmd # down.cmd
    BY <1>3, TakenSink
  <2>2. PICK r \in Seq(Cmds) : r = ran[n] BY <1>0
  <2>3. ran'[n] = Append(r, down.cmd) BY <1>0, <2>1, <2>2
  <2>4. DOMAIN ran'[n] = 1 .. Len(r) + 1 /\ ran'[n][Len(r) + 1] = down.cmd
        /\ DOMAIN r = 1 .. Len(r) /\ \A i \in 1 .. Len(r) : ran'[n][i] = r[i]
    BY <2>1, <2>3
  <2>5. PICK i \in DOMAIN ran'[n] : c = ran'[n][i] BY DEF Range
  <2>6. CASE i = Len(r) + 1 BY <1>3, <2>1, <2>4, <2>5, <2>6 DEF TakeCommand
  <2>7. CASE i \in 1 .. Len(r) BY <2>2, <2>4, <2>5, <2>7 DEF Range
  <2>8. QED BY <2>4, <2>5, <2>6, <2>7
<1>4. CASE NodeStep(n) /\ ~NodeReboot(n) /\ ~TakeCommand(n)
  <2>1. ran' = ran
    BY <1>4 DEF NodeStep, TakeUplink, ReAck, Wake, UplinkEnds, WindowEnds, SendChunk, ChunkEnds
  <2>2. QED BY <1>1, <2>1
<1> QED BY <1>1, <1>2, <1>3, <1>4, NodeCases, OthersKept

\* Every command in the nodes' hands was issued.
LEMMA CmdsIssued ==
  ASSUME HostShapes, GwShapes, NodeShapes, PhaseInv, SinkInv, OrderInv, NEW n \in Nodes
  PROVE  /\ issued \in Nat /\ last[n].cmd <= issued /\ sink[n].cmd <= issued /\ up[n].cmd <= issued
         /\ \A c \in Range(ran[n]) : c <= issued
<1>1. /\ Latest(n) \in Nat /\ last[n].cmd \in Nat /\ sink[n].cmd \in Nat /\ sink[n].text \in BOOLEAN
      /\ \A i \in DOMAIN ran[n] : ran[n][i] \in Nat
  BY RanType
<1>2. issued \in Nat BY SceneType DEF HostShapes
<1>3. OrderAt(n) /\ SinkAt(n) /\ PhaseAt(n) BY DEF OrderInv, SinkInv, PhaseInv
<1>4. PICK l \in Nat : l = Latest(n) BY <1>1
<1>5. l <= issued /\ last[n].cmd <= l BY <1>1, <1>3, <1>4 DEF OrderAt, Latest
<1>6. sink[n].cmd <= issued
  <2>1. CASE sink[n].text BY <1>4, <1>5, <2>1 DEF Latest
  <2>2. CASE ~sink[n].text /\ sink[n].cmd >= 1 BY <1>1, <1>2, <1>3, <1>5, <2>2 DEF SinkAt
  <2>3. QED BY <1>1, <1>2, <2>1, <2>2
<1>7. up[n].cmd <= issued
  <2>1. CASE pc[n] = "chunk" BY <1>3, <1>6, <2>1 DEF PhaseAt
  <2>2. CASE pc[n] # "chunk"
    <3>1. up[n].cmd = 0 BY <1>3, <2>2 DEF PhaseAt, NoUp
    <3>2. QED BY <1>2, <3>1
  <2>3. QED BY <2>1, <2>2
<1>8. \A c \in Range(ran[n]) : c <= issued
  <2>1. \A i \in DOMAIN ran[n] : ran[n][i] <= l BY <1>3, <1>4 DEF OrderAt
  <2>2. \A i \in DOMAIN ran[n] : ran[n][i] <= issued BY <1>1, <1>2, <1>5, <2>1
  <2>3. QED BY <2>2 DEF Range
<1> QED BY <1>1, <1>2, <1>5, <1>6, <1>7, <1>8

LEMMA HomeInvStep ==
  ASSUME HostShapes, GwShapes, NodeShapes, QueueInv, PhaseInv, SinkInv, OrderInv, DialogInv, HomeInv, ShellNext
  PROVE  HomeInv'
<1>0. Cmds' = Cmds /\ issued \in Nat BY Cases, SceneKept, SceneType DEF HostShapes
<1>1. SUFFICES ASSUME NEW c \in Cmds, Pending(c)'
               PROVE  /\ \A it \in queue'.items : it.cmd = c => it.node = pend'[c].node
                      /\ down'.cmd = c => down'.node = pend'[c].node
                      /\ \A n \in Nodes : c \in Range(ran'[n]) => n = pend'[c].node
  BY <1>0 DEF HomeInv
<1>2. c \in Nat /\ c >= 1 BY SceneType
<1>3. \A it \in queue.items : it.cmd <= issued BY DEF OrderInv, QueueOrder
<1>4. down.cmd <= issued BY DEF OrderInv, DownOrder
<1>5. CASE Begun(c)
  <2>1. c = issued + 1 BY <1>5, BegunIsNext
  <2>2. PICK n \in Nodes :
       /\ Issue(n) /\ pend'[c] = [node |-> n, item |-> FreeId(queue), queued |-> TRUE, delivered |-> FALSE,
                      next |-> 0, truncated |-> FALSE]
       /\ queue'.items = queue.items \cup
            {[id |-> FreeId(queue), node |-> n, cmd |-> c, order |-> queue.nextOrder, stale |-> FALSE]}
    BY <1>5 DEF Begun
  <2>3. pend'[c].node = n /\ \A it \in queue'.items : it.cmd = c => it.node = n BY <1>0, <1>3, <2>1, <2>2
  <2>4. down' = down /\ ran' = ran BY <2>2 DEF Issue, nodeVars
  <2>5. \A m \in Nodes : \A d \in Range(ran[m]) : d <= issued BY CmdsIssued
  <2>6. QED BY <1>0, <1>4, <2>1, <2>3, <2>4, <2>5
<1>6. CASE Pending(c) /\ c <= issued /\ pend'[c].node = pend[c].node
  <2>1. /\ \A it \in queue.items : it.cmd = c => it.node = pend[c].node
        /\ down.cmd = c => down.node = pend[c].node
        /\ \A n \in Nodes : c \in Range(ran[n]) => n = pend[c].node
    BY <1>6 DEF HomeInv
  <2>2. ASSUME NEW it \in queue'.items, it.cmd = c PROVE it.node = pend[c].node
    <3>1. CASE OldItem(it) BY <2>1, <2>2, <3>1 DEF OldItem
    <3>2. CASE NewItem(it)
      <4>1. it.cmd = issued' /\ issued' = issued + 1 BY <3>2, QueueMoves DEF NewItem
      <4>2. QED BY <1>0, <1>6, <2>2, <4>1
    <3>3. QED BY <3>1, <3>2, QueueMoves
  <2>3. ASSUME down'.cmd = c PROVE down'.node = pend[c].node
    <3>1. CASE down' = NoDown BY <1>2, <2>3, <3>1 DEF NoDown
    <3>2. CASE down'.node = down.node /\ down'.cmd = down.cmd BY <2>1, <2>3, <3>2
    <3>3. CASE \E it \in queue.items : down'.node = it.node /\ down'.cmd = it.cmd BY <2>1, <2>3, <3>3
    <3>4. QED BY <3>1, <3>2, <3>3, DownMoves
  <2>4. ASSUME NEW n \in Nodes, c \in Range(ran'[n]) PROVE n = pend[c].node BY <2>1, <2>4, RanMoves
  <2>5. QED BY <1>6, <2>2, <2>3, <2>4
<1>7. Begun(c) \/ (Pending(c) /\ c <= issued /\ pend'[c].node = pend[c].node) BY <1>1, StillPending
<1> QED BY <1>5, <1>6, <1>7

-----------------------------------------------------------------------------
(***************************************************************************)
(* Replies                                                                 *)
(***************************************************************************)

\* The frame of a command on its way up.
LEMMA ReplyFrame ==
  ASSUME HostShapes, NodeShapes, PhaseInv, SinkInv, NEW m \in Nodes, up[m].cmd >= 1
  PROVE  /\ pc[m] = "chunk" /\ up[m].cmd = sink[m].cmd /\ up[m].chunk = sink[m].chunk
         /\ up[m].text = sink[m].text /\ up[m].chunk \in Nat /\ Chunks \in Nat /\ Chunks >= 1
         /\ up[m].text \in BOOLEAN /\ up[m].last \in BOOLEAN
         /\ up[m].text => up[m].chunk <= Chunks - 1 /\ (up[m].last <=> up[m].chunk = Chunks - 1)
         /\ ~up[m].text => /\ up[m].last /\ up[m].cmd = last[m].cmd
                           /\ up[m].chunk = IF last[m].lost = 0 THEN 0 ELSE last[m].lost + 1
<1>1. PhaseAt(m) /\ SinkAt(m) /\ sink[m] \in Sinks /\ up[m] \in Ups BY DEF PhaseInv, SinkInv, NodeShapes
<1>2. pc[m] = "chunk" BY <1>1 DEF PhaseAt, NoUp
<1>3. /\ up[m].cmd = sink[m].cmd /\ up[m].chunk = sink[m].chunk
      /\ up[m].text = sink[m].text /\ up[m].last = (sink[m].chunk = sink[m].end)
  BY <1>1, <1>2 DEF PhaseAt
<1>4. up[m].chunk \in Nat /\ up[m].text \in BOOLEAN /\ up[m].last \in BOOLEAN /\ sink[m].end \in Nat
  BY <1>1 DEF Ups, Sinks
<1>5. Chunks \in Nat /\ Chunks >= 1 BY SceneType
<1>6. up[m].text => up[m].chunk <= Chunks - 1 /\ (up[m].last <=> up[m].chunk = Chunks - 1)
  BY <1>1, <1>3 DEF SinkAt
<1>7. ~up[m].text => /\ up[m].last /\ up[m].cmd = last[m].cmd
                     /\ up[m].chunk = IF last[m].lost = 0 THEN 0 ELSE last[m].lost + 1
  BY <1>1, <1>3 DEF SinkAt
<1> QED BY <1>2, <1>3, <1>4, <1>5, <1>6, <1>7

LEMMA DroppedGrows ==
  ASSUME HostShapes, ShellNext
  PROVE  /\ dropped \in Nat /\ reboots \in Nat /\ (dropped > 0 => dropped' > 0) /\ (reboots > 0 => reboots' > 0)
         /\ reboots' = 0 => \A n \in Nodes : ~NodeReboot(n)
<1>1. dropped \in Nat /\ reboots \in Nat BY DEF HostShapes
<1>2. dropped' = dropped \/ dropped' = dropped + 1
  BY Cases DEF Resync, DropRpc, DropItem, Issue, GiveUp, TakeUplink, ReAck, Serve, SendEnds, Expire, ServeDrop, GwReboot,
     Lapse, Wake, NodeReboot, UplinkEnds, WindowEnds, TakeCommand, SendChunk, ChunkEnds,
     nodeOnly, counts, Lose
<1>3. reboots' = reboots \/ reboots' = reboots + 1
  BY Cases DEF Resync, DropRpc, DropItem, Issue, GiveUp, TakeUplink, ReAck, Serve, SendEnds, Expire, ServeDrop, GwReboot,
     Lapse, Wake, NodeReboot, UplinkEnds, WindowEnds, TakeCommand, SendChunk, ChunkEnds,
     nodeOnly, counts
<1>4. \A n \in Nodes : NodeReboot(n) => reboots' = reboots + 1 BY DEF NodeReboot
<1> QED BY <1>1, <1>2, <1>3, <1>4

LEMMA PrefixInvStep ==
  ASSUME HostShapes, GwShapes, NodeShapes, QueueInv, PhaseInv, SinkInv, DialogInv, PrefixInv, ShellNext
  PROVE  PrefixInv'
<1>0. Cmds' = Cmds /\ Chunks' = Chunks /\ Chunks \in Nat /\ Chunks >= 1 BY Cases, SceneKept, SceneType
<1>1. SUFFICES ASSUME NEW c \in Cmds, Pending(c)', ~pend'[c].truncated
               PROVE  got'[c] = 0 .. pend'[c].next - 1 /\ pend'[c].next <= Chunks - 1
  BY <1>0 DEF PrefixInv
<1>2. CASE Begun(c)
  <2>1. c = issued + 1 /\ issued \in Nat BY <1>2, BegunIsNext
  <2>2. got[c] = {} BY <2>1 DEF DialogInv
  <2>3. pend'[c].next = 0 /\ got'[c] = got[c] BY <1>2 DEF Begun
  <2>4. 0 .. 0 - 1 = {}
    OBVIOUS
  <2>5. QED BY <1>0, <2>2, <2>3, <2>4
<1>3. CASE Pending(c) /\ (Kept(c) \/ Reported(c))
  <2>1. pend'[c].next = pend[c].next /\ pend'[c].truncated = pend[c].truncated /\ got'[c] = got[c]
    BY <1>3 DEF Kept, Reported
  <2>2. QED BY <1>1, <1>3, <2>1 DEF PrefixInv
<1>4. CASE Pending(c) /\ \E m \in Nodes : Chunked(m, c) /\ ~up[m].last
  <2>1. PICK m \in Nodes : Chunked(m, c) /\ ~up[m].last BY <1>4
  <2>2. up[m].cmd = c /\ c >= 1 BY <2>1, SceneType DEF Chunked
  <2>3. pend'[c].next = up[m].chunk + 1 /\ pend'[c].truncated = Truncated(pend[c], up[m])
        /\ got'[c] = IF up[m].text THEN got[c] \cup {up[m].chunk} ELSE got[c]
    BY <2>1 DEF Chunked
  <2>4. up[m].text /\ up[m].chunk \in Nat /\ up[m].chunk <= Chunks - 1 /\ up[m].chunk # Chunks - 1
    BY <2>1, <2>2, ReplyFrame
  <2>5. ~pend[c].truncated /\ up[m].chunk = pend[c].next BY <1>1, <2>3 DEF Truncated
  <2>6. got[c] = 0 .. pend[c].next - 1 BY <1>4, <2>5 DEF PrefixInv
  <2>7. PICK k \in Nat : k = up[m].chunk /\ k = pend[c].next /\ pend'[c].next = k + 1 BY <2>3, <2>4, <2>5
  <2>8. got'[c] = (0 .. k - 1) \cup {k} BY <2>3, <2>4, <2>6, <2>7
  <2>9. (0 .. k - 1) \cup {k} = 0 .. (k + 1) - 1
    OBVIOUS
  <2>10. k + 1 <= Chunks - 1 BY <1>0, <2>4, <2>7
  <2>11. QED BY <2>7, <2>8, <2>9, <2>10
<1>5. Begun(c) \/ (Pending(c) /\ (Kept(c) \/ Reported(c) \/ \E m \in Nodes : Chunked(m, c) /\ ~up[m].last))
  BY <1>1, StillPending
<1> QED BY <1>2, <1>3, <1>4, <1>5

LEMMA HonestReplyStep ==
  ASSUME HostShapes, GwShapes, NodeShapes, QueueInv, PhaseInv, SinkInv, DialogInv, ReplyInv, FollowInv, ShellNext
  PROVE  HonestReply'
<1>0. Cmds' = Cmds /\ Chunks' = Chunks /\ Chunks \in Nat /\ Chunks >= 1 BY Cases, SceneKept, SceneType
<1>1. SUFFICES ASSUME NEW c \in Cmds, outcome'[c] = "complete"
               PROVE  \/ got'[c] = 0 .. Chunks - 1
                      \/ got'[c] = {} /\ dropped' > 0
                      \/ reboots' > 0 /\ \E k \in 2 .. Chunks - 1 : got'[c] = 0 .. k - 1
  BY <1>0 DEF HonestReply
<1>2. CASE outcome[c] = "complete" /\ got'[c] = got[c]
  <2>1. \/ got[c] = 0 .. Chunks - 1
        \/ got[c] = {} /\ dropped > 0
        \/ reboots > 0 /\ \E k \in 2 .. Chunks - 1 : got[c] = 0 .. k - 1
    BY <1>2 DEF ReplyInv, HonestReply
  <2>2. QED BY <1>2, <2>1, DroppedGrows
<1>3. CASE \E m \in Nodes : Chunked(m, c)
  <2>1. PICK m \in Nodes : Chunked(m, c) BY <1>3
  <2>2. Pending(c) /\ up[m].cmd = c /\ c >= 1 BY <2>1, SceneType DEF Chunked
  <2>3. outcome[c] = "none" BY <2>2 DEF DialogInv
  <2>4. up[m].last /\ ~Truncated(pend[c], up[m])
        /\ got'[c] = IF up[m].text THEN got[c] \cup {up[m].chunk} ELSE got[c]
    BY <1>1, <2>1, <2>3 DEF Chunked
  <2>5. ~pend[c].truncated /\ up[m].chunk = pend[c].next BY <2>4 DEF Truncated
  <2>6. got[c] = 0 .. pend[c].next - 1 /\ pend[c].next <= Chunks - 1 BY <2>2, <2>5 DEF ReplyInv, PrefixInv
  <2>7. PICK k \in Nat : k = up[m].chunk /\ k = pend[c].next BY <2>2, <2>5, ReplyFrame
  <2>8. CASE up[m].text
    <3>1. k = Chunks - 1 BY <2>2, <2>4, <2>7, <2>8, ReplyFrame
    <3>2. got'[c] = (0 .. k - 1) \cup {k} BY <2>4, <2>6, <2>7, <2>8
    <3>3. (0 .. k - 1) \cup {k} = 0 .. k
      OBVIOUS
    <3>4. QED BY <3>1, <3>2, <3>3
  <2>9. CASE ~up[m].text
    <3>1. up[m].cmd = last[m].cmd /\ k = IF last[m].lost = 0 THEN 0 ELSE last[m].lost + 1
      BY <2>2, <2>7, <2>9, ReplyFrame
    <3>2. got'[c] = 0 .. k - 1 /\ k <= Chunks - 1 BY <2>4, <2>6, <2>7, <2>9
    <3>3. CASE last[m].lost = 0
      <4>1. dropped > 0 BY <2>2, <3>1, <3>3 DEF ReplyInv, EndSeenAt
      <4>2. k = 0 /\ 0 .. 0 - 1 = {} BY <3>1, <3>3
      <4>3. QED BY <3>2, <4>1, <4>2, DroppedGrows
    <3>4. CASE last[m].lost # 0
      <4>1. last[m].lost \in Nat /\ last[m].lost > 0 /\ k = last[m].lost + 1
        BY <3>1, <3>4 DEF NodeShapes, Lasts
      <4>2. CASE reboots = 0
        <5>1. FollowAt(m, c) BY <2>2, <2>5, <4>2 DEF FollowInv
        <5>2. pend[c].next <= last[m].lost BY <2>2, <3>1, <4>1, <5>1 DEF FollowAt
        <5>3. QED BY <2>7, <4>1, <5>2
      <4>3. CASE reboots # 0
        <5>1. reboots' > 0 BY <4>3, DroppedGrows
        <5>2. k \in 2 .. Chunks - 1 BY <1>0, <3>2, <4>1
        <5>3. QED BY <3>2, <5>1, <5>2
      <4>4. QED BY <4>2, <4>3
    <3>5. QED BY <3>3, <3>4
  <2>10. QED BY <2>8, <2>9
<1>4. (Kept(c) \/ Begun(c) \/ Reported(c)) => outcome[c] = "complete" /\ got'[c] = got[c]
  BY <1>1 DEF Kept, Begun, Reported
<1>5. ~Ended(c) BY <1>1 DEF Ended
<1> QED BY <1>2, <1>3, <1>4, <1>5, DialogMoves

\* The uplink at a node after a step of the node.
LEMMA UpMoves ==
  ASSUME HostShapes, GwShapes, NodeShapes, NEW n \in Nodes, NodeStep(n)
  PROVE  \/ TakeUplink(n) /\ up'[n].cmd = up[n].cmd /\ up'[n].last = up[n].last /\ up'[n].taken = TRUE
         \/ /\ ~TakeUplink(n)
            /\ \/ up'[n].cmd = up[n].cmd /\ up'[n].last = up[n].last /\ up'[n].taken = up[n].taken
               \/ up'[n].taken = FALSE
<1>0. up \in [Nodes -> Ups] /\ flag \in [Nodes -> BOOLEAN] /\ NoUp \in Ups
  BY EmptyRecords DEF NodeShapes, GwShapes
<1>1. CASE TakeUplink(n)
  <2>1. up' = [up EXCEPT ![n].taken = TRUE, ![n].flags = @ \cup {flag[n]}] BY <1>1 DEF TakeUplink
  <2>2. PICK u \in Ups : /\ up' = [up EXCEPT ![n] = u]
                         /\ u.cmd = up[n].cmd /\ u.chunk = up[n].chunk /\ u.last = up[n].last
                         /\ u.text = up[n].text /\ u.taken = TRUE
    BY <1>0, <2>1, TakenUp
  <2>3. up'[n] = u BY <1>0, <2>2
  <2>4. QED BY <1>1, <2>2, <2>3
<1>2. CASE ~TakeUplink(n) /\ ReAck(n)
  <2>1. up' = [up EXCEPT ![n].flags = @ \cup {flag[n]}] BY <1>2 DEF ReAck
  <2>2. PICK u \in Ups : /\ up' = [up EXCEPT ![n] = u]
                         /\ u.cmd = up[n].cmd /\ u.chunk = up[n].chunk /\ u.last = up[n].last
                         /\ u.text = up[n].text /\ u.taken = up[n].taken
    BY <1>0, <2>1, ReAckedUp
  <2>3. up'[n] = u BY <1>0, <2>2
  <2>4. QED BY <1>2, <2>2, <2>3
<1>3. CASE ~TakeUplink(n) /\ Wake(n)
  <2>1. up' = [up EXCEPT ![n] = [NoUp EXCEPT !.last = TRUE]] BY <1>3 DEF Wake, Uplink
  <2>2. [NoUp EXCEPT !.last = TRUE].taken = FALSE BY DEF NoUp
  <2>3. up'[n].taken = FALSE BY <1>0, <2>1, <2>2
  <2>4. QED BY <1>3, <2>3
<1>4. CASE ~TakeUplink(n) /\ SendChunk(n)
  <2>1. PICK u \in Ups : up' = [up EXCEPT ![n] = u] /\ u.taken = FALSE BY <1>4, SentUp
  <2>2. up'[n] = u BY <1>0, <2>1
  <2>3. QED BY <1>4, <2>1, <2>2
<1>5. CASE ~TakeUplink(n) /\ (NodeReboot(n) \/ UplinkEnds(n) \/ ChunkEnds(n))
  <2>1. up' = [up EXCEPT ![n] = NoUp] BY <1>5 DEF NodeReboot, UplinkEnds, ChunkEnds
  <2>2. up'[n].taken = FALSE BY <1>0, <2>1 DEF NoUp
  <2>3. QED BY <1>5, <2>2
<1>6. CASE ~TakeUplink(n) /\ (WindowEnds(n) \/ TakeCommand(n)) BY <1>6 DEF WindowEnds, TakeCommand
<1> QED BY <1>1, <1>2, <1>3, <1>4, <1>5, <1>6 DEF NodeStep

LEMMA EndSeenStep ==
  ASSUME HostShapes, GwShapes, NodeShapes, QueueInv, PhaseInv, SinkInv, OrderInv, DialogInv, ReplyInv, ShellNext,
         NEW n \in Nodes
  PROVE  EndSeenAt(n)'
<1>0. Cmds' = Cmds BY Cases, SceneKept
<1>1. SUFFICES ASSUME NEW c \in Cmds, Pending(c)'
               PROVE  /\ last'[n].cmd = c /\ last'[n].lost = 0 => dropped' > 0
                      /\ up'[n].taken /\ up'[n].last /\ up'[n].cmd = c => dropped' > 0
  BY <1>0 DEF EndSeenAt
<1>2. CASE Begun(c)
  <2>1. c = issued + 1 /\ issued \in Nat BY <1>2, BegunIsNext
  <2>2. last'[n] = last[n] /\ up'[n] = up[n] BY <1>2 DEF Begun, Issue, nodeVars
  <2>3. last[n].cmd <= issued /\ up[n].cmd <= issued BY CmdsIssued
  <2>4. QED BY <2>1, <2>2, <2>3
<1>3. CASE Pending(c)
  <2>0. c >= 1 /\ c \in Nat BY SceneType
  <2>1. /\ last[n].cmd = c /\ last[n].lost = 0 => dropped' > 0
        /\ up[n].taken /\ up[n].last /\ up[n].cmd = c => dropped' > 0
    BY <1>3, DroppedGrows DEF ReplyInv, EndSeenAt
  <2>2. CASE up'[n] = up[n] /\ last'[n] = last[n] BY <2>1, <2>2
  <2>3. CASE NodeStep(n)
    <3>0. last \in [Nodes -> Lasts] /\ PhaseAt(n) BY DEF NodeShapes, PhaseInv
    <3>1. last'[n].cmd = c /\ last'[n].lost = 0 => dropped' > 0
      <4>1. CASE NodeReboot(n)
        <5>1. last' = [last EXCEPT ![n] = NoLast] BY <4>1 DEF NodeReboot
        <5>2. last'[n].cmd = 0 BY <3>0, <5>1 DEF NoLast
        <5>3. QED BY <2>0, <5>2
      <4>2. CASE ChunkEnds(n)
        <5>1. CASE last' = last BY <2>1, <5>1
        <5>2. CASE \E r \in Lasts :
                    /\ last' = [last EXCEPT ![n] = r]
                    /\ \/ ~sink[n].text /\ r = last[n]
                       \/ /\ sink[n].text /\ r.cmd = sink[n].cmd
                          /\ \/ up[n].taken /\ up[n].last /\ r.lost = 0
                             \/ r.lost = sink[n].chunk + 1
          <6>1. PICK r \in Lasts :
                    /\ last' = [last EXCEPT ![n] = r]
                    /\ \/ ~sink[n].text /\ r = last[n]
                       \/ /\ sink[n].text /\ r.cmd = sink[n].cmd
                          /\ \/ up[n].taken /\ up[n].last /\ r.lost = 0
                             \/ r.lost = sink[n].chunk + 1
            BY <5>2
          <6>2. last'[n] = r BY <3>0, <6>1
          <6>3. pc[n] = "chunk" /\ up[n].cmd = sink[n].cmd BY <3>0, <4>2, ChunkFate DEF PhaseAt
          <6>4. sink[n].chunk \in Nat BY DEF NodeShapes, Sinks
          <6>5. QED BY <2>1, <6>1, <6>2, <6>3, <6>4
        <5>3. QED BY <4>2, <5>1, <5>2, ChunkFate
      <4>3. CASE ~NodeReboot(n) /\ ~ChunkEnds(n)
        <5>1. last' = last
          BY <2>3, <4>3 DEF NodeStep, TakeUplink, ReAck, Wake, UplinkEnds, WindowEnds, TakeCommand, SendChunk
        <5>2. QED BY <2>1, <5>1
      <4>4. QED BY <4>1, <4>2, <4>3
    <3>2. up'[n].taken /\ up'[n].last /\ up'[n].cmd = c => dropped' > 0
      <4>1. SUFFICES ASSUME up'[n].taken, up'[n].last, up'[n].cmd = c PROVE dropped' > 0
        OBVIOUS
      <4>2. CASE up'[n].cmd = up[n].cmd /\ up'[n].last = up[n].last /\ up'[n].taken = up[n].taken
        BY <2>1, <4>1, <4>2
      <4>3. CASE TakeUplink(n) /\ up'[n].cmd = up[n].cmd /\ up'[n].last = up[n].last
        <5>1. CASE Lose BY <5>1, LoseType
        <5>2. CASE OnChunk(up[n])
          <6>1. up[n].cmd = c /\ up[n].last BY <4>1, <4>3
          <6>2. pend' = [pend EXCEPT ![c] = NoPending] BY <1>3, <2>0, <5>2, <6>1 DEF OnChunk
          <6>3. pend'[c] = NoPending BY <6>2 DEF HostShapes
          <6>4. QED BY <1>1, <6>3 DEF Pending
        <5>3. QED BY <4>3, <5>1, <5>2 DEF TakeUplink
      <4>4. QED BY <2>3, <4>1, <4>2, <4>3, UpMoves
    <3>3. QED BY <3>1, <3>2
  <2>4. (up'[n] = up[n] /\ last'[n] = last[n]) \/ NodeStep(n) BY NodeCases, OthersKept
  <2>5. QED BY <2>2, <2>3, <2>4
<1>4. Begun(c) \/ Pending(c) BY <1>1, StillPending
<1> QED BY <1>2, <1>3, <1>4

\* A node that is not reset forgets nothing it ran.
LEMMA RanGrows ==
  ASSUME HostShapes, GwShapes, NodeShapes, ShellNext, NEW n \in Nodes, ~NodeReboot(n)
  PROVE  Range(ran[n]) \subseteq Range(ran'[n])
<1>0. ran \in [Nodes -> Seq(Cmds)] /\ ran[n] \in Seq(Cmds) BY DEF NodeShapes
<1>1. CASE ran'[n] = ran[n] BY <1>1
<1>2. CASE TakeCommand(n) /\ ran' # ran
  <2>1. ran' = [ran EXCEPT ![n] = Append(ran[n], down.cmd)] /\ down.cmd \in Cmds BY <1>2, TakenSink
  <2>2. PICK r \in Seq(Cmds) : r = ran[n] BY <1>0
  <2>3. ran'[n] = Append(r, down.cmd) BY <1>0, <2>1, <2>2
  <2>4. DOMAIN ran'[n] = 1 .. Len(r) + 1 /\ DOMAIN r = 1 .. Len(r) /\ Len(r) \in Nat
        /\ \A i \in 1 .. Len(r) : ran'[n][i] = r[i]
    BY <2>1, <2>3
  <2>5. QED BY <2>2, <2>4 DEF Range
<1>3. CASE NodeStep(n) /\ ~TakeCommand(n)
  <2>1. ran' = ran
    BY <1>3 DEF NodeStep, TakeUplink, ReAck, Wake, UplinkEnds, WindowEnds, SendChunk, ChunkEnds
  <2>2. QED BY <1>1, <2>1
<1> QED BY <1>1, <1>2, <1>3, NodeCases, OthersKept

\* A node's side of FollowInv, for a dialog whose next chunk stays what it was.
LEMMA FollowAtStep ==
  ASSUME HostShapes, GwShapes, NodeShapes, QueueInv, PhaseInv, SinkInv, OrderInv, HomeInv, ShellNext,
         NEW n \in Nodes, ~NodeReboot(n), NEW c \in Cmds, Pending(c), FollowAt(n, c),
         pend[c].next > 0 => c \in Range(ran[pend[c].node]), pend'[c].next = pend[c].next
  PROVE  FollowAt(n, c)'
<1>0. /\ sink \in [Nodes -> Sinks] /\ last \in [Nodes -> Lasts] /\ up \in [Nodes -> Ups]
      /\ PhaseAt(n) /\ OrderAt(n) /\ sink[n].chunk \in Nat
  BY DEF NodeShapes, PhaseInv, OrderInv, Sinks
<1>1. PICK k \in Nat : k = pend[c].next /\ k = pend'[c].next BY PendType DEF Dialogs
<1>2. /\ last[n].cmd = c /\ last[n].lost > 0 => k <= last[n].lost
      /\ sink[n].text /\ sink[n].cmd = c => k <= IF up[n].taken THEN sink[n].chunk + 1 ELSE sink[n].chunk
  BY <1>1 DEF FollowAt
<1>3. SUFFICES
        /\ last'[n].cmd = c /\ last'[n].lost > 0 => k <= last'[n].lost
        /\ sink'[n].text /\ sink'[n].cmd = c => k <= IF up'[n].taken THEN sink'[n].chunk + 1 ELSE sink'[n].chunk
  BY <1>1 DEF FollowAt
<1>4. CASE sink'[n] = sink[n] /\ last'[n] = last[n] /\ (up[n].taken => up'[n].taken) BY <1>0, <1>2, <1>4
<1>5. CASE NodeStep(n)
  <2>1. CASE TakeUplink(n) \/ ReAck(n) \/ WindowEnds(n)
    <3>1. sink' = sink /\ last' = last BY <2>1 DEF TakeUplink, ReAck, WindowEnds
    <3>2. up[n].taken => up'[n].taken
      <4>1. CASE WindowEnds(n) BY <4>1 DEF WindowEnds
      <4>2. CASE TakeUplink(n) BY <1>5, <4>2, UpMoves
      <4>3. CASE ReAck(n)
        <5>1. up' = [up EXCEPT ![n].flags = @ \cup {flag[n]}] /\ flag \in [Nodes -> BOOLEAN]
          BY <4>3 DEF ReAck, GwShapes
        <5>2. PICK u \in Ups : up' = [up EXCEPT ![n] = u] /\ u.taken = up[n].taken BY <5>1, ReAckedUp
        <5>3. QED BY <1>0, <5>2
      <4>4. QED BY <2>1, <4>1, <4>2, <4>3
    <3>3. QED BY <1>4, <3>1, <3>2
  <2>2. CASE Wake(n) \/ UplinkEnds(n)
    <3>1. sink' = sink /\ last' = last /\ pc[n] \in {"asleep", "uplink"} BY <2>2 DEF Wake, UplinkEnds
    <3>2. sink[n].text = FALSE BY <1>0, <3>1 DEF PhaseAt, NoSink
    <3>3. QED BY <1>2, <3>1, <3>2
  <2>3. CASE TakeCommand(n)
    <3>1. last' = last /\ up' = up /\ pc[n] = "window" BY <2>3 DEF TakeCommand
    <3>2. PICK s \in Sinks :
          /\ sink' = [sink EXCEPT ![n] = s] /\ s.cmd = down.cmd
          /\ \/ /\ last[n].cmd = down.cmd /\ s.text = FALSE /\ s.chunk = s.end /\ ran' = ran
                /\ s.chunk = IF last[n].lost = 0 THEN 0 ELSE last[n].lost + 1
             \/ /\ last[n].cmd # down.cmd /\ s.text = TRUE /\ s.chunk = 0 /\ s.end = Chunks - 1
                /\ ran' = [ran EXCEPT ![n] = Append(ran[n], down.cmd)]
      BY <2>3, TakenSink
    <3>3. sink'[n] = s BY <1>0, <3>2
    <3>4. up[n].taken = FALSE /\ sink[n].text = FALSE BY <1>0, <3>1 DEF PhaseAt, NoUp, NoSink
    <3>5. ASSUME s.text, s.cmd = c PROVE k <= 0
      <4>1. SUFFICES ASSUME k > 0 PROVE FALSE BY <1>1
      <4>2. down.cmd = c /\ down.node = n /\ last[n].cmd # c BY <2>3, <3>2, <3>5 DEF TakeCommand
      <4>3. pend[c].node = n BY <4>2 DEF HomeInv
      <4>4. c \in Range(ran[n]) BY <1>1, <4>1, <4>3
      <4>5. Latest(n) = last[n].cmd /\ last[n].cmd \in Nat /\ c \in Nat
        BY <3>4, RanType, SceneType DEF Latest
      <4>6. c <= last[n].cmd BY <1>0, <4>4, <4>5 DEF OrderAt, Range
      <4>7. last[n].cmd <= c BY <1>0, <4>2, <4>5 DEF OrderAt
      <4>8. QED BY <4>2, <4>5, <4>6, <4>7
    <3>6. s.text => s.chunk = 0 BY <3>2
    <3>7. QED BY <1>2, <3>1, <3>3, <3>4, <3>5, <3>6
  <2>4. CASE SendChunk(n)
    <3>1. sink' = sink /\ last' = last /\ pc[n] = "reply" BY <2>4 DEF SendChunk
    <3>2. up[n].taken = FALSE BY <1>0, <3>1 DEF PhaseAt, NoUp
    <3>3. QED BY <1>4, <3>1, <3>2
  <2>5. CASE ChunkEnds(n)
    <3>1. up'[n].taken = FALSE
      <4>1. up' = [up EXCEPT ![n] = NoUp] BY <2>5, ChunkFate
      <4>2. QED BY <1>0, <4>1 DEF NoUp
    <3>2. CASE /\ up[n].taken /\ last' = last
               /\ \E s \in Sinks :
                    /\ sink' = [sink EXCEPT ![n] = s] /\ s.cmd = sink[n].cmd
                    /\ s.chunk = sink[n].chunk + 1 /\ s.end = sink[n].end /\ s.text = sink[n].text
      <4>1. sink'[n].cmd = sink[n].cmd /\ sink'[n].chunk = sink[n].chunk + 1 /\ sink'[n].text = sink[n].text
        BY <1>0, <3>2
      <4>2. QED BY <1>2, <3>1, <3>2, <4>1
    <3>3. CASE /\ sink' = [sink EXCEPT ![n] = NoSink]
               /\ \E r \in Lasts :
                    /\ last' = [last EXCEPT ![n] = r]
                    /\ \/ ~sink[n].text /\ r = last[n]
                       \/ /\ sink[n].text /\ r.cmd = sink[n].cmd
                          /\ \/ up[n].taken /\ up[n].last /\ r.lost = 0
                             \/ r.lost = sink[n].chunk + 1
      <4>1. PICK r \in Lasts :
                    /\ last' = [last EXCEPT ![n] = r]
                    /\ \/ ~sink[n].text /\ r = last[n]
                       \/ /\ sink[n].text /\ r.cmd = sink[n].cmd
                          /\ \/ up[n].taken /\ up[n].last /\ r.lost = 0
                             \/ r.lost = sink[n].chunk + 1
        BY <3>3
      <4>2. last'[n] = r /\ sink'[n].text = FALSE BY <1>0, <3>3, <4>1 DEF NoSink
      <4>3. r.cmd = c /\ r.lost > 0 => k <= r.lost BY <1>0, <1>1, <1>2, <4>1
      <4>4. QED BY <4>2, <4>3
    <3>4. QED BY <2>5, <3>2, <3>3, ChunkFate
  <2>6. QED BY <1>5, <2>1, <2>2, <2>3, <2>4, <2>5 DEF NodeStep
<1>6. (sink'[n] = sink[n] /\ last'[n] = last[n] /\ up'[n] = up[n]) \/ NodeStep(n) BY NodeCases, OthersKept
<1> QED BY <1>4, <1>5, <1>6

LEMMA FollowInvStep ==
  ASSUME HostShapes, GwShapes, NodeShapes, QueueInv, PhaseInv, SinkInv, OrderInv, DialogInv, HomeInv,
         FollowInv, ShellNext
  PROVE  FollowInv'
<1>0. Cmds' = Cmds BY Cases, SceneKept
<1>1. SUFFICES ASSUME reboots' = 0, NEW c \in Cmds, Pending(c)'
               PROVE  /\ pend'[c].next > 0 => c \in Range(ran'[pend'[c].node])
                      /\ ~pend'[c].truncated => \A n \in Nodes : FollowAt(n, c)'
  BY <1>0 DEF FollowInv
<1>2. reboots = 0 /\ \A n \in Nodes : ~NodeReboot(n) BY <1>1, DroppedGrows
<1>3. c \in Nat /\ c >= 1 BY SceneType
<1>4. CASE Begun(c)
  <2>1. c = issued + 1 /\ issued \in Nat BY <1>4, BegunIsNext
  <2>2. pend'[c].next = 0 BY <1>4 DEF Begun
  <2>3. UNCHANGED <<sink, last>> BY <1>4 DEF Begun, Issue, nodeVars
  <2>4. ASSUME NEW n \in Nodes PROVE FollowAt(n, c)'
    <3>1. last[n].cmd <= issued /\ sink[n].cmd <= issued BY CmdsIssued
    <3>2. last'[n].cmd # c /\ sink'[n].cmd # c BY <2>1, <2>3, <3>1
    <3>3. QED BY <3>2 DEF FollowAt
  <2>5. QED BY <2>2, <2>4
<1>5. CASE Pending(c) /\ (Kept(c) \/ Reported(c))
  <2>1. pend'[c].next = pend[c].next /\ pend'[c].truncated = pend[c].truncated /\ pend'[c].node = pend[c].node
    BY <1>5 DEF Kept, Reported
  <2>2. /\ pend[c].next > 0 => c \in Range(ran[pend[c].node])
        /\ ~pend[c].truncated => \A n \in Nodes : FollowAt(n, c)
    BY <1>2, <1>5 DEF FollowInv
  <2>3. pend[c].node \in Nodes BY <1>5, PendType DEF Dialogs
  <2>4. Range(ran[pend[c].node]) \subseteq Range(ran'[pend[c].node]) BY <1>2, <2>3, RanGrows
  <2>5. ASSUME ~pend[c].truncated, NEW n \in Nodes PROVE FollowAt(n, c)'
    BY <1>2, <1>5, <2>1, <2>2, <2>5, FollowAtStep
  <2>6. QED BY <2>1, <2>2, <2>4, <2>5
<1>6. CASE Pending(c) /\ \E m \in Nodes : Chunked(m, c) /\ ~up[m].last
  <2>1. PICK m \in Nodes : Chunked(m, c) /\ ~up[m].last BY <1>6
  <2>2. TakeUplink(m) /\ up[m].cmd = c BY <2>1 DEF Chunked
  <2>3. pend'[c].next = up[m].chunk + 1 /\ pend'[c].node = pend[c].node BY <2>1 DEF Chunked
  <2>4. up[m].text /\ sink[m].text /\ sink[m].cmd = c /\ up[m].chunk = sink[m].chunk
    BY <1>3, <2>1, <2>2, ReplyFrame
  <2>5. UNCHANGED <<sink, last, ran>> BY <2>2 DEF TakeUplink
  <2>6. ASSUME NEW n \in Nodes, c \in Range(ran[n]) PROVE n = pend[c].node BY <1>6, <2>6 DEF HomeInv
  <2>7. ASSUME NEW n \in Nodes
        PROVE  /\ sink[n].text /\ sink[n].cmd = c => c \in Range(ran[n]) /\ last[n].cmd < c
               /\ last[n].cmd = c => c \in Range(ran[n])
    BY <1>3 DEF OrderInv, OrderAt, Latest
  <2>8. c \in Range(ran[m]) /\ pend[c].node = m BY <2>4, <2>6, <2>7
  <2>9. ASSUME NEW n \in Nodes PROVE FollowAt(n, c)'
    <3>1. last[n].cmd # c
      <4>1. SUFFICES ASSUME last[n].cmd = c PROVE FALSE
        OBVIOUS
      <4>2. n = m BY <2>6, <2>7, <2>8, <4>1
      <4>3. last[n].cmd < c BY <2>4, <2>7, <4>2
      <4>4. QED BY <1>3, <4>1, <4>3
    <3>2. ASSUME sink[n].text, sink[n].cmd = c
          PROVE  n = m /\ up'[n].taken = TRUE
      <4>1. n = m BY <2>6, <2>7, <2>8, <3>2
      <4>2. NodeStep(m) BY <2>2 DEF NodeStep
      <4>3. up'[m].taken = TRUE BY <2>2, <4>2, UpMoves
      <4>4. QED BY <4>1, <4>3
    <3>3. sink[m].chunk + 1 <= sink[m].chunk + 1 BY DEF NodeShapes, Sinks
    <3>4. QED BY <2>3, <2>4, <2>5, <3>1, <3>2, <3>3 DEF FollowAt
  <2>10. QED BY <2>3, <2>5, <2>8, <2>9
<1>7. Begun(c) \/ (Pending(c) /\ (Kept(c) \/ Reported(c) \/ \E m \in Nodes : Chunked(m, c) /\ ~up[m].last))
  BY <1>1, StillPending
<1> QED BY <1>4, <1>5, <1>6, <1>7

-----------------------------------------------------------------------------
(***************************************************************************)
(* The host's mirror of the queue                                          *)
(***************************************************************************)

LEMMA RebootEnds ==
  ASSUME HostShapes, GwReboot, NEW c \in Cmds
  PROVE  pend'[c] = NoPending
<1>1. pend' = [d \in Cmds |-> IF d \in {e \in Cmds : Pending(e)} THEN NoPending ELSE pend[d]]
  BY DEF GwReboot, Fail
<1> QED BY <1>1 DEF Pending

LEMMA IdInvStep ==
  ASSUME HostShapes, GwShapes, NodeShapes, QueueInv, DialogInv, IdInv, ShellNext
  PROVE  IdInv'
<1>0. Cmds' = Cmds BY Cases, SceneKept
<1>1. /\ issued \in Nat /\ issued' \in Nat /\ issued' = IF \E n \in Nodes : Issue(n) THEN issued + 1 ELSE issued
      /\ queue.nextOrder \in Nat
      /\ \/ queue'.nextOrder = queue.nextOrder /\ queue'.nextId = queue.nextId
         \/ GwReboot /\ queue'.nextOrder = 0 /\ queue'.nextId = 1 /\ queue'.items = {}
         \/ queue'.nextOrder = queue.nextOrder + 1 /\ issued' = issued + 1
            /\ (\E n \in Nodes : Issue(n) /\ HasRoom(queue, n)) /\ queue'.nextId = After(FreeId(queue))
      /\ \A it \in queue'.items : OldItem(it) \/ NewItem(it)
  BY QueueMoves
<1>2. SUFFICES ASSUME issued' < MaxId
               PROVE  /\ queue'.nextId <= issued' + 1
                      /\ \A it \in queue'.items : it.id < queue'.nextId
                      /\ \A c \in Cmds : pend'[c].item < queue'.nextId
  BY <1>0 DEF IdInv
<1>3. MaxId \in Nat /\ queue \in Queues /\ IsFiniteSet(queue.items) /\ queue.nextId \in 1 .. MaxId
  BY QueueAssumption DEF GwShapes, Queues
<1>4. /\ queue.nextId <= issued + 1
      /\ \A it \in queue.items : it.id < queue.nextId
      /\ \A c \in Cmds : pend[c].item < queue.nextId
  BY <1>1, <1>2, <1>3 DEF IdInv
<1>5. \A it \in queue.items : it.id \in Nat
  <2>1. \A it \in queue.items : it \in Items BY <1>3 DEF Queues
  <2>2. QED BY <2>1, <1>3 DEF Items
<1>6. \A c \in Cmds : pend[c].item \in Nat BY <1>3, PendType DEF NoPending, Dialogs
<1>7. \A c \in Cmds : pend'[c] = NoPending \/ Begun(c) \/ (pend'[c].item = pend[c].item)
  <2>1. TAKE c \in Cmds
  <2>2. CASE Pending(c)' BY <2>2, StillPending
  <2>3. CASE ~Pending(c)' BY <2>3 DEF Pending
  <2>4. QED BY <2>2, <2>3
<1>8. CASE GwReboot /\ queue'.nextId = 1 /\ queue'.items = {} BY <1>1, <1>8, RebootEnds DEF NoPending
<1>9. CASE queue'.nextOrder = queue.nextOrder /\ queue'.nextId = queue.nextId
  <2>1. \A it \in queue'.items : OldItem(it) BY <1>1, <1>9 DEF NewItem
  <2>2. \A c \in Cmds : ~Begun(c)
    <3>1. SUFFICES ASSUME NEW n \in Nodes, Issue(n), HasRoom(queue, n) PROVE FALSE BY DEF Begun
    <3>2. queue' = Push(queue, n, issued') BY <3>1 DEF Issue
    <3>3. queue'.nextOrder = queue.nextOrder + 1 BY <3>2 DEF Push
    <3>4. QED BY <1>1, <1>9, <3>3
  <2>3. \A c \in Cmds : pend'[c].item < queue.nextId BY <1>3, <1>4, <1>7, <2>2 DEF NoPending
  <2>4. \A it \in queue'.items : it.id < queue.nextId BY <1>4, <2>1 DEF OldItem
  <2>5. QED BY <1>1, <1>3, <1>4, <1>9, <2>3, <2>4
<1>10. CASE /\ queue'.nextOrder = queue.nextOrder + 1 /\ issued' = issued + 1
            /\ (\E n \in Nodes : Issue(n) /\ HasRoom(queue, n)) /\ queue'.nextId = After(FreeId(queue))
  <2>1. FreeId(queue) = queue.nextId
    <3>1. queue.nextId \notin Held(queue) BY <1>3, <1>4, <1>5 DEF Held
    <3>2. QED BY <1>3, <1>10, <3>1, FreeIdIsFree DEF HasRoom
  <2>2. queue'.nextId = queue.nextId + 1 BY <1>1, <1>2, <1>3, <1>4, <1>10, <2>1 DEF After
  <2>3. \A it \in queue'.items : it.id <= queue.nextId
    <3>1. \A it \in queue'.items : OldItem(it) => it.id <= queue.nextId BY <1>3, <1>4, <1>5 DEF OldItem
    <3>2. \A it \in queue'.items : NewItem(it) => it.id <= queue.nextId BY <1>3, <2>1 DEF NewItem
    <3>3. QED BY <1>1, <3>1, <3>2
  <2>4. \A it \in queue'.items : it.id \in Nat
    <3>1. \A it \in queue'.items : OldItem(it) => it.id \in Nat BY <1>5 DEF OldItem
    <3>2. \A it \in queue'.items : NewItem(it) => it.id \in Nat BY <1>3, <2>1 DEF NewItem
    <3>3. QED BY <1>1, <3>1, <3>2
  <2>5. \A c \in Cmds : pend'[c].item \in Nat /\ pend'[c].item <= queue.nextId
    <3>1. TAKE c \in Cmds
    <3>2. CASE pend'[c] = NoPending BY <1>3, <3>2 DEF NoPending
    <3>3. CASE Begun(c) BY <1>3, <2>1, <3>3 DEF Begun
    <3>4. CASE pend'[c].item = pend[c].item BY <1>3, <1>4, <1>6, <3>4
    <3>5. QED BY <1>7, <3>2, <3>3, <3>4
  <2>6. QED BY <1>1, <1>3, <1>4, <1>10, <2>2, <2>3, <2>4, <2>5
<1> QED BY <1>1, <1>8, <1>9, <1>10

\* An item goes only when it is asked for, delivered, expired, or the gateway is reset.
LEMMA ItemStays ==
  ASSUME HostShapes, GwShapes, NodeShapes, QueueInv, ShellNext, NEW it \in queue.items
  PROVE  \/ \E o \in queue'.items : o.id = it.id /\ o.node = it.node /\ o.cmd = it.cmd
         \/ /\ ServeDrop /\ it.node = Head(reqs).node
            /\ Head(reqs).id = 0 \/ it.id = Head(reqs).id
         \/ SendEnds /\ queue' # queue /\ it.id = down.id /\ it.node = down.node
         \/ Expire /\ it.stale
         \/ GwReboot
<1>1. queue \in Queues /\ IsFiniteSet(queue.items) /\ reqs \in Seq(Drops) BY DEF GwShapes, Queues
<1>2. CASE it \in queue'.items BY <1>2
<1>3. CASE \E n \in Nodes : Issue(n)
  <2>1. PICK n \in Nodes : Issue(n) BY <1>3
  <2>2. CASE queue' = queue BY <1>2, <2>2
  <2>3. CASE queue' = Push(queue, n, issued')
    <3>1. it \in queue'.items BY <2>3 DEF Push
    <3>2. QED BY <1>2, <3>1
  <2>4. QED BY <2>1, <2>2, <2>3 DEF Issue
<1>4. CASE SendEnds BY <1>2, <1>4, SendEndsIs
<1>5. CASE Expire BY <1>2, <1>5, ExpireIs
<1>6. CASE ServeDrop
  <2>1. Head(reqs) \in Drops BY <1>1, <1>6 DEF ServeDrop
  <2>2. CASE queue' = queue BY <1>2, <2>2
  <2>3. CASE queue' = Dropped(queue, Head(reqs))
    <3>1. \A i \in queue.items \ queue'.items :
            i.node = Head(reqs).node /\ (Head(reqs).id = 0 \/ i.id = Head(reqs).id)
      BY <1>1, <2>1, <2>3, DroppedIs DEF QueueInv, UniqueIds
    <3>2. QED BY <1>2, <1>6, <3>1
  <2>4. QED BY <1>6, <2>2, <2>3 DEF ServeDrop
<1>7. CASE \E i \in queue.items : Lapse(i)
  <2>1. PICK i \in queue.items : Lapse(i) BY <1>7
  <2>2. PICK old : old = [i EXCEPT !.stale = TRUE]
    OBVIOUS
  <2>3. /\ old.id = i.id /\ old.node = i.node /\ old.cmd = i.cmd
        /\ queue'.items = (queue.items \ {i}) \cup {old}
    BY <1>1, <2>1, <2>2, AgeIs DEF Lapse
  <2>4. CASE it = i BY <2>3, <2>4
  <2>5. CASE it # i BY <1>2, <2>3, <2>5
  <2>6. QED BY <2>4, <2>5
<1>8. (\/ Resync \/ DropRpc \/ (\E c \in Cmds : GiveUp(c)) \/ (\E n \in Nodes : TakeUplink(n))
       \/ (\E n \in Nodes : ReAck(n)) \/ Serve
       \/ (\E n \in Nodes : Wake(n)) \/ (\E n \in Nodes : NodeReboot(n))
       \/ (\E n \in Nodes : UplinkEnds(n)) \/ (\E n \in Nodes : WindowEnds(n))
       \/ (\E n \in Nodes : TakeCommand(n)) \/ (\E n \in Nodes : SendChunk(n))
       \/ (\E n \in Nodes : ChunkEnds(n)))
      => queue' = queue
  BY DEF Resync, DropRpc, DropItem, GiveUp, TakeUplink, ReAck, Serve, Wake, NodeReboot, UplinkEnds,
     WindowEnds, TakeCommand, SendChunk, ChunkEnds, nodeOnly, gwVars
<1> QED BY <1>2, <1>3, <1>4, <1>5, <1>6, <1>7, <1>8, Cases

\* A request of the next state: one of this state's, a user's, or the one a reply
\* calls for.
OldReq(r) == \E j \in DOMAIN reqs : r = reqs[j]

UserReq(r) ==
  \E it \in queue.items : \E id \in {0, it.id} :
    DropItem(it.node, id) /\ r = [node |-> it.node, id |-> id]

ReplyReq(r) ==
  \E d \in Cmds : /\ Pending(d) /\ pend'[d].queued = FALSE
                  /\ r = [node |-> pend[d].node, id |-> pend[d].item]

LEMMA ReqMoves ==
  ASSUME HostShapes, GwShapes, NodeShapes, QueueInv, ShellNext, ~Resync
  PROVE  \A i \in DOMAIN reqs' : OldReq(reqs'[i]) \/ UserReq(reqs'[i]) \/ ReplyReq(reqs'[i])
<1>0. reqs \in Seq(Drops) /\ pend \in [Cmds -> {NoPending} \cup Dialogs] BY DEF GwShapes, HostShapes
<1>1. CASE reqs' = reqs BY <1>1 DEF OldReq
<1>2. ASSUME NEW r, r \in Drops, reqs' = Append(reqs, r), UserReq(r) \/ ReplyReq(r)
      PROVE  \A i \in DOMAIN reqs' : OldReq(reqs'[i]) \/ UserReq(reqs'[i]) \/ ReplyReq(reqs'[i])
  <2>1. TAKE i \in DOMAIN reqs'
  <2>2. reqs'[i] = r \/ (i \in DOMAIN reqs /\ reqs'[i] = reqs[i]) BY <1>0, <1>2
  <2>3. QED BY <1>2, <2>2 DEF OldReq
<1>3. CASE reqs # <<>> /\ reqs' = Tail(reqs)
  <2>1. TAKE i \in DOMAIN reqs'
  <2>2. i + 1 \in DOMAIN reqs /\ reqs'[i] = reqs[i + 1] BY <1>0, <1>3
  <2>3. QED BY <2>2 DEF OldReq
<1>4. CASE DropRpc
  <2>1. PICK it \in queue.items : \E id \in {0, it.id} : DropItem(it.node, id) BY <1>4 DEF DropRpc
  <2>2. PICK id \in {0, it.id} : DropItem(it.node, id) BY <2>1
  <2>3. PICK r : r = [node |-> it.node, id |-> id]
    OBVIOUS
  <2>4. it \in Items BY DEF GwShapes
  <2>5. r \in Drops BY <2>2, <2>3, <2>4, QueueAssumption DEF Items, Drops
  <2>6. UserReq(r) BY <2>2, <2>3 DEF UserReq
  <2>7. reqs' = Append(reqs, r) BY <2>2, <2>3 DEF DropItem
  <2>8. QED BY <1>2, <2>5, <2>6, <2>7
<1>5. CASE \E m \in Nodes : TakeUplink(m)
  <2>1. PICK m \in Nodes : TakeUplink(m) BY <1>5
  <2>2. PICK f \in Ups : f = up[m] BY DEF NodeShapes
  <2>3. CASE OnChunk(f) /\ ~(f.cmd = 0 \/ ~Pending(f.cmd))
    <3>1. PICK d : d = f.cmd
      OBVIOUS
    <3>2. d \in Cmds /\ f.chunk \in Nat /\ Pending(d) /\ f.last \in BOOLEAN BY <2>3, <3>1, SceneType DEF Ups
    <3>3. PICK p \in Dialogs : p = pend[d] BY <3>2, PendType
    <3>4. /\ reqs' = IF p.queued THEN Append(reqs, [node |-> p.node, id |-> p.item]) ELSE reqs
          /\ pend' = [pend EXCEPT ![d] = IF f.last THEN NoPending ELSE
               [p EXCEPT !.queued = FALSE, !.delivered = TRUE, !.next = f.chunk + 1,
                         !.truncated = Truncated(p, f)]]
      BY <2>3, <3>1, <3>3 DEF OnChunk
    <3>5. CASE ~p.queued BY <1>1, <3>4, <3>5
    <3>6. CASE p.queued
      <4>1. PICK r : r = [node |-> p.node, id |-> p.item]
        OBVIOUS
      <4>2. r \in Drops BY <4>1, QueueAssumption DEF Dialogs, Drops
      <4>3. pend'[d].queued = FALSE
        <5>1. PICK t \in BOOLEAN : t = Truncated(p, f)
          <6>1. p.truncated \in BOOLEAN BY DEF Dialogs
          <6>2. QED BY <6>1, Zenon DEF Truncated
        <5>2. CASE f.last
          <6>1. pend'[d] = NoPending BY <1>0, <3>2, <3>4, <5>2
          <6>2. QED BY <6>1 DEF NoPending
        <5>3. CASE ~f.last
          <6>1. pend'[d] = [p EXCEPT !.queued = FALSE, !.delivered = TRUE, !.next = f.chunk + 1,
                                     !.truncated = t]
            BY <1>0, <3>2, <3>4, <5>1, <5>3
          <6>2. f.chunk + 1 \in Nat BY <3>2
          <6>3. pend'[d] = [node |-> p.node, item |-> p.item, queued |-> FALSE, delivered |-> TRUE,
                            next |-> f.chunk + 1, truncated |-> t]
            BY <6>1, <6>2, Furthered
          <6>4. QED BY <6>3
        <5>4. QED BY <5>2, <5>3
      <4>4. ReplyReq(r) BY <3>2, <3>3, <4>1, <4>3 DEF ReplyReq
      <4>5. QED BY <1>2, <3>4, <3>6, <4>1, <4>2, <4>4
    <3>7. QED BY <3>5, <3>6
  <2>4. CASE OnChunk(f) /\ (f.cmd = 0 \/ ~Pending(f.cmd)) BY <1>1, <2>4 DEF OnChunk
  <2>5. QED BY <1>1, <2>1, <2>2, <2>3, <2>4 DEF TakeUplink
<1>6. (\/ (\E n \in Nodes : Issue(n)) \/ (\E c \in Cmds : GiveUp(c))
       \/ (\E n \in Nodes : ReAck(n)) \/ Serve \/ SendEnds \/ Expire \/ (\E it \in queue.items : Lapse(it))
       \/ (\E n \in Nodes : Wake(n)) \/ (\E n \in Nodes : NodeReboot(n))
       \/ (\E n \in Nodes : UplinkEnds(n)) \/ (\E n \in Nodes : WindowEnds(n))
       \/ (\E n \in Nodes : TakeCommand(n)) \/ (\E n \in Nodes : SendChunk(n))
       \/ (\E n \in Nodes : ChunkEnds(n)))
      => reqs' = reqs
  BY DEF Issue, GiveUp, ReAck, Serve, SendEnds, Expire, Lapse, Wake, NodeReboot, UplinkEnds,
     WindowEnds, TakeCommand, SendChunk, ChunkEnds, nodeOnly, gwVars
<1>7. ServeDrop => reqs # <<>> /\ reqs' = Tail(reqs) BY DEF ServeDrop
<1>8. GwReboot => reqs' = reqs \/ (reqs # <<>> /\ reqs' = Tail(reqs)) BY DEF GwReboot
<1> QED BY <1>1, <1>3, <1>4, <1>5, <1>6, <1>7, <1>8, Cases

\* The parts of the mirror, one lemma each, while nothing was lost and no id came
\* back.  A pending command's item means it alone:
LEMMA PendDistinctStep ==
  ASSUME HostShapes, GwShapes, NodeShapes, QueueInv, DialogInv, IdInv, MirrorInv, ShellNext,
         dropped = 0, issued' <= MaxId,
         NEW b \in Cmds, NEW c \in Cmds, Pending(b)', Pending(c)', pend'[b].item = pend'[c].item
  PROVE  b = c
<1>1. /\ issued \in Nat /\ issued' \in Nat /\ issued' = IF \E n \in Nodes : Issue(n) THEN issued + 1 ELSE issued
  BY QueueMoves
<1>2. MaxId \in Nat /\ queue \in Queues /\ IsFiniteSet(queue.items) /\ queue.nextId \in 1 .. MaxId
  BY QueueAssumption DEF GwShapes, Queues
<1>3. issued <= MaxId BY <1>1, <1>2
<1>4. \A d \in Cmds : pend[d].item \in Nat BY <1>2, PendType DEF NoPending, Dialogs
<1>5. ASSUME NEW d \in Cmds, Begun(d), NEW e \in Cmds, Pending(e), pend'[e].item = pend[e].item,
             pend'[d].item = pend'[e].item
      PROVE  FALSE
  <2>1. issued < MaxId BY <1>1, <1>2, <1>5, BegunIsNext
  <2>2. /\ \A it \in queue.items : it.id < queue.nextId
        /\ \A x \in Cmds : pend[x].item < queue.nextId
    BY <2>1 DEF IdInv
  <2>3. \A it \in queue.items : it.id \in Nat
    <3>1. \A it \in queue.items : it \in Items BY <1>2 DEF Queues
    <3>2. QED BY <3>1, <1>2 DEF Items
  <2>4. queue.nextId \notin Held(queue) BY <1>2, <2>2, <2>3 DEF Held
  <2>5. \E n \in Nodes : HasRoom(queue, n) BY <1>5 DEF Begun
  <2>6. FreeId(queue) = queue.nextId BY <1>2, <2>4, <2>5, FreeIdIsFree DEF HasRoom
  <2>7. pend'[d].item = queue.nextId BY <1>5, <2>6 DEF Begun
  <2>8. PICK k : k = pend[e].item
    OBVIOUS
  <2>9. k \in Nat /\ k < queue.nextId /\ k = queue.nextId BY <1>4, <1>5, <2>2, <2>7, <2>8
  <2>10. QED BY <1>2, <2>9
<1>6. Begun(b) \/ (Pending(b) /\ pend'[b].item = pend[b].item) BY StillPending
<1>7. Begun(c) \/ (Pending(c) /\ pend'[c].item = pend[c].item) BY StillPending
<1>8. CASE Begun(b) /\ Begun(c) BY <1>8, BegunIsNext
<1>9. CASE Pending(b) /\ Pending(c) /\ pend'[b].item = pend[b].item /\ pend'[c].item = pend[c].item
  BY <1>3, <1>9 DEF MirrorInv
<1> QED BY <1>5, <1>6, <1>7, <1>8, <1>9

\* a queued command has its item,
LEMMA MirroredStep ==
  ASSUME HostShapes, GwShapes, NodeShapes, QueueInv, DialogInv, IdInv, MirrorInv, ShellNext,
         dropped = 0, dropped' = 0, issued <= MaxId,
         NEW c \in Cmds, Pending(c)', pend'[c].queued
  PROVE  \E it \in queue'.items : it.id = pend'[c].item /\ it.node = pend'[c].node /\ it.cmd = c
<1>1. CASE Begun(c)
  <2>1. PICK n \in Nodes :
          /\ pend'[c] = [node |-> n, item |-> FreeId(queue), queued |-> TRUE, delivered |-> FALSE,
                      next |-> 0, truncated |-> FALSE]
          /\ queue'.items = queue.items \cup
            {[id |-> FreeId(queue), node |-> n, cmd |-> c, order |-> queue.nextOrder, stale |-> FALSE]}
    BY <1>1 DEF Begun
  <2>2. PICK it : it = [id |-> FreeId(queue), node |-> n, cmd |-> c, order |-> queue.nextOrder, stale |-> FALSE]
    OBVIOUS
  <2>3. it \in queue'.items BY <2>1, <2>2
  <2>4. it.id = pend'[c].item /\ it.node = pend'[c].node /\ it.cmd = c
    <3>1. pend'[c].item = FreeId(queue) /\ pend'[c].node = n BY <2>1
    <3>2. it.id = FreeId(queue) /\ it.node = n /\ it.cmd = c BY <2>2
    <3>3. QED BY <3>1, <3>2
  <2>5. QED BY <2>3, <2>4
<1>2. CASE ~Begun(c)
  <2>1. /\ Pending(c) /\ pend'[c].node = pend[c].node /\ pend'[c].item = pend[c].item
        /\ pend[c].queued /\ Kept(c)
    <3>1. /\ Pending(c) /\ pend'[c].node = pend[c].node /\ pend'[c].item = pend[c].item
          /\ pend'[c].queued => pend[c].queued
          /\ Kept(c) \/ Reported(c) \/ \E m \in Nodes : Chunked(m, c) /\ ~up[m].last
      BY <1>2, StillPending
    <3>2. ~Reported(c) BY DEF Reported
    <3>3. \A m \in Nodes : ~(Chunked(m, c) /\ ~up[m].last) BY DEF Chunked
    <3>4. QED BY <3>1, <3>2, <3>3
  <2>2. PICK it \in queue.items : it.id = pend[c].item /\ it.node = pend[c].node /\ it.cmd = c
    BY <2>1 DEF MirrorInv
  <2>3. \/ \E o \in queue'.items : o.id = it.id /\ o.node = it.node /\ o.cmd = it.cmd
        \/ /\ ServeDrop /\ it.node = Head(reqs).node
           /\ Head(reqs).id = 0 \/ it.id = Head(reqs).id
        \/ SendEnds /\ queue' # queue /\ it.id = down.id /\ it.node = down.node
        \/ Expire /\ it.stale
        \/ GwReboot
    BY ItemStays
  <2>4. CASE \E o \in queue'.items : o.id = it.id /\ o.node = it.node /\ o.cmd = it.cmd BY <2>1, <2>2, <2>4
  <2>5. ASSUME ServeDrop, it.node = Head(reqs).node, Head(reqs).id = 0 \/ it.id = Head(reqs).id
        PROVE  FALSE
    <3>1. reqs \in Seq(Drops) /\ reqs # <<>> BY <2>5 DEF GwShapes, ServeDrop
    <3>2. 1 \in DOMAIN reqs /\ Head(reqs) = reqs[1] BY <3>1
    <3>3. reqs[1].id # 0 /\ reqs[1].id # pend[c].item BY <2>1, <2>2, <2>5, <3>2 DEF MirrorInv
    <3>4. QED BY <2>2, <2>5, <3>2, <3>3
  <2>6. \A n \in Nodes : \A id : n = pend[c].node /\ id = pend[c].item => c \in Meant(n, id)
    <3>1. TAKE n \in Nodes
    <3>2. TAKE id
    <3>3. HAVE n = pend[c].node /\ id = pend[c].item
    <3>4. SUFFICES ASSUME NEW b \in 1 .. c - 1, pend[b].node = n, pend[b].item = id PROVE FALSE
      BY <3>3 DEF Meant
    <3>5. b \in Cmds /\ b # c BY <3>4, SceneType
    <3>6. Pending(b) BY <3>4, <3>5, PendType
    <3>7. QED BY <2>1, <3>3, <3>4, <3>5, <3>6 DEF MirrorInv
  <2>7. it.node \in Nodes
    <3>1. it \in Items BY DEF GwShapes
    <3>2. QED BY <3>1 DEF Items
  <2>8. c \in Meant(it.node, it.id) BY <2>2, <2>6, <2>7
  <2>9. pend[c] \in Dialogs BY <2>1, PendType
  <2>10. ASSUME SendEnds, queue' # queue, it.id = down.id, it.node = down.node PROVE FALSE
    <3>1. ~Lose BY SceneType DEF Lose, HostShapes
    <3>2. pend' = [d \in Cmds |->
                     IF d \in Meant(down.node, down.id)
                     THEN [pend[d] EXCEPT !.delivered = TRUE, !.queued = FALSE] ELSE pend[d]]
      BY <2>10, <3>1 DEF SendEnds
    <3>3. pend'[c] = [pend[c] EXCEPT !.delivered = TRUE, !.queued = FALSE] BY <2>8, <2>10, <3>2
    <3>4. PICK p \in Dialogs : p = [pend[c] EXCEPT !.delivered = TRUE] BY <2>9 DEF Dialogs
    <3>5. PICK q \in Dialogs : q = [p EXCEPT !.queued = FALSE] BY DEF Dialogs
    <3>6. q.queued = FALSE BY <3>5 DEF Dialogs
    <3>7. pend'[c] = q BY <3>3, <3>4, <3>5
    <3>8. QED BY <3>6, <3>7
  <2>11. ASSUME Expire, it.stale PROVE FALSE
    <3>1. ~Lose BY SceneType DEF Lose, HostShapes
    <3>2. PICK cs : cs = UNION {Meant(i.node, i.id) : i \in Expired(queue)}
      OBVIOUS
    <3>3. Fail(cs) BY <2>11, <3>1, <3>2 DEF Expire
    <3>4. it \in Expired(queue) BY <2>11 DEF Expired
    <3>5. c \in cs BY <2>8, <3>2, <3>4
    <3>6. pend'[c] = NoPending BY <3>3, <3>5 DEF Fail
    <3>7. QED BY <3>6 DEF Pending
  <2>12. ~GwReboot BY RebootEnds DEF Pending
  <2>13. QED BY <2>3, <2>4, <2>5, <2>10, <2>11, <2>12
<1> QED BY <1>1, <1>2

\* and no request drops it.
LEMMA NotAskedStep ==
  ASSUME HostShapes, GwShapes, NodeShapes, QueueInv, DialogInv, IdInv, MirrorInv, ShellNext,
         dropped = 0, issued <= MaxId,
         NEW i \in DOMAIN reqs', NEW c \in Cmds, Pending(c)', pend'[c].queued, pend'[c].node = reqs'[i].node
  PROVE  reqs'[i].id # 0 /\ reqs'[i].id # pend'[c].item
<1>1. CASE Begun(c)
  <2>1. reqs' = <<>> BY <1>1 DEF Begun, Issue
  <2>2. QED BY <2>1
<1>2. CASE ~Begun(c)
  <2>1. /\ Pending(c) /\ pend'[c].node = pend[c].node /\ pend'[c].item = pend[c].item
        /\ pend[c].queued
    BY <1>2, StillPending
  <2>2. ~Resync BY DEF Resync
  <2>3. OldReq(reqs'[i]) \/ UserReq(reqs'[i]) \/ ReplyReq(reqs'[i]) BY <2>2, ReqMoves
  <2>4. CASE OldReq(reqs'[i])
    <3>1. PICK j \in DOMAIN reqs : reqs'[i] = reqs[j] BY <2>4 DEF OldReq
    <3>2. reqs[j].id # 0 /\ reqs[j].id # pend[c].item BY <2>1, <3>1 DEF MirrorInv
    <3>3. QED BY <2>1, <3>1, <3>2
  <2>5. CASE UserReq(reqs'[i])
    <3>1. PICK it \in queue.items : \E id \in {0, it.id} :
            DropItem(it.node, id) /\ reqs'[i] = [node |-> it.node, id |-> id]
      BY <2>5 DEF UserReq
    <3>2. PICK id \in {0, it.id} : DropItem(it.node, id) /\ reqs'[i] = [node |-> it.node, id |-> id] BY <3>1
    <3>3. PICK cs : cs = {d \in Cmds : pend[d].node = it.node /\
                            IF id = 0 THEN ~pend[d].delivered ELSE pend[d].item = id}
      OBVIOUS
    <3>4. Fail(cs) BY <3>2, <3>3 DEF DropItem
    <3>5. c \notin cs
      <4>1. c \in cs => pend'[c] = NoPending BY <3>4 DEF Fail
      <4>2. QED BY <4>1 DEF Pending
    <3>6. ~pend[c].delivered BY <2>1 DEF DialogInv
    <3>7. pend[c].node = it.node
      <4>1. PICK r : r = reqs'[i]
        OBVIOUS
      <4>2. r = [node |-> it.node, id |-> id] BY <3>2, <4>1
      <4>3. r.node = it.node BY <4>2
      <4>4. QED BY <2>1, <4>1, <4>3
    <3>8. id # 0 /\ pend[c].item # id BY <3>3, <3>5, <3>6, <3>7
    <3>9. QED BY <2>1, <3>2, <3>8
  <2>6. CASE ReplyReq(reqs'[i])
    <3>1. PICK d \in Cmds : /\ Pending(d) /\ pend'[d].queued = FALSE
                            /\ reqs'[i] = [node |-> pend[d].node, id |-> pend[d].item]
      BY <2>6 DEF ReplyReq
    <3>2. d # c BY <3>1
    <3>3. pend[d].item # pend[c].item BY <2>1, <3>1, <3>2 DEF MirrorInv
    <3>4. pend[d].item \in 1 .. MaxId BY <3>1, PendType DEF Dialogs
    <3>5. QED BY <2>1, <3>1, <3>3, <3>4, QueueAssumption
  <2>7. QED BY <2>3, <2>4, <2>5, <2>6
<1> QED BY <1>1, <1>2

LEMMA MirrorInvStep ==
  ASSUME HostShapes, GwShapes, NodeShapes, QueueInv, DialogInv, IdInv, MirrorInv, ShellNext
  PROVE  MirrorInv'
<1>0. Cmds' = Cmds BY Cases, SceneKept
<1>1. SUFFICES ASSUME dropped' = 0, issued' <= MaxId
               PROVE  /\ \A c \in Cmds : Pending(c)' /\ pend'[c].queued =>
                           \E it \in queue'.items : it.id = pend'[c].item /\ it.node = pend'[c].node /\ it.cmd = c
                      /\ \A b, c \in Cmds : Pending(b)' /\ Pending(c)' /\ pend'[b].item = pend'[c].item => b = c
                      /\ \A i \in DOMAIN reqs' : \A c \in Cmds :
                           pend'[c].queued /\ pend'[c].node = reqs'[i].node =>
                             reqs'[i].id # 0 /\ reqs'[i].id # pend'[c].item
  BY <1>0 DEF MirrorInv, Pending
<1>2. dropped = 0
  <2>1. dropped \in Nat /\ (dropped > 0 => dropped' > 0) BY DroppedGrows
  <2>2. QED BY <1>1, <2>1
<1>3. issued <= MaxId
  <2>1. issued \in Nat /\ issued' \in Nat /\ issued' = IF \E n \in Nodes : Issue(n) THEN issued + 1 ELSE issued
    BY QueueMoves
  <2>2. QED BY <1>1, <2>1, QueueAssumption
<1>4. \A c \in Cmds : pend'[c].queued => Pending(c)' BY DEF Pending, NoPending
<1>5. ASSUME NEW c \in Cmds, Pending(c)', pend'[c].queued
      PROVE  \E it \in queue'.items : it.id = pend'[c].item /\ it.node = pend'[c].node /\ it.cmd = c
  BY <1>1, <1>2, <1>3, <1>5, MirroredStep
<1>6. ASSUME NEW b \in Cmds, NEW c \in Cmds, Pending(b)', Pending(c)', pend'[b].item = pend'[c].item
      PROVE  b = c
  BY <1>1, <1>2, <1>6, PendDistinctStep
<1>7. ASSUME NEW i \in DOMAIN reqs', NEW c \in Cmds, pend'[c].queued, pend'[c].node = reqs'[i].node
      PROVE  reqs'[i].id # 0 /\ reqs'[i].id # pend'[c].item
  <2>1. Pending(c)' BY <1>4, <1>7
  <2>2. QED BY <1>2, <1>3, <1>7, <2>1, NotAskedStep
<1> QED BY <1>5, <1>6, <1>7

LEMMA GotInvStep ==
  ASSUME HostShapes, GwShapes, NodeShapes, QueueInv, PhaseInv, SinkInv, DialogInv, GotInv, ShellNext
  PROVE  GotInv'
<1>0. Cmds' = Cmds /\ Chunks' = Chunks BY Cases, SceneKept
<1>1. SUFFICES ASSUME NEW c \in Cmds PROVE got'[c] \subseteq 0 .. Chunks - 1 BY <1>0 DEF GotInv
<1>2. got[c] \subseteq 0 .. Chunks - 1 BY DEF GotInv
<1>3. CASE \E m \in Nodes : Chunked(m, c)
  <2>1. PICK m \in Nodes : Chunked(m, c) BY <1>3
  <2>2. up[m].cmd >= 1 BY <2>1, SceneType DEF Chunked
  <2>3. /\ up[m].chunk \in Nat /\ Chunks \in Nat
        /\ up[m].text => up[m].chunk <= Chunks - 1
    BY <2>2, ReplyFrame
  <2>4. got'[c] = IF up[m].text THEN got[c] \cup {up[m].chunk} ELSE got[c] BY <2>1 DEF Chunked
  <2>5. QED BY <1>2, <2>3, <2>4
<1>4. CASE got'[c] = got[c] BY <1>2, <1>4
<1> QED BY <1>3, <1>4, DialogMoves DEF Kept, Ended, Begun, Reported

-----------------------------------------------------------------------------
(***************************************************************************)
(* The invariant holds                                                     *)
(***************************************************************************)

LEMMA ShellInvInit ==
  ASSUME ShellInit
  PROVE  ShellInv
<1>1. /\ scene \in Scenes /\ scene.cmds \in Nat /\ Chunks \in Nat /\ Chunks >= 1 /\ Cmds = 1 .. scene.cmds
  BY ShellAssumption DEF ShellInit, Chunks, Cmds
<1>2. /\ queue = NewQueue /\ flag = [n \in Nodes |-> FALSE] /\ gw = Idle /\ down = NoDown /\ reqs = <<>>
      /\ pc = [n \in Nodes |-> "asleep"] /\ up = [n \in Nodes |-> NoUp]
      /\ sink = [n \in Nodes |-> NoSink] /\ last = [n \in Nodes |-> NoLast] /\ ran = [n \in Nodes |-> <<>>]
      /\ pend = [c \in Cmds |-> NoPending] /\ issued = 0 /\ outcome = [c \in Cmds |-> "none"]
      /\ got = [c \in Cmds |-> {}] /\ reboots = 0 /\ dropped = 0
  BY DEF ShellInit
<1>3. queue.items = {} /\ queue.nextId = 1 /\ queue.nextOrder = 0 /\ queue \in Queues
  BY <1>2, QueueAssumption DEF NewQueue, Queues
<1>4. IsFiniteSet({}) /\ Cardinality({}) = 0 BY FS_EmptySet
<1>5. HostShapes BY <1>1, <1>2 DEF HostShapes, Outcomes
<1>6. GwShapes
  <2>1. queue \in [items : SUBSET Items, nextId : 1 .. MaxId, nextOrder : Nat] /\ IsFiniteSet(queue.items)
    BY <1>3, <1>4 DEF Queues
  <2>2. reqs \in Seq(Drops) /\ flag \in [Nodes -> BOOLEAN] BY <1>2
  <2>3. QED BY <1>2, <2>1, <2>2 DEF GwShapes
<1>7. NodeShapes
  <2>1. NoUp \in Ups /\ NoSink \in Sinks /\ NoLast \in Lasts
    BY <1>1 DEF NoUp, NoSink, NoLast, Ups, Sinks, Lasts
  <2>2. <<>> \in Seq(Cmds) /\ "asleep" \in Places BY DEF Places
  <2>3. QED BY <1>2, <2>1, <2>2 DEF NodeShapes
<1>8. QueueInv
  <2>1. \A n \in Nodes : {it \in queue.items : it.node = n} = {} BY <1>3
  <2>2. WithinCaps BY <1>3, <1>4, <2>1, QueueAssumption DEF WithinCaps, CountFor
  <2>3. UniqueIds /\ FlagsTrue /\ LoopInv BY <1>2, <1>3 DEF UniqueIds, FlagsTrue, LoopInv, Idle
  <2>4. QED BY <2>2, <2>3 DEF QueueInv
<1>9. \A n \in Nodes : /\ sink[n] = NoSink /\ last[n] = NoLast /\ up[n] = NoUp /\ pc[n] = "asleep"
                       /\ ran[n] = <<>> /\ DOMAIN ran[n] = {}
  BY <1>2
<1>10. PhaseInv BY <1>9 DEF PhaseInv, PhaseAt
<1>11. SinkInv BY <1>1, <1>9 DEF SinkInv, SinkAt, NoSink, NoLast
<1>12. OrderInv
  <2>1. QueueOrder /\ DownOrder BY <1>2, <1>3 DEF QueueOrder, DownOrder, NoDown
  <2>2. \A n \in Nodes : OrderAt(n)
    <3>1. TAKE n \in Nodes
    <3>2. Latest(n) = 0 BY <1>9 DEF Latest, NoSink, NoLast
    <3>3. sink[n].text = FALSE /\ last[n].cmd = 0 /\ down.cmd = 0 BY <1>2, <1>9 DEF NoSink, NoLast, NoDown
    <3>4. QED BY <1>2, <1>3, <1>9, <3>2, <3>3 DEF OrderAt
  <2>3. QED BY <2>1, <2>2 DEF OrderInv
<1>13. \A c \in Cmds : pend[c] = NoPending /\ outcome[c] = "none" /\ got[c] = {} /\ ~Pending(c)
  BY <1>2 DEF Pending
<1>14. DialogInv BY <1>13 DEF DialogInv, NoPending
<1>15. IdInv BY <1>2, <1>3, <1>13 DEF IdInv, NoPending
<1>16. MirrorInv BY <1>2, <1>13 DEF MirrorInv, NoPending
<1>17. HomeInv /\ GotInv /\ PrefixInv /\ FollowInv BY <1>13 DEF HomeInv, GotInv, PrefixInv, FollowInv
<1>18. ReplyInv BY <1>13, <1>17 DEF ReplyInv, EndSeenAt, HonestReply
<1> QED BY <1>5, <1>6, <1>7, <1>8, <1>10, <1>11, <1>12, <1>14, <1>15, <1>16, <1>17, <1>18 DEF ShellInv

LEMMA ShellInvStep ==
  ASSUME ShellInv, ShellNext
  PROVE  ShellInv'
<1>1. /\ HostShapes /\ GwShapes /\ NodeShapes
      /\ QueueInv /\ PhaseInv /\ SinkInv /\ OrderInv
      /\ DialogInv /\ IdInv /\ MirrorInv /\ HomeInv /\ GotInv /\ ReplyInv /\ FollowInv
  BY DEF ShellInv
<1>2. HostShapes' /\ GwShapes' /\ NodeShapes' BY <1>1, HostShapesStep, GwShapesStep, NodeShapesStep
<1>3. QueueInv' /\ PhaseInv' /\ SinkInv' BY <1>1, <1>2, QueueInvStep, PhaseInvStep, SinkInvStep
<1>4. OrderInv'
  <2>1. QueueOrder /\ DownOrder /\ \A n \in Nodes : OrderAt(n) BY <1>1 DEF OrderInv
  <2>2. QueueOrder' /\ DownOrder' BY <1>1, <1>2, <2>1, QueueOrderStep, DownOrderStep
  <2>3. \A n \in Nodes : OrderAt(n)' BY <1>1, <1>2, <2>1, OrderAtStep
  <2>4. QED BY <2>2, <2>3 DEF OrderInv
<1>5. DialogInv' /\ IdInv' /\ MirrorInv' /\ HomeInv' /\ GotInv' /\ FollowInv'
  BY <1>1, DialogInvStep, IdInvStep, MirrorInvStep, HomeInvStep, GotInvStep, FollowInvStep
<1>6. ReplyInv'
  <2>1. PrefixInv BY <1>1 DEF ReplyInv
  <2>2. PrefixInv' /\ HonestReply' BY <1>1, <2>1, PrefixInvStep, HonestReplyStep
  <2>3. \A n \in Nodes : EndSeenAt(n)' BY <1>1, EndSeenStep
  <2>4. QED BY <2>2, <2>3 DEF ReplyInv
<1> QED BY <1>2, <1>3, <1>4, <1>5, <1>6 DEF ShellInv

LEMMA ShellInvStutter ==
  ASSUME ShellInv, UNCHANGED shellVars
  PROVE  ShellInv'
<1>1. /\ scene' = scene /\ queue' = queue /\ flag' = flag /\ gw' = gw /\ down' = down /\ reqs' = reqs
      /\ pc' = pc /\ up' = up /\ sink' = sink /\ last' = last /\ ran' = ran
      /\ pend' = pend /\ issued' = issued /\ outcome' = outcome /\ got' = got
      /\ wakes' = wakes /\ reboots' = reboots /\ gwBoots' = gwBoots /\ dropped' = dropped
  BY DEF shellVars, gwVars, nodeVars, hostVars, counts
<1>2. HostShapes' /\ GwShapes' /\ NodeShapes'
  BY <1>1, HostShapesFrame, GwShapesFrame, NodeShapesFrame DEF ShellInv
<1>3. QueueInv' /\ PhaseInv' /\ SinkInv'
  BY <1>1 DEF ShellInv, QueueInv, UniqueIds, WithinCaps, CountFor, FlagsTrue, LoopInv, PhaseInv, PhaseAt,
     SinkInv, SinkAt, Chunks
<1>4. OrderInv' BY <1>1 DEF ShellInv, OrderInv, QueueOrder, DownOrder, OrderAt, Latest
<1>5. DialogInv' /\ IdInv' /\ MirrorInv' BY <1>1 DEF ShellInv, DialogInv, IdInv, MirrorInv, Pending, Cmds
<1>6. HomeInv' /\ GotInv' /\ ReplyInv'
  BY <1>1 DEF ShellInv, HomeInv, GotInv, ReplyInv, PrefixInv, EndSeenAt, HonestReply, Pending, Cmds, Chunks
<1>7. FollowInv' BY <1>1 DEF ShellInv, FollowInv, FollowAt, Pending, Cmds
<1> QED BY <1>2, <1>3, <1>4, <1>5, <1>6, <1>7 DEF ShellInv

\* The inductive invariant: the shapes of the three parties' state, the queue, the
\* phases of a node's task, the order of the commands, the host's mirror of the
\* queue and what the host has of a reply.
THEOREM ShellInvariant == ShellSpec => []ShellInv
<1>1. ShellInit => ShellInv BY ShellInvInit
<1>2. ShellInv /\ [ShellNext]_shellVars => ShellInv' BY ShellInvStep, ShellInvStutter
<1> QED BY <1>1, <1>2, PTL DEF ShellSpec

\* A node runs the commands it is sent in the order the host issued them and each
\* at most once per boot, whatever is retried, expired, dropped or lost (the
\* (epoch, cmd_id) check of downlink_window in radio_push_button.rs and the
\* order of peek_for in queue.rs).
THEOREM CommandsRunInOrder == ShellSpec => []RunsInOrder
<1>1. ShellInv => RunsInOrder BY DEF ShellInv, OrderInv, OrderAt, RunsInOrder
<1> QED BY <1>1, ShellInvariant, PTL

\* A dialog the host ends as complete has the whole reply, but for the two
\* exceptions HonestReply names (on_shell_chunk in engine.rs, RadioSink and
\* LAST_REMOTE_* in radio_push_button.rs).
THEOREM RepliesAreHonest == ShellSpec => []HonestReply
<1>1. ShellInv => HonestReply BY DEF ShellInv, ReplyInv
<1> QED BY <1>1, ShellInvariant, PTL

\* The gateway's queue keeps its ids apart and its limits, between two slices the
\* pending flags are true, and what the host counts as queued is (queue.rs, the
\* loop of radio_dongle_gateway.rs, the mirror of engine.rs).
THEOREM QueueIsSound == ShellSpec => []QueueSound
<1>1. ShellInv => QueueSound
  <2>1. SUFFICES ASSUME ShellInv PROVE QueueSound
    OBVIOUS
  <2>2. HostShapes /\ GwShapes /\ NodeShapes /\ QueueInv /\ SinkInv /\ PhaseInv /\ OrderInv /\ GotInv /\ MirrorInv
    BY <2>1 DEF ShellInv
  <2>3. /\ scene.cmds \in Nat /\ Chunks \in Nat /\ Chunks >= 1 /\ Cmds = 1 .. scene.cmds /\ MaxId \in Nat
        /\ issued \in 0 .. scene.cmds
    BY <2>2, SceneType, QueueAssumption DEF HostShapes
  <2>4. queue \in Queues /\ IsFiniteSet(queue.items) BY <2>2 DEF GwShapes, Queues
  <2>5. queue.nextId \in 1 .. MaxId /\ queue.nextOrder \in 0 .. scene.cmds
    BY <2>2, <2>3, <2>4 DEF Queues, OrderInv, QueueOrder
  <2>6. \A it \in queue.items : it.id \in 1 .. MaxId /\ it.node \in Nodes /\ it.cmd \in Cmds
    <3>1. \A it \in queue.items : it \in Items BY <2>4 DEF Queues
    <3>2. QED BY <3>1 DEF Items
  <2>7. gw.at \in {"idle", "serving", "sending"} BY <2>2 DEF GwShapes, Idle
  <2>8. down.id \in 0 .. MaxId /\ down.cmd \in 0 .. scene.cmds BY <2>2, <2>3 DEF GwShapes, NoDown, Sends
  <2>9. ASSUME NEW n \in Nodes
        PROVE  /\ sink[n].chunk \in 0 .. Chunks + 1 /\ last[n].lost \in 0 .. Chunks
               /\ last[n].cmd \in 0 .. scene.cmds /\ ran[n] \in Seq(Cmds)
    <3>1. sink[n] \in Sinks /\ last[n] \in Lasts /\ ran[n] \in Seq(Cmds) /\ SinkAt(n) /\ PhaseAt(n)
      BY <2>2, <2>9 DEF NodeShapes, SinkInv, PhaseInv
    <3>2. /\ sink[n].chunk \in Nat /\ sink[n].end \in Nat /\ sink[n].cmd \in Nat /\ sink[n].text \in BOOLEAN
          /\ last[n].lost \in Nat /\ last[n].cmd \in 0 .. scene.cmds
      BY <2>3, <3>1 DEF Sinks, Lasts
    <3>3. last[n].lost <= Chunks BY <3>1 DEF SinkAt
    <3>4. sink[n].chunk <= Chunks + 1
      <4>1. CASE sink[n].text BY <2>3, <3>1, <3>2, <4>1 DEF SinkAt
      <4>2. CASE ~sink[n].text /\ sink[n].cmd >= 1 BY <2>3, <3>1, <3>2, <3>3, <4>2 DEF SinkAt
      <4>3. CASE ~sink[n].text /\ sink[n].cmd = 0
        <5>1. sink[n] = NoSink BY <3>1, <4>3 DEF PhaseAt
        <5>2. QED BY <2>3, <5>1 DEF NoSink
      <4>4. QED BY <3>2, <4>1, <4>2, <4>3
    <3>5. QED BY <2>3, <3>1, <3>2, <3>3, <3>4
  <2>10. got \in [Cmds -> SUBSET (0 .. Chunks - 1)] BY <2>2 DEF HostShapes, GotInv
  <2>11. ShellTypeOK
    BY <2>2, <2>5, <2>6, <2>7, <2>8, <2>9, <2>10 DEF ShellTypeOK, HostShapes, GwShapes, NodeShapes, Places, Outcomes
  <2>12. ASSUME NEW n \in Nodes PROVE flag[n] = (CountFor(queue, n) > 0)
    <3>1. CountFor(queue, n) > 0 <=> \E it \in queue.items : it.node = n BY <2>4, CountSome
    <3>2. flag[n] \in BOOLEAN /\ (flag[n] <=> \E it \in queue.items : it.node = n)
      BY <2>2 DEF GwShapes, QueueInv, FlagsTrue
    <3>3. (CountFor(queue, n) > 0) \in BOOLEAN BY SMT
    <3>4. QED BY <3>1, <3>2, <3>3, Zenon
  <2>13. dropped = 0 /\ issued <= MaxId =>
           \A c \in Cmds : Pending(c) /\ pend[c].queued =>
             \E it \in queue.items : it.id = pend[c].item /\ it.node = pend[c].node /\ it.cmd = c
    BY <2>2 DEF MirrorInv
  <2>14. UniqueIds /\ WithinCaps BY <2>2 DEF QueueInv
  <2>15. QED BY <2>11, <2>12, <2>13, <2>14 DEF QueueSound, UniqueIds, WithinCaps
<1> QED BY <1>1, ShellInvariant, PTL
=============================================================================
