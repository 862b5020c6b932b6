----------------------------- MODULE RemoteShell ----------------------------
(***************************************************************************)
(* A shell command on its way from the host to a sleeping node and its     *)
(* reply on the way back: the gateway's queue and main loop                *)
(* (firmware/apps/radio_dongle_gateway.rs), the node's uplink, downlink    *)
(* window, de-duplication and RadioSink                                    *)
(* (firmware/apps/radio_push_button.rs), and the host engine's pending     *)
(* commands (cli/src/gateway/engine.rs).                                   *)
(*                                                                         *)
(* The two directions of each link are Deliveries (see ConfirmedLink): a   *)
(* transfer in flight is taken at most once, and its sender is told        *)
(* "delivered" only if it was taken, and perhaps not even then.            *)
(*                                                                         *)
(* Commands are numbered in the order the host issues them and stand for   *)
(* their (epoch, cmd_id).  The host has one request out at a time, the     *)
(* others wait in order; the gateway serves them between two radio slices. *)
(* What the gateway tells the host arrives in order, or is lost: a push    *)
(* and its answer, a report or a chunk and its handler are one step each.  *)
(***************************************************************************)
EXTENDS DownlinkQueue, SequencesExt

CONSTANTS
  Nodes,       \* registered nodes
  Scenes       \* what a run may meet, see the assumption

\* A scene: the nodes in use, the chunks of a reply (the last one included),
\* and the bounds: commands the host issues, uplinks the nodes start on their
\* own, resets of nodes and of the gateway, losses on the serial link.
ASSUME ShellAssumption ==
  /\ Scenes \subseteq [nodes : SUBSET Nodes, chunks : Nat \ {0}, cmds : Nat, wakes : Nat,
                       reboots : Nat, gwBoots : Nat, drops : Nat]
  /\ "none" \notin Nodes

VARIABLES
  scene,    \* the scene of this behaviour
  queue,    \* gateway: the downlink queue
  flag,     \* gateway: each peer's pending flag
  gw,       \* gateway: what its loop is doing, and for which node
  down,     \* the downlink in flight
  reqs,     \* host: QueueDrop requests waiting for the gateway, in order
  pc,       \* node: where its task is
  up,       \* node: the uplink in flight
  sink,     \* node: the reply being streamed
  last,     \* node: the last command run and its first undelivered chunk
  pend,     \* host: the pending commands
  issued,   \* host: commands issued so far
  outcome,  \* host: how each dialog ended
  got,      \* history: chunks of the reply of each command the host published
  ran,      \* history: the commands each node ran since boot, in order
  wakes, reboots, gwBoots, dropped

gwVars   == <<queue, flag, gw, down, reqs>>
nodeVars == <<pc, up, sink, last, ran>>
hostVars == <<pend, issued, outcome, got>>
counts   == <<wakes, reboots, gwBoots, dropped>>
shellVars     == <<scene, gwVars, nodeVars, hostVars, counts>>

Chunks == scene.chunks
Cmds   == 1 .. scene.cmds

Idle      == [at |-> "idle", node |-> "none"]
NoDown    == [node |-> "none", id |-> 0, cmd |-> 0, taken |-> FALSE]
NoUp      == [cmd |-> 0, chunk |-> 0, last |-> FALSE, text |-> FALSE, taken |-> FALSE, flags |-> {}]
NoSink    == [cmd |-> 0, chunk |-> 0, lost |-> 0, end |-> 0, text |-> FALSE]
NoLast    == [cmd |-> 0, lost |-> 0]
NoPending == [node |-> "none", item |-> 0, queued |-> FALSE, delivered |-> FALSE,
              next |-> 0, truncated |-> FALSE]

ShellInit ==
  /\ scene \in Scenes
  /\ queue = NewQueue /\ flag = [n \in Nodes |-> FALSE] /\ gw = Idle
  /\ down = NoDown /\ reqs = <<>>
  /\ pc = [n \in Nodes |-> "asleep"] /\ up = [n \in Nodes |-> NoUp]
  /\ sink = [n \in Nodes |-> NoSink] /\ last = [n \in Nodes |-> NoLast]
  /\ ran = [n \in Nodes |-> <<>>]
  /\ pend = [c \in Cmds |-> NoPending] /\ issued = 0
  /\ outcome = [c \in Cmds |-> "none"] /\ got = [c \in Cmds |-> {}]
  /\ wakes = 0 /\ reboots = 0 /\ gwBoots = 0 /\ dropped = 0

Pending(c) == pend[c] # NoPending

\* The pending command a report about an item of n means: the first with its id.
Meant(n, id) ==
  {c \in Cmds : /\ pend[c].node = n /\ pend[c].item = id
                /\ \A b \in 1 .. c - 1 : pend[b].node = n => pend[b].item # id}

\* The serial link loses something.
Lose == dropped < scene.drops /\ dropped' = dropped + 1

\* The dialogs of cs end with an error.
Fail(cs) ==
  /\ pend' = [c \in Cmds |-> IF c \in cs THEN NoPending ELSE pend[c]]
  /\ outcome' = [c \in Cmds |-> IF c \in cs THEN "error" ELSE outcome[c]]

-----------------------------------------------------------------------------
(***************************************************************************)
(* Host                                                                    *)
(***************************************************************************)

\* QueuePush marks the node pending at once, for the ACK of its next uplink.
Premark(q, n) == [flag EXCEPT ![n] = TRUE]

\* A shell request: QueuePush and its answer, behind the requests before it.
Issue(n) ==
  /\ n \in scene.nodes /\ issued < scene.cmds /\ issued' = issued + 1 /\ gw = Idle /\ reqs = <<>>
  /\ \/ /\ HasRoom(queue, n) /\ queue' = Push(queue, n, issued') /\ flag' = Premark(queue, n)
        /\ \/ /\ pend' = [pend EXCEPT ![issued'] =
                  [NoPending EXCEPT !.node = n, !.item = FreeId(queue), !.queued = TRUE]]
              /\ UNCHANGED <<outcome, dropped>>
           \/ /\ Lose /\ outcome' = [outcome EXCEPT ![issued'] = "error"]
              /\ UNCHANGED pend
     \/ /\ ~HasRoom(queue, n) /\ outcome' = [outcome EXCEPT ![issued'] = "error"]
        /\ UNCHANGED <<queue, flag, pend, dropped>>
  /\ UNCHANGED <<gw, down, reqs, got, wakes, reboots, gwBoots>> /\ UNCHANGED nodeVars

\* on_shell_chunk: a chunk that is not the next one marks the reply truncated.
Truncated(p, f) == p.truncated \/ f.chunk # p.next

\* on_shell_chunk.  The item leaves the queue on the first sign of a reply.
OnChunk(f) ==
  IF f.cmd = 0 \/ ~Pending(f.cmd) THEN UNCHANGED <<pend, outcome, got, reqs>>
  ELSE LET c == f.cmd
           p == pend[c] IN
       /\ reqs' = IF p.queued THEN Append(reqs, [node |-> p.node, id |-> p.item]) ELSE reqs
       /\ got' = IF f.text THEN [got EXCEPT ![c] = @ \cup {f.chunk}] ELSE got
       /\ pend' = [pend EXCEPT ![c] = IF f.last THEN NoPending ELSE
            [p EXCEPT !.queued = FALSE, !.delivered = TRUE, !.next = f.chunk + 1,
                      !.truncated = Truncated(p, f)]]
       /\ outcome' = IF f.last
            THEN [outcome EXCEPT ![c] = IF Truncated(p, f) THEN "truncated" ELSE "complete"]
            ELSE outcome

\* on_tick: no reply, or no report of an undelivered item, for too long.
GiveUp(c) ==
  /\ Pending(c) /\ Fail({c})
  /\ UNCHANGED <<issued, got>> /\ UNCHANGED gwVars /\ UNCHANGED nodeVars /\ UNCHANGED counts

\* The queue_drop RPC: the mirror first, then a request to the device.  One item
\* by its ref, or (id 0) all of the node's, the delivered commands kept.
DropItem(n, id) ==
  /\ [node |-> n, id |-> id] \notin Range(reqs)
  /\ Fail({c \in Cmds : pend[c].node = n /\
            IF id = 0 THEN ~pend[c].delivered ELSE pend[c].item = id})
  /\ reqs' = Append(reqs, [node |-> n, id |-> id])
  /\ UNCHANGED <<queue, flag, gw, down, issued, got>> /\ UNCHANGED nodeVars /\ UNCHANGED counts

\* The refs asked for: of an item still queued, or none.
DropRpc == \E it \in queue.items : \E id \in {0, it.id} : DropItem(it.node, id)

\* reconcile_queue, after the serial link came back or a request went
\* unanswered: undelivered commands the device lost fail, items unknown here go.
Resync ==
  /\ gw = Idle /\ dropped > 0 /\ reqs = <<>>
  /\ LET held(c)   == \E it \in queue.items : it.id = pend[c].item /\ it.node = pend[c].node
         known(it) == \E c \in Cmds : pend[c].item = it.id /\ pend[c].node = it.node
     IN  /\ Fail({c \in Cmds : Pending(c) /\ ~pend[c].delivered /\ ~held(c)})
         /\ reqs' = SetToSeq({[node |-> it.node, id |-> it.id] : it \in {i \in queue.items : ~known(i)}})
  /\ UNCHANGED <<queue, flag, gw, down, issued, got>> /\ UNCHANGED nodeVars /\ UNCHANGED counts

-----------------------------------------------------------------------------
(***************************************************************************)
(* Gateway                                                                 *)
(***************************************************************************)

SetPending(q, n) == [flag EXCEPT ![n] = CountFor(q, n) > 0]

\* QueueDrop: all of a node's items, or one if it is that node's.
Dropped(q, r) ==
  IF r.id = 0 THEN DropNode(q, r.node)
  ELSE IF \E it \in q.items : it.id = r.id /\ it.node = r.node THEN Pop(q, r.id) ELSE q

\* The oldest QueueDrop is served, or lost.
ServeDrop ==
  /\ gw = Idle /\ reqs # <<>> /\ reqs' = Tail(reqs)
  /\ \/ /\ queue' = Dropped(queue, Head(reqs))
        /\ flag' = SetPending(queue', Head(reqs).node) /\ UNCHANGED dropped
     \/ Lose /\ UNCHANGED <<queue, flag>>
  /\ UNCHANGED <<gw, down, pend, issued, outcome, got, wakes, reboots, gwBoots>>
  /\ UNCHANGED nodeVars

\* recv: an uplink is taken and ACKed with the flag, then forwarded.
TakeUplink(n) ==
  /\ gw = Idle /\ up[n] # NoUp /\ ~up[n].taken
  /\ up' = [up EXCEPT ![n].taken = TRUE, ![n].flags = @ \cup {flag[n]}]
  /\ gw' = [at |-> "serving", node |-> n]
  /\ \/ OnChunk(up[n]) /\ UNCHANGED dropped
     \/ Lose /\ UNCHANGED <<pend, outcome, got, reqs>>
  /\ UNCHANGED <<queue, flag, down, pc, sink, last, ran, issued, wakes, reboots, gwBoots>>

\* recv: a retransmit of it is re-ACKed, with the flag as it is now.
ReAck(n) ==
  /\ gw = Idle /\ up[n].taken /\ up[n].flags # {flag[n]}
  /\ up' = [up EXCEPT ![n].flags = @ \cup {flag[n]}]
  /\ UNCHANGED <<pc, sink, last, ran>> /\ UNCHANGED gwVars
  /\ UNCHANGED hostVars /\ UNCHANGED counts

\* on_uplink: send the node's next item, if there is one.
Serve ==
  /\ gw.at = "serving"
  /\ \/ \E it \in PeekFor(queue, gw.node) :
          /\ down' = [node |-> it.node, id |-> it.id, cmd |-> it.cmd, taken |-> FALSE]
          /\ gw' = [gw EXCEPT !.at = "sending"] /\ UNCHANGED flag
     \/ /\ PeekFor(queue, gw.node) = {} /\ gw' = Idle
        /\ flag' = SetPending(queue, gw.node) /\ UNCHANGED down
  /\ UNCHANGED <<queue, reqs>> /\ UNCHANGED nodeVars /\ UNCHANGED hostVars /\ UNCHANGED counts

\* The send ends: delivered (the item is popped and reported) or not (the item
\* stays for the next uplink).
SendEnds ==
  /\ gw.at = "sending" /\ gw' = Idle /\ down' = NoDown
  /\ \/ /\ down.taken /\ queue' = Pop(queue, down.id)
        /\ \/ /\ pend' = [c \in Cmds |->
                  IF c \in Meant(down.node, down.id)
                  THEN [pend[c] EXCEPT !.delivered = TRUE, !.queued = FALSE] ELSE pend[c]]
              /\ UNCHANGED dropped
           \/ Lose /\ UNCHANGED pend
     \/ UNCHANGED <<queue, pend, dropped>>
  /\ flag' = SetPending(queue', gw.node)
  /\ UNCHANGED <<reqs, issued, outcome, got, wakes, reboots, gwBoots>> /\ UNCHANGED nodeVars

\* Time: the TTL of an item runs out, at any point of the loop.
Lapse(it) ==
  /\ it \in queue.items /\ ~it.stale /\ queue' = Age(queue, it)
  /\ UNCHANGED <<flag, gw, down, reqs>> /\ UNCHANGED nodeVars
  /\ UNCHANGED <<scene, hostVars, counts>>

\* Housekeeping at the end of the loop: expired items go and are reported.
Expire ==
  /\ gw = Idle /\ Expired(queue) # {}
  /\ queue' = [queue EXCEPT !.items = @ \ Expired(queue)]
  /\ flag' = [n \in Nodes |->
       IF \E it \in Expired(queue) : it.node = n THEN CountFor(queue', n) > 0 ELSE flag[n]]
  /\ \/ /\ Fail(UNION {Meant(it.node, it.id) : it \in Expired(queue)})
        /\ UNCHANGED dropped
     \/ Lose /\ UNCHANGED <<pend, outcome>>
  /\ UNCHANGED <<gw, down, reqs, issued, got, wakes, reboots, gwBoots>> /\ UNCHANGED nodeVars

\* A reset of the dongle: queue and flags are gone, its Hello tells the host; a
\* request that was out may be lost, those behind it are sent to the new session.
GwReboot ==
  /\ gwBoots < scene.gwBoots /\ gwBoots' = gwBoots + 1
  /\ queue' = NewQueue /\ flag' = [n \in Nodes |-> FALSE] /\ gw' = Idle /\ down' = NoDown
  /\ reqs' = reqs \/ (reqs # <<>> /\ reqs' = Tail(reqs))
  /\ Fail({c \in Cmds : Pending(c)})
  /\ UNCHANGED <<issued, got, wakes, reboots, dropped>> /\ UNCHANGED nodeVars

-----------------------------------------------------------------------------
(***************************************************************************)
(* Node                                                                    *)
(***************************************************************************)

nodeOnly == <<queue, flag, gw, reqs, pend, issued, outcome, got, reboots, gwBoots, dropped>>

\* Offer a frame to the gateway, then wait for its fate at l.
Uplink(n, frame, l) ==
  /\ up' = [up EXCEPT ![n] = frame] /\ pc' = [pc EXCEPT ![n] = l]

\* A button, a measurement or the heartbeat: one confirmed uplink.
Wake(n) ==
  /\ n \in scene.nodes /\ pc[n] = "asleep" /\ wakes < scene.wakes /\ wakes' = wakes + 1
  /\ Uplink(n, [NoUp EXCEPT !.last = TRUE], "uplink")
  /\ UNCHANGED <<down, sink, last, ran>> /\ UNCHANGED nodeOnly

\* After a cycle: another window while the last ACK said pending.
Chain(n, pending) == pc' = [pc EXCEPT ![n] = IF pending THEN "window" ELSE "asleep"]

\* The uplink's fate: the ACK with its flag, or none.
UplinkEnds(n) ==
  /\ pc[n] = "uplink" /\ up' = [up EXCEPT ![n] = NoUp]
  /\ \E pending \in {FALSE} \cup up[n].flags : Chain(n, pending)
  /\ UNCHANGED <<down, sink, last, ran, wakes>> /\ UNCHANGED nodeOnly

\* downlink_window ends with nothing heard.
WindowEnds(n) ==
  /\ pc[n] = "window" /\ pc' = [pc EXCEPT ![n] = "asleep"]
  /\ UNCHANGED <<down, up, sink, last, ran, wakes>> /\ UNCHANGED nodeOnly

\* The answer to a repeated command: empty if the reply all went up, else
\* numbered past the lost chunk and the one after it.
RepeatReply(n, c) ==
  IF last[n].lost = 0 THEN [NoSink EXCEPT !.cmd = c, !.end = 0]
  ELSE [NoSink EXCEPT !.cmd = c, !.chunk = last[n].lost + 1, !.end = last[n].lost + 1]

\* Only a downlink is remembered, not the command in it.
Fault_NoDedup(n, c) == FALSE

Repeated(n, c) == last[n].cmd = c

\* The window hears the command: ACK it, and run it unless it is a repeat.
TakeCommand(n) ==
  /\ pc[n] = "window" /\ down.node = n /\ ~down.taken
  /\ down' = [down EXCEPT !.taken = TRUE] /\ pc' = [pc EXCEPT ![n] = "reply"]
  /\ IF Repeated(n, down.cmd)
     THEN sink' = [sink EXCEPT ![n] = RepeatReply(n, down.cmd)] /\ UNCHANGED ran
     ELSE /\ sink' = [sink EXCEPT ![n] =
               [NoSink EXCEPT !.cmd = down.cmd, !.end = Chunks - 1, !.text = TRUE]]
          /\ ran' = [ran EXCEPT ![n] = Append(@, down.cmd)]
  /\ UNCHANGED <<up, last, wakes>> /\ UNCHANGED nodeOnly

\* RadioSink::flush: one chunk goes up.
SendChunk(n) ==
  /\ pc[n] = "reply"
  /\ Uplink(n, [NoUp EXCEPT !.cmd = sink[n].cmd, !.chunk = sink[n].chunk,
                            !.last = sink[n].chunk = sink[n].end, !.text = sink[n].text], "chunk")
  /\ UNCHANGED <<down, sink, last, ran, wakes>> /\ UNCHANGED nodeOnly

\* A reply cut short is remembered like a complete one.
Fault_ForgetLost(n, lost) == [cmd |-> sink[n].cmd, lost |-> 0]

\* LAST_REMOTE_*: a run, not a repeat, is remembered with its first lost chunk.
Remembered(n, lost) == IF sink[n].text THEN [cmd |-> sink[n].cmd, lost |-> lost] ELSE last[n]

\* The chunk's fate: delivered, and the next one or the end of the reply; or
\* not, and the rest of the reply is dropped.
ChunkEnds(n) ==
  /\ pc[n] = "chunk" /\ up' = [up EXCEPT ![n] = NoUp]
  /\ \/ /\ up[n].taken /\ ~up[n].last
        /\ sink' = [sink EXCEPT ![n].chunk = @ + 1] /\ pc' = [pc EXCEPT ![n] = "reply"]
        /\ UNCHANGED last
     \/ /\ up[n].taken /\ up[n].last
        /\ sink' = [sink EXCEPT ![n] = NoSink]
        /\ last' = [last EXCEPT ![n] = Remembered(n, 0)]
        /\ \E pending \in up[n].flags : Chain(n, pending)
     \/ /\ sink' = [sink EXCEPT ![n] = NoSink]
        /\ last' = [last EXCEPT ![n] = Remembered(n, sink[n].chunk + 1)]
        /\ Chain(n, FALSE)
  /\ UNCHANGED <<down, ran, wakes>> /\ UNCHANGED nodeOnly

\* A reset of the node, `system reboot` included: what it ran is forgotten.
NodeReboot(n) ==
  /\ reboots < scene.reboots /\ reboots' = reboots + 1
  /\ pc' = [pc EXCEPT ![n] = "asleep"] /\ up' = [up EXCEPT ![n] = NoUp]
  /\ sink' = [sink EXCEPT ![n] = NoSink] /\ last' = [last EXCEPT ![n] = NoLast]
  /\ ran' = [ran EXCEPT ![n] = <<>>]
  /\ UNCHANGED <<wakes, gwBoots, dropped>> /\ UNCHANGED gwVars /\ UNCHANGED hostVars

-----------------------------------------------------------------------------

Host    == Resync \/ DropRpc \/ (\E n \in Nodes : Issue(n)) \/ \E c \in Cmds : GiveUp(c)
Gateway == (\E n \in Nodes : TakeUplink(n) \/ ReAck(n)) \/ Serve \/ SendEnds
           \/ Expire \/ ServeDrop
Node(n) ==
  /\ UplinkEnds(n) \/ WindowEnds(n) \/ TakeCommand(n) \/ SendChunk(n) \/ ChunkEnds(n)
  /\ UNCHANGED scene

ShellNext ==
  \/ (Host \/ Gateway \/ GwReboot) /\ UNCHANGED scene
  \/ \E it \in queue.items : Lapse(it)
  \/ \E n \in Nodes : Node(n) \/ ((Wake(n) \/ NodeReboot(n)) /\ UNCHANGED scene)

ShellSpec == ShellInit /\ [][ShellNext]_shellVars

\* The node's task goes on (its executor polls a task whose timer or interrupt
\* fired, and every wait of the cycle has a deadline), and TTLs run out.  Nothing
\* is assumed of the gateway.
ShellFairness ==
  /\ \A n \in Nodes : WF_shellVars(Node(n))
  /\ \A c \in 1 .. Max({s.cmds : s \in Scenes}) :
       WF_shellVars(\E it \in queue.items : it.cmd = c /\ Lapse(it))

-----------------------------------------------------------------------------
(***************************************************************************)
(* Properties                                                              *)
(***************************************************************************)

\* Type invariant.
ShellTypeOK ==
  /\ queue.nextId \in 1 .. MaxId /\ queue.nextOrder \in 0 .. scene.cmds
  /\ \A it \in queue.items : it.id \in 1 .. MaxId /\ it.node \in Nodes /\ it.cmd \in Cmds
  /\ flag \in [Nodes -> BOOLEAN] /\ gw.at \in {"idle", "serving", "sending"}
  /\ down.id \in 0 .. MaxId /\ down.cmd \in 0 .. scene.cmds
  /\ pc \in [Nodes -> {"asleep", "uplink", "window", "reply", "chunk"}]
  /\ \A n \in Nodes :
       /\ sink[n].chunk \in 0 .. Chunks + 1 /\ last[n].lost \in 0 .. Chunks
       /\ last[n].cmd \in 0 .. scene.cmds /\ ran[n] \in Seq(Cmds)
  /\ outcome \in [Cmds -> {"none", "error", "complete", "truncated"}]
  /\ got \in [Cmds -> SUBSET (0 .. Chunks - 1)]

\* A node runs the commands it is sent in the order the host issued them and
\* each at most once per boot (a reset forgets what it ran, and the item may
\* still be queued: radio_push_button.rs:1328), although the queue delivers at least once, only
\* the last command is remembered, ids wrap, items expire and are dropped, and
\* every ACK may be lost (the (epoch, cmd_id) check of downlink_window).
RunsInOrder ==
  \A n \in Nodes : \A i, j \in DOMAIN ran[n] : i < j => ran[n][i] < ran[n][j]

\* The host ends a dialog as complete only after every chunk of the reply: a
\* repeat is answered "never [with] an empty success"
\* (firmware/docs/gateway.md:109).  There are two exceptions.  Where the serial
\* link lost something, the node may answer a repeat after every chunk was
\* forwarded and none arrived: the dialog then ends with nothing.  Where the
\* node was reset in the middle of a reply and ran the command again, the
\* answer to a repeat, numbered past the chunk lost in the second run, may be
\* the very chunk the host waits for since the first: two chunks or more, and
\* the rest missing, end as complete.
HonestReply ==
  \A c \in Cmds : outcome[c] = "complete" =>
    \/ got[c] = 0 .. Chunks - 1
    \/ got[c] = {} /\ dropped > 0
    \/ reboots > 0 /\ \E k \in 2 .. Chunks - 1 : got[c] = 0 .. k - 1

\* The gateway's queue and what the host and the nodes believe of it.  Two items
\* never share an id, across the wrap, and neither limit is exceeded; between
\* two radio slices a node's pending flag says whether something is queued for
\* it (no command waits for a node that is never told to listen, no node is kept
\* awake for nothing); and a command the host still counts as queued is there
\* under the id the host knows it by, unless the serial link lost something or
\* an id came back while its last command still waits for its reply (a report
\* then means that one; with 65535 ids and the reply timeout it does not).
QueueSound ==
  /\ ShellTypeOK
  /\ \A a, b \in queue.items : a.id = b.id => a = b
  /\ \A n \in Nodes : CountFor(queue, n) <= PerNodeCap
  /\ Cardinality(queue.items) <= QueueCap
  /\ gw = Idle => \A n \in Nodes : flag[n] = (CountFor(queue, n) > 0)
  /\ dropped = 0 /\ issued <= MaxId =>
       \A c \in Cmds : Pending(c) /\ pend[c].queued =>
         \E it \in queue.items : it.id = pend[c].item /\ it.node = pend[c].node /\ it.cmd = c

\* A node that woke goes back to sleep: the windows its ACKs chain come to an
\* end, also when the gateway never hears that a command arrived.
NodeSleeps == \A n \in Nodes : pc[n] # "asleep" ~> pc[n] = "asleep"
=============================================================================
