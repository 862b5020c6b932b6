----------------------------- MODULE HostEngine -----------------------------
(***************************************************************************)
(* The host's gateway engine (cli/src/gateway/engine.rs): one synchronous  *)
(* state machine between MQTT clients and the gateway dongle.  The module  *)
(* models its management side: the request slot and the waiting requests,  *)
(* timeouts, the RPC surface, the mirror of the dongle's registry with its *)
(* auto-naming, the pairing window and the hold of early uplinks.  The     *)
(* remote-shell dialogs of the engine are in RemoteShell.                  *)
(*                                                                         *)
(* The engine is a record that handlers map to the next one.  The dongle   *)
(* is modelled by what it does to a management request: it takes one at a  *)
(* time from an inbox of one, which drops a request that finds it full,    *)
(* answers in order, and answers a PairingOpen when its window ends.  It   *)
(* may be away from its inbox for longer than the engine waits.  What it   *)
(* writes may be lost by its console, and all that is under way is lost    *)
(* with the serial link.                                                   *)
(***************************************************************************)
EXTENDS Integers, Sequences, SequencesExt, FiniteSets

CONSTANTS
  Addrs,         (* node addresses                                         *)
  Registered,    (* the nodes the dongle has at the start                  *)
  OpNames,       (* names an operator gives                                *)
  Rpcs,          (* request ids of the MQTT clients                        *)
  MgmtTimeout,   (* MGMT_TIMEOUT_TICKS                                     *)
  PickupTicks,   (* PAIRING_PICKUP_TICKS                                   *)
  BusyTicks,     (* a request lies in the dongle's inbox for less than this *)
  WindowTicks,   (* a window and PAIRING_SLACK_S                           *)
  LateTicks,     (* how much longer the dongle's window may take          *)
  MaxDelay,      (* ticks a frame is under way at most                     *)
  RecentIds,     (* RECENT_IDS                                             *)
  HeldUplinks,   (* HELD_UPLINKS                                           *)
  GapRetries,    (* LIST_GAP_RETRIES                                       *)
  EngPlans       (* bounds of one behaviour: see plan                      *)

\* Seconds: the engine waits for a window, and PAIRING_SLACK_S more, at least as long as the
\* dongle may be busy, may end its window late and the answer may take.
ASSUME EngineAssumption ==
  /\ Registered \subseteq Addrs
  /\ Rpcs \subseteq Nat \ {0}
  /\ MgmtTimeout \in Nat /\ WindowTicks \in Nat /\ LateTicks \in Nat /\ MaxDelay \in Nat
  /\ PickupTicks \in Nat \ {0} /\ BusyTicks \in Nat \ {0} /\ RecentIds \in Nat \ {0}
  /\ BusyTicks + LateTicks + MaxDelay <= WindowTicks

VARIABLES
  plan,      (* bounds: the kinds of the requests posted, for which nodes, *)
             (*   whether they may be stored; heartbeats of a node; losses *)
             (*   (frames, link drops, reboots); management requests issued *)
  eng,       (* the engine                                                 *)
  inbox,     (* dongle: the request not yet taken, or <<>>                 *)
  age,       (* dongle: ticks it has been there                            *)
  reg,       (* dongle: the registry, a function on the registered nodes   *)
  window,    (* dongle: the PairingOpen whose window is open, or 0         *)
  wire,      (* frames under way from the dongle to the host               *)
  posted,    (* clients: what each request asks for, once posted           *)
  retained,  (* broker: requests stored as retained messages               *)
  upCtr,     (* nodes: uplinks sent so far                                 *)
  losses,
  silent,    (* history: the answer of a join was taken without a word     *)
  delay,     (* ticks the oldest frame has been under way                  *)
  winAge,    (* dongle: ticks the window has been open                     *)
  stale,     (* history: something was lost since the link came up         *)
  chosen     (* history: the name an operator was told a node has, or Void *)
             (*   when the node was registered anew since it was asked for *)

engVars == <<plan, eng, inbox, age, reg, window, wire, posted, retained, upCtr, losses,
             silent, delay, winAge, stale, chosen>>

NoName == "none"
Void == "void"
AutoNames == {"auto0", "auto1", "auto2"}
auto_name(nodes) ==
  IF \A n \in DOMAIN nodes : nodes[n].name # "auto0" THEN "auto0"
  ELSE IF \A n \in DOMAIN nodes : nodes[n].name # "auto1" THEN "auto1" ELSE "auto2"

\* A registry row with its two flags; a mirror row is one with the highest published counter
\* (0 for None).
Row(name, unnamed) == [name |-> name, unnamed |-> unnamed, power |-> "awake", last |-> 0]

With(f, n, v) == [m \in DOMAIN f \cup {n} |-> IF m = n THEN v ELSE f[m]]
Without(f, S) == [m \in DOMAIN f \ S |-> f[m]]

\* A management request; rpc = 0 for one of the engine's own.
Req(op, node, name, rpc) ==
  [op |-> op, node |-> node, name |-> name, rpc |-> rpc, id |-> 0, sent |-> FALSE,
   left |-> IF op = "PairingOpen" THEN WindowTicks ELSE MgmtTimeout, holds |-> -1, asleep |-> FALSE]

\* New flags for a node, and a new name unless it is NoName.
UpdateReq(node, name, power, rpc) == [Req("NodeUpdate", node, name, rpc) EXCEPT !.asleep = (power = "asleep")]

NodeListReq == Req("NodeList", 0, NoName, 0)

-----------------------------------------------------------------------------
(* Requests and answers *)

respond(e, rpc) == IF rpc = 0 THEN e ELSE [e EXCEPT !.answers[rpc] = @ + 1]

\* The slot is held by a request that was sent and not yet answered.
slotHeld(e) == \E i \in DOMAIN e.mgmt : e.mgmt[i].sent /\ e.mgmt[i].holds # 0

\* The oldest waiting request goes out once the slot is free.
send_next_mgmt(e) ==
  IF slotHeld(e) \/ \A i \in DOMAIN e.mgmt : e.mgmt[i].sent THEN e
  ELSE LET i == CHOOSE k \in DOMAIN e.mgmt : ~e.mgmt[k].sent /\ \A j \in 1 .. k - 1 : e.mgmt[j].sent
           q == e.mgmt[i]
       IN  [e EXCEPT !.mgmt[i] = [q EXCEPT !.sent = TRUE,
                                           !.holds = IF q.op = "PairingOpen" THEN PickupTicks ELSE -1],
                     !.out = Append(@, q)]

queue_mgmt(e, q) ==
  send_next_mgmt([e EXCEPT !.mgmt = Append(@, [q EXCEPT !.id = e.next]), !.next = @ + 1])

end_pairing(e, id) == IF id # 0 /\ e.pair = id THEN [e EXCEPT !.pair = 0] ELSE e

\* An op that will never be answered: its window closes, its mirrored change is listed
\* again, its client is told.
fail_op(e, q) ==
  LET e1 == IF q.op = "PairingOpen" THEN end_pairing(e, q.id)
            ELSE IF q.op = "NodeUpdate" /\ e.up THEN queue_mgmt(e, NodeListReq)
            ELSE e
  IN  respond(e1, q.rpc)

issue(e, q) == IF e.up THEN queue_mgmt(e, q) ELSE fail_op(e, q)

pendingOp(e, op) == \E i \in DOMAIN e.mgmt : e.mgmt[i].op = op

\* The requests of ps that were sent, in their order.
sent_of(ps) ==
  LET kept[n \in 0 .. Len(ps)] ==
        IF n = 0 THEN <<>> ELSE IF ps[n].sent THEN Append(kept[n - 1], ps[n]) ELSE kept[n - 1]
  IN  kept[Len(ps)]

\* Slip: what waited for the slot when the link dropped is forgotten.
Fault_fail_unsent_mgmt(e) == [e EXCEPT !.mgmt = sent_of(@)]

fail_unsent_mgmt(e) ==
  LET ps == e.mgmt
      done[n \in 0 .. Len(ps)] ==
        IF n = 0 THEN [e EXCEPT !.mgmt = sent_of(ps)]
        ELSE IF ps[n].sent THEN done[n - 1] ELSE fail_op(done[n - 1], ps[n])
  IN  done[Len(ps)]

-----------------------------------------------------------------------------
(* The mirror *)

provisional_node(e, n, name) ==
  IF n \in DOMAIN e.nodes THEN e
  ELSE [e EXCEPT !.nodes = With(@, n, Row(name, name = NoName))]

\* Slip: a listing that predates a pending rename replaces the mirrored name.
Fault_merge_registry(e, list) ==
  [e EXCEPT !.nodes = [n \in DOMAIN list |->
     [list[n] EXCEPT !.last = IF n \in DOMAIN e.nodes THEN e.nodes[n].last ELSE 0]]]

\* A listing replaces the mirror; a row whose update still waits keeps its name.
merge_registry(e, list) ==
  LET updating == {e.mgmt[i].node : i \in {j \in DOMAIN e.mgmt : e.mgmt[j].op = "NodeUpdate"}}
  IN  [e EXCEPT !.nodes = [n \in DOMAIN list |->
         IF n \notin DOMAIN e.nodes THEN list[n]
         ELSE IF n \in updating THEN e.nodes[n]
         ELSE [list[n] EXCEPT !.last = e.nodes[n].last]]]

\* A heartbeat names an unnamed node, or passes its changed flag on; the mirror takes the
\* update only once it is queued.
on_node_info(e, n, power) ==
  LET name == IF e.nodes[n].unnamed THEN auto_name(e.nodes) ELSE NoName
      e1 == issue(e, UpdateReq(n, name, power, 0))
  IN  IF n \notin DOMAIN e.nodes \/ (~e.nodes[n].unnamed /\ e.nodes[n].power = power) THEN e
      ELSE IF ~e.up THEN e1
      ELSE IF e.nodes[n].unnamed
           THEN [e1 EXCEPT !.nodes[n].name = name, !.nodes[n].unnamed = FALSE, !.nodes[n].power = power]
           ELSE [e1 EXCEPT !.nodes[n].power = power]

drop_unregistered(e, n) ==
  IF n \in e.unreg THEN e ELSE issue([e EXCEPT !.unreg = @ \cup {n}], NodeListReq)

on_uplink(e, u) ==
  IF u.node \notin DOMAIN e.nodes
  THEN IF e.synced THEN drop_unregistered(e, u.node)
       ELSE IF Len(e.held) < HeldUplinks THEN [e EXCEPT !.held = Append(@, u)] ELSE e
  ELSE IF e.nodes[u.node].last # 0 /\ u.ctr <= e.nodes[u.node].last THEN e
  ELSE on_node_info([e EXCEPT !.nodes[u.node].last = u.ctr], u.node, u.power)

\* A join is mirrored, published and listed.
on_paired(e, n) ==
  issue([provisional_node(e, n, NoName) EXCEPT !.told = @ \cup {n}], NodeListReq)

-----------------------------------------------------------------------------
(* Answers of the dongle *)

\* The uplinks us, in their order.
on_uplinks(e, us) ==
  LET done[n \in 0 .. Len(us)] == IF n = 0 THEN e ELSE on_uplink(done[n - 1], us[n])
  IN  done[Len(us)]

\* Listings: one with a lost chunk is asked for again, a few times in a row; the first
\* whole one lets the held uplinks through.
on_listed(e, q, m) ==
  IF ~m.whole
  THEN LET e1 == respond([e EXCEPT !.gaps = @ + 1], q.rpc) IN
       IF e1.gaps <= GapRetries /\ ~pendingOp(e1, "NodeList") THEN issue(e1, NodeListReq) ELSE e1
  ELSE LET e1 == respond(merge_registry([e EXCEPT !.gaps = 0], m.list), q.rpc) IN
       IF e1.synced THEN e1
       ELSE on_uplinks([e1 EXCEPT !.synced = TRUE, !.held = <<>>], e1.held)

\* The window's answer: a join.
on_window_done(e, q, m) == respond(on_paired(end_pairing(e, q.id), m.node), q.rpc)

\* A refusal: the window is over; a mirrored change is listed again; the client is told.
on_refused(e, q) ==
  LET e1 == respond(IF q.op = "PairingOpen" THEN end_pairing(e, q.id) ELSE e, q.rpc)
  IN  IF q.op = "NodeUpdate" THEN issue(e1, NodeListReq) ELSE e1

on_mgmt_done(e, q, m) ==
  CASE ~m.ok -> on_refused(e, q)
    [] q.op = "NodeList" /\ m.ok -> on_listed(e, q, m)
    [] q.op = "NodeAdd" /\ m.ok ->
         LET e1 == provisional_node(e, q.node, q.name)
         IN  issue(respond([e1 EXCEPT !.nodes[q.node].last = 0], q.rpc), NodeListReq)
    [] q.op = "NodeRemove" /\ m.ok ->
         respond([e EXCEPT !.nodes = Without(@, {q.node})], q.rpc)
    [] q.op = "NodeUpdate" /\ m.ok -> issue(respond(e, q.rpc), NodeListReq)
    [] q.op = "PairingOpen" /\ m.ok -> on_window_done(e, q, m)
    [] q.op \in {"Query", "Describe", "PairingCancel"} /\ m.ok -> respond(e, q.rpc)

\* An answer to nobody, unless it is that of the window this side gave up on.
on_mgmt_chunk(e, m) ==
  IF \E i \in DOMAIN e.mgmt : e.mgmt[i].id = m.id
  THEN LET i == CHOOSE k \in DOMAIN e.mgmt : e.mgmt[k].id = m.id
       IN  send_next_mgmt(on_mgmt_done([e EXCEPT !.mgmt = RemoveAt(@, i)], e.mgmt[i], m))
  ELSE IF e.late = m.id
  THEN LET e1 == [e EXCEPT !.late = 0] IN IF m.ok THEN on_paired(e1, m.node) ELSE e1
  ELSE e

\* Hello of a new session: describe and list again.
on_hello(e) == issue(issue(e, Req("Describe", 0, NoName, 0)), NodeListReq)

on_serial(e, m) ==
  CASE m.type = "answer" -> on_mgmt_chunk(e, m)
    [] m.type = "uplink" -> on_uplink(e, m)
    [] m.type = "hello" -> on_hello(e)

-----------------------------------------------------------------------------
(* Requests of the clients *)

check_name(e, name, n) == \A m \in DOMAIN e.nodes \ {n} : e.nodes[m].name # name

\* The registry's operations.  A rename is mirrored as soon as it is queued.
on_node_rpc(e, r, id) ==
  CASE r.op = "node_list" -> issue(e, Req("NodeList", 0, NoName, id))
    [] r.op = "node_add" ->
         IF r.name # NoName /\ ~check_name(e, r.name, r.node) THEN respond(e, id)
         ELSE issue(e, Req("NodeAdd", r.node, r.name, id))
    [] r.op = "node_remove" -> issue(e, Req("NodeRemove", r.node, NoName, id))
    [] r.op = "node_rename" ->
         IF r.node \notin DOMAIN e.nodes \/ ~check_name(e, r.name, r.node) THEN respond(e, id)
         ELSE LET e1 == issue(e, UpdateReq(r.node, r.name, e.nodes[r.node].power, id))
              IN  IF e.up THEN [e1 EXCEPT !.nodes[r.node].name = r.name,
                                          !.nodes[r.node].unnamed = FALSE] ELSE e1

\* The pairing window, and what is passed through (describe, reveal_key, queue_list,
\* stats_config): one window at a time, also while a cancelled one still closes.
on_gateway_rpc(e, r, id) ==
  CASE r.op = "query" -> issue(e, Req("Query", 0, NoName, id))
    [] r.op = "node_add_ota" ->
         IF e.pair # 0 \/ pendingOp(e, "PairingOpen") THEN respond(e, id)
         ELSE LET e1 == issue(e, Req("PairingOpen", 0, NoName, id))
              IN  IF e.up THEN [e1 EXCEPT !.pair = e.next] ELSE e1
    [] r.op = "pairing_cancel" ->
         issue([e EXCEPT !.pair = 0], Req("PairingCancel", 0, NoName, id))

on_rpc(e, r, id) ==
  IF r.op \in {"query", "node_add_ota", "pairing_cancel"}
  THEN on_gateway_rpc(e, r, id) ELSE on_node_rpc(e, r, id)

\* A request id is remembered; one that is remembered is a redelivery.
accept_request_id(e, id) == \A i \in DOMAIN e.recent : e.recent[i] # id

remember(e, id) ==
  [e EXCEPT !.recent = Append(IF Len(@) >= RecentIds THEN Tail(@) ELSE @, id)]

\* A second less for every request that was sent.
aged(e) ==
  [e EXCEPT !.mgmt = [i \in DOMAIN e.mgmt |->
     IF ~e.mgmt[i].sent THEN e.mgmt[i]
     ELSE [e.mgmt[i] EXCEPT !.left = @ - 1, !.holds = IF @ > 0 THEN @ - 1 ELSE @]]]

\* Request i was not answered in time; the window's answer may still come.
expire(e, i) ==
  fail_op([e EXCEPT !.mgmt = RemoveAt(@, i),
                    !.late = IF e.mgmt[i].op = "PairingOpen" THEN e.mgmt[i].id ELSE @], e.mgmt[i])

\* Those whose time is up, the youngest first.
expire_all(e) ==
  LET ps == e.mgmt
      done[n \in 0 .. Len(ps)] ==
        IF n = 0 THEN e
        ELSE LET i == Len(ps) - n + 1
             IN  IF ps[i].sent /\ ps[i].left = 0 THEN expire(done[n - 1], i) ELSE done[n - 1]
  IN  done[Len(ps)]

\* Until the first listing, it is asked for again.
on_tick(e) ==
  LET e1 == send_next_mgmt(expire_all(aged(e)))
  IN  IF ~e1.synced /\ e1.up /\ ~pendingOp(e1, "NodeList") THEN issue(e1, NodeListReq) ELSE e1

-----------------------------------------------------------------------------
(* The serial link and the dongle *)

\* A step of the engine to e; what it sent reaches the inbox, or is dropped by a full one.
Engine(e, ticks) ==
  /\ eng.next <= plan.reqs
  /\ eng' = [e EXCEPT !.out = <<>>]
  /\ IF e.out = <<>> \/ inbox # <<>>
     THEN inbox' = inbox /\ age' = IF inbox = <<>> THEN 0 ELSE age + ticks
     ELSE inbox' = <<Head(e.out)>> /\ age' = 0

\* One second: the dongle's loop takes a request before BusyTicks, whatever it is busy with (a
\* compaction, a pairing slice and its commit), and ends its window soon after its time.
EngTick ==
  /\ inbox # <<>> => age < BusyTicks - 1
  /\ window # 0 => winAge < WindowTicks + LateTicks
  /\ wire # <<>> => delay < MaxDelay
  /\ delay' = IF wire # <<>> THEN delay + 1 ELSE 0
  /\ winAge' = IF window # 0 THEN winAge + 1 ELSE 0
  /\ Engine(on_tick(eng), 1)
  /\ stale' = (stale \/ \E i \in DOMAIN eng.mgmt :
                  eng.mgmt[i].sent /\ eng.mgmt[i].left = 1
                  /\ eng.mgmt[i].op \in {"NodeList", "NodeAdd", "NodeRemove"})
  /\ UNCHANGED <<reg, window, wire, posted, retained, upCtr, losses, silent, chosen>>

\* A client posts its request, which the broker may also store.
Post(id, r, keep) ==
  /\ id <= Len(plan.kinds) /\ r.op \in plan.kinds[id] /\ r.node \in plan.nodes \cup {0} /\ (keep => plan.stored)
  /\ posted[id] = <<>> /\ (\A i \in Rpcs : i < id => posted[i] # <<>>)
  /\ posted' = [posted EXCEPT ![id] = <<r>>]
  /\ retained' = IF keep THEN retained \cup {id} ELSE retained
  /\ IF accept_request_id(eng, id) THEN Engine(on_rpc(remember(eng, id), r, id), 0) ELSE Engine(eng, 0)
  /\ chosen' = IF r.op \in {"node_rename", "node_add", "node_remove"}
               THEN [chosen EXCEPT ![r.node] = NoName] ELSE chosen
  /\ UNCHANGED <<reg, window, wire, upCtr, losses, silent, delay, winAge, stale>>

\* The broker delivers a request again: the last ones (QoS 1), or the stored ones on a
\* new subscription, which are refused and cleared.
Redeliver(id) ==
  /\ posted[id] # <<>>
  /\ \E i \in DOMAIN eng.recent : eng.recent[i] = id
  /\ IF accept_request_id(eng, id)
     THEN Engine(on_rpc(remember(eng, id), posted[id][1], id), 0) ELSE Engine(eng, 0)
  /\ UNCHANGED <<reg, window, wire, posted, retained, upCtr, losses, silent, delay, winAge, stale, chosen>>

Replay(id) ==
  /\ id \in retained /\ retained' = retained \ {id}
  /\ Engine(eng, 0)
  /\ UNCHANGED <<reg, window, wire, posted, upCtr, losses, silent, delay, winAge, stale, chosen>>

\* The answer tells a client that its rename of n is done, and no other change of n waits.
confirms(m, n) ==
  /\ m.type = "answer" /\ m.ok
  /\ \E i \in DOMAIN eng.mgmt :
       /\ eng.mgmt[i].id = m.id /\ eng.mgmt[i].op = "NodeUpdate"
       /\ eng.mgmt[i].node = n /\ eng.mgmt[i].rpc # 0
       /\ \A j \in DOMAIN eng.mgmt \ {i} : eng.mgmt[j].node # n

\* The name that the request answered by m asked for.
asked(m) == eng.mgmt[CHOOSE i \in DOMAIN eng.mgmt : eng.mgmt[i].id = m.id].name

Receive ==
  /\ wire # <<>> /\ wire' = Tail(wire)
  /\ delay' = IF Tail(wire) = <<>> THEN 0 ELSE delay
  /\ LET m == Head(wire)
         e == on_serial(eng, m)
     IN  /\ Engine(e, 0)
         /\ silent' = (silent \/ (m.type = "answer" /\ m.ok /\ m.node # 0 /\ m.node \notin e.told))
         /\ chosen' = [n \in Addrs |-> IF chosen[n] # Void /\ confirms(m, n) THEN asked(m) ELSE chosen[n]]
  /\ UNCHANGED <<reg, window, posted, retained, upCtr, losses, winAge, stale>>

SerialDown ==
  /\ eng.up /\ losses < plan.losses /\ losses' = losses + 1
  /\ Engine(fail_unsent_mgmt([eng EXCEPT !.up = FALSE]), 0)
  /\ wire' = <<>> /\ delay' = 0 /\ stale' = TRUE
  /\ UNCHANGED <<reg, window, posted, retained, upCtr, silent, winAge, chosen>>

SerialUp ==
  /\ ~eng.up
  /\ LET e == [eng EXCEPT !.up = TRUE] IN
     Engine(issue(issue(issue(e, Req("Describe", 0, NoName, 0)), Req("Query", 0, NoName, 0)),
                  NodeListReq), 0)
  /\ stale' = FALSE
  /\ UNCHANGED <<reg, window, wire, posted, retained, upCtr, losses, silent, delay, winAge, chosen>>

Answer(q, ok, node, list, whole) ==
  [type |-> "answer", id |-> q.id, ok |-> ok, node |-> node, list |-> list, whole |-> whole]

\* The dongle writes a frame; its console may lose one, or a chunk of a listing.
Write(m) ==
  \/ wire' = (IF eng.up THEN Append(wire, m) ELSE wire)
     /\ UNCHANGED <<losses, stale>>
  \/ /\ losses < plan.losses /\ losses' = losses + 1 /\ stale' = TRUE
     /\ \/ UNCHANGED wire
        \/ /\ eng.up /\ m.type = "answer" /\ DOMAIN m.list # {}
           /\ wire' = Append(wire, [m EXCEPT !.whole = FALSE])

\* The main loop takes the request: a registry change, a listing, the window.
Take ==
  /\ inbox # <<>> /\ inbox' = <<>> /\ age' = 0
  /\ LET q == Head(inbox) IN
     CASE q.op \in {"Query", "Describe"} ->
            Write(Answer(q, TRUE, 0, <<>>, TRUE)) /\ UNCHANGED <<reg, window>>
       [] q.op = "NodeList" -> Write(Answer(q, TRUE, 0, reg, TRUE)) /\ UNCHANGED <<reg, window>>
       [] q.op = "NodeAdd" ->
            /\ reg' = With(reg, q.node, Row(q.name, q.name = NoName))
            /\ Write(Answer(q, TRUE, 0, <<>>, TRUE)) /\ UNCHANGED window
       [] q.op = "NodeRemove" ->
            /\ reg' = Without(reg, {q.node})
            /\ Write(Answer(q, q.node \in DOMAIN reg, 0, <<>>, TRUE)) /\ UNCHANGED window
       [] q.op = "NodeUpdate" ->
            /\ reg' = IF q.node \notin DOMAIN reg THEN reg
                      ELSE With(reg, q.node,
                             [Row(IF q.name = NoName THEN reg[q.node].name ELSE q.name, FALSE)
                                EXCEPT !.power = IF q.asleep THEN "asleep" ELSE "awake"])
            /\ Write(Answer(q, q.node \in DOMAIN reg, 0, <<>>, TRUE)) /\ UNCHANGED window
       [] q.op = "PairingOpen" ->
            IF window = 0 THEN window' = q.id /\ UNCHANGED <<reg, wire, losses, stale>>
            ELSE Write(Answer(q, FALSE, 0, <<>>, TRUE)) /\ UNCHANGED <<reg, window>>
       [] q.op = "PairingCancel" ->
            IF window = 0 THEN Write(Answer(q, TRUE, 0, <<>>, TRUE)) /\ UNCHANGED <<reg, window>>
            ELSE /\ window' = 0 /\ UNCHANGED <<reg, losses, stale>>
                 /\ wire' = IF eng.up THEN wire \o <<Answer([q EXCEPT !.id = window], FALSE, 0, <<>>, TRUE),
                                                     Answer(q, TRUE, 0, <<>>, TRUE)>> ELSE wire
  /\ winAge' = IF window = 0 THEN 0 ELSE winAge
  /\ chosen' = IF Head(inbox).op = "NodeAdd" THEN [chosen EXCEPT ![Head(inbox).node] = Void] ELSE chosen
  /\ UNCHANGED <<eng, posted, retained, upCtr, silent, delay>>

\* The window ends: a node joined, or none did.
WindowEnds ==
  /\ window # 0 /\ window' = 0
  /\ \/ \E n \in Addrs \ DOMAIN reg :
          /\ reg' = With(reg, n, Row(NoName, TRUE))
          /\ Write(Answer([id |-> window], TRUE, n, <<>>, TRUE))
          /\ chosen' = [chosen EXCEPT ![n] = Void]
     \/ Write(Answer([id |-> window], FALSE, 0, <<>>, TRUE)) /\ UNCHANGED <<reg, chosen>>
  /\ UNCHANGED <<eng, inbox, age, posted, retained, upCtr, silent, delay, winAge>>

\* A registered node's heartbeat is forwarded.
Uplink(n, power) ==
  /\ n \in DOMAIN reg /\ n \in plan.nodes /\ upCtr[n] < plan.uplinks /\ upCtr' = [upCtr EXCEPT ![n] = @ + 1]
  /\ wire' = IF eng.up THEN Append(wire, [type |-> "uplink", node |-> n, ctr |-> upCtr[n] + 1, power |-> power])
            ELSE wire
  /\ UNCHANGED <<eng, inbox, age, reg, window, posted, retained, losses, silent, delay, winAge, stale, chosen>>

\* RAM is lost: the window, the request not yet taken.  The registry is in EEPROM.
DongleReboot ==
  /\ losses < plan.losses /\ losses' = losses + 1
  /\ inbox' = <<>> /\ age' = 0 /\ window' = 0
  /\ wire' = IF eng.up THEN Append(wire, [type |-> "hello"]) ELSE wire
  /\ UNCHANGED <<eng, reg, posted, retained, upCtr, silent, delay, winAge, stale, chosen>>

-----------------------------------------------------------------------------
\* The plans of the runs.
Plan(kinds, nodes, uplinks, lost, kept, n) ==
  [kinds |-> kinds, nodes |-> nodes, uplinks |-> uplinks, losses |-> lost, stored |-> kept, reqs |-> n]
RegistryKinds == {"node_list", "node_add", "node_rename", "node_remove"}
AllKinds == RegistryKinds \cup {"node_add_ota", "pairing_cancel"}
MCPlans ==
  {Plan(<<RegistryKinds, RegistryKinds>>, {1, 2}, 1, 0, FALSE, 6), Plan(<<AllKinds, AllKinds>>, {1, 2}, 0, 1, FALSE, 6),
   Plan(<<{"node_rename", "node_add_ota"}>>, {1, 2}, 1, 1, TRUE, 6),
   Plan(<<{"node_remove"}, {"node_add_ota"}, {"node_rename"}>>, {1}, 1, 0, FALSE, 8)}
MCAddPlans == {Plan(<<{"node_add"}, {"node_add"}>>, {1, 2}, 1, 0, FALSE, 7)}

\* Engine::new and start, over a dongle with some nodes.
EngInit ==
  LET fresh == [up |-> TRUE, mgmt |-> <<>>, next |-> 1, nodes |-> <<>>, synced |-> FALSE,
                gaps |-> 0, held |-> <<>>, recent |-> <<>>, unreg |-> {}, pair |-> 0,
                late |-> 0, out |-> <<>>, answers |-> [r \in Rpcs |-> 0], told |-> {}]
      e == issue(issue(fresh, NodeListReq), Req("Query", 0, NoName, 0))
  IN  /\ plan \in EngPlans
      /\ eng = [e EXCEPT !.out = <<>>] /\ inbox = SubSeq(e.out, 1, 1) /\ age = 0
      /\ reg = [n \in Registered |-> Row(NoName, TRUE)]
      /\ window = 0 /\ wire = <<>> /\ posted = [r \in Rpcs |-> <<>>] /\ retained = {}
      /\ upCtr = [n \in Addrs |-> 0] /\ losses = 0
      /\ silent = FALSE /\ stale = FALSE
      /\ winAge = 0 /\ delay = 0 /\ chosen = [n \in Addrs |-> NoName]

Requests ==
  [op : {"query", "node_list", "node_add_ota", "pairing_cancel"}, node : {0}, name : {NoName}]
    \cup [op : {"node_remove"}, node : Addrs, name : {NoName}]
    \cup [op : {"node_rename", "node_add"}, node : Addrs, name : OpNames]

Steps ==
  \/ EngTick \/ Receive \/ SerialDown \/ SerialUp \/ Take \/ WindowEnds \/ DongleReboot
  \/ \E id \in Rpcs :
       \/ \E r \in Requests, keep \in BOOLEAN : Post(id, r, keep)
       \/ Redeliver(id)
       \/ Replay(id)
  \/ \E n \in Addrs, p \in {"awake", "asleep"} : Uplink(n, p)

EngNext == Steps /\ UNCHANGED plan

EngSpec == EngInit /\ [][EngNext]_engVars

-----------------------------------------------------------------------------
(* Properties *)

(* Every request a client makes is answered once: never twice, though the  *)
(* broker delivers it again, stored or not, and never dropped: until its   *)
(* answer it is among the requests that the clock will end, also when the  *)
(* dongle was too busy to take it or its full inbox dropped it             *)
(* (accept_request_id, on_mqtt, fail_unsent_mgmt, fail_op, on_tick).       *)
EachRpcOnce ==
  \A id \in Rpcs :
    /\ eng.answers[id] <= 1
    /\ posted[id] # <<>> /\ eng.answers[id] = 0 =>
         \E i \in DOMAIN eng.mgmt : eng.mgmt[i].rpc = id

(* A node that joined is never registered without a word: the answer of    *)
(* its window is published also when the engine had given the window up    *)
(* or the operator had cancelled it (on_late_pairing, end_pairing).        *)
JoinsAreTold == ~silent

RequestsSettle == EachRpcOnce /\ JoinsAreTold

(* A name the operator was told is set stays: no heartbeat that crosses    *)
(* the rename, no changed flag and no listing that predates it lets        *)
(* another name over it, unless the node was registered anew while the     *)
(* rename was under way (merge_registry, on_node_info, on_rpc node_rename). *)
OperatorNameStays ==
  \A n \in DOMAIN reg : chosen[n] \notin {NoName, Void} => reg[n].name = chosen[n]

(* When all is answered, and nothing was lost since the link came up, the  *)
(* mirror is the dongle's registry.                                        *)
MirrorSettles ==
  eng.up /\ eng.mgmt = <<>> /\ wire = <<>> /\ inbox = <<>> /\ ~stale =>
    /\ DOMAIN eng.nodes = DOMAIN reg
    /\ \A n \in DOMAIN reg : [eng.nodes[n] EXCEPT !.last = 0] = [reg[n] EXCEPT !.last = 0]

(* What check_name says of the names of two nodes: "and unique: name       *)
(* lookup takes the first match, so a duplicate would silently shadow ...  *)
(* one of the two".  A name is checked against the mirror, which a         *)
(* node_add enters only when it is answered, and which is empty until the  *)
(* first listing.                                                          *)
NamesUnique ==
  \A m, n \in DOMAIN reg : m # n /\ reg[m].name \in OpNames => reg[m].name # reg[n].name

MirrorHonest == OperatorNameStays /\ MirrorSettles
=============================================================================
