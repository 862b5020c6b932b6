--------------------------- MODULE GatewayService ---------------------------
(***************************************************************************)
(* The process of `tower gateway` around its engine: the checks before     *)
(* anything is opened (gateway/mod.rs), the broker link (gateway/mqtt.rs), *)
(* the serial thread (gateway/serial.rs) and the log of the service        *)
(* (gateway/service.rs).  Threads meet in the engine's input queue.        *)
(*                                                                         *)
(* The engine is reduced to what it publishes: retained topics, events and *)
(* diagnostics.  It never blocks on the broker: what the client's request  *)
(* channel refuses is coalesced, held or shed by the Publisher.            *)
(* The MQTT client library and the broker are external.                    *)
(***************************************************************************)
EXTENDS Integers, Sequences, SequencesExt, FiniteSetsExt

CONSTANTS
  ReqCap,      (* REQUEST_CAP: requests the client's channel holds         *)
  Inflight,    (* requests the client has sent and keeps until their ack   *)
  BacklogCap,  (* BACKLOG_CAP                                              *)
  SvcWorlds    (* bounds, a record each: ops, steps of the engine that     *)
               (* publish; flaps, changes of the broker link; edges, of    *)
               (* the serial link and the device's firmware                *)

VARIABLES
  conf,      (* the command line and environment, until the threads start  *)
  stage,     (* how far run() is, or the code it exits with                *)
  probes,    (* Describe attempts                                          *)
  hosted,    (* what the embedded broker serves, or <<>>                   *)
  pub,       (* the Publisher and the client's request channel             *)
  link,      (* the connection to the broker is up                         *)
  mq,        (* the mqtt thread: was_up, last_err                          *)
  ser,       (* the serial thread: up, foreign                             *)
  inq,       (* inputs the engine has not handled                          *)
  todo,      (* the outputs of the engine's step not yet executed          *)
  world,     (* the engine's last value of each retained topic             *)
  serialUp,  (* the engine's view of the serial link                       *)
  brk,       (* broker: retained values, the events heard, subscriptions   *)
  nev,       (* events published so far                                    *)
  lost,      (* history: disconnects, and topics whose value one of them cut *)
  diagShed,  (* history: diagnostics shed                                  *)
  told,      (* history: mismatch reports since the last matching Hello    *)
  ops, flaps, edges  (* what is left of the bounds                         *)

svcVars == <<conf, stage, probes, hosted, pub, link, mq, ser, inq, todo, world, serialUp, brk, nev, lost,
             diagShed, told, ops, flaps, edges>>

Retained == {"status", "node", "temperature"}
Filters == {"gateway/cmd", "shell/req"}

-----------------------------------------------------------------------------
(* Before the threads: configuration, role probe, broker *)

Confs == [prefixOk : BOOLEAN, user : {"none", "empty", "set"}, password : {"none", "env", "argv"},
          external : BOOLEAN, filesOk : BOOLEAN, loopback : BOOLEAN, tls : BOOLEAN, plaintext : BOOLEAN]

\* A login, "none" for anonymous, or "refused".
pair_credentials(c) ==
  CASE c.user = "empty" -> "refused"
    [] c.user = "set" -> IF c.password = "none" THEN "refused" ELSE "login"
    [] OTHER -> IF c.password = "argv" THEN "refused" ELSE "none"

broker_access(c) ==
  c.loopback \/ (pair_credentials(c) = "login" /\ (c.tls \/ c.plaintext))

configOk(c) ==
  /\ c.prefixOk /\ pair_credentials(c) # "refused" /\ c.filesOk
  /\ c.external \/ broker_access(c)

keepStart == UNCHANGED <<pub, link, mq, ser, inq, todo, world, serialUp, brk, nev, lost, diagShed, told,
                       ops, flaps, edges>>

CheckConfig ==
  /\ stage = "config"
  /\ stage' = IF configOk(conf) THEN "verify" ELSE "error"
  /\ UNCHANGED <<conf, probes, hosted>> /\ keepStart

\* gate_describe on one answer; a mute device gets a second attempt.
verify_gateway(outcome) ==
  /\ stage = "verify" /\ probes' = probes + 1
  /\ stage' = CASE outcome = "gateway" -> "broker"
                [] outcome \in {"other role", "refused"} -> "wrong firmware"
                [] outcome = "mismatch" -> "protocol mismatch"
                [] outcome = "failed" -> "error"
                [] outcome = "timeout" -> IF probes = 1 THEN "device timeout" ELSE "verify"
  /\ UNCHANGED <<conf, hosted>> /\ keepStart

\* The embedded broker serves, or its port is taken; with TLS the public port is the
\* front end's and the gateway's own client has a loopback listener.
embedded_broker(bound) ==
  /\ stage = "broker"
  /\ IF conf.external THEN stage' = "start" /\ UNCHANGED hosted
     ELSE IF bound
     THEN /\ stage' = "start"
          /\ hosted' = <<[loopback |-> conf.loopback, login |-> pair_credentials(conf) = "login",
                          clear |-> ~conf.tls, accepted |-> conf.plaintext]>>
     ELSE stage' = "error" /\ UNCHANGED hosted
  /\ UNCHANGED <<conf, probes>> /\ keepStart

StartThreads ==
  /\ stage = "start" /\ stage' = "running"
  /\ conf' = <<>> /\ hosted' = <<>> /\ probes' = 0
  /\ keepStart

-----------------------------------------------------------------------------
(* The Publisher *)

Sub(f) == [kind |-> "sub", topic |-> f, value |-> 0]
Ret(t, v) == [kind |-> "retained", topic |-> t, value |-> v]
Event(n) == [kind |-> "event", topic |-> "event", value |-> n]
Diagnostic == [kind |-> "diagnostic", topic |-> "radio", value |-> 0]

room(p) == ReqCap - Len(p.chan)

try(p, m) == [p EXCEPT !.chan = Append(@, m)]

\* The recovery note, once nothing is held.
sent(p) ==
  IF p.dropped > 0 /\ p.retained = <<>> /\ p.backlog = <<>>
  THEN [p EXCEPT !.noted = @ + p.dropped, !.dropped = 0] ELSE p

shed(p) == [p EXCEPT !.dropped = @ + 1]

\* The first k of what is held move to the channel.
moved(p, held, k) == [p EXCEPT !.chan = @ \o SubSeq(held, 1, k)]
rest(held, k) == SubSeq(held, k + 1, Len(held))

flush(p) ==
  LET ks == Min({room(p), Len(p.subs)})
      p1 == [moved(p, p.subs, ks) EXCEPT !.subs = rest(@, ks)]
      kr == Min({room(p1), Len(p1.retained)})
      p2 == [moved(p1, p1.retained, kr) EXCEPT !.retained = rest(@, kr)]
      kb == IF p2.retained = <<>> THEN Min({room(p2), Len(p2.backlog)}) ELSE 0
      p3 == [moved(p2, p2.backlog, kb) EXCEPT !.backlog = rest(@, kb)]
  IN  IF kr + kb > 0 THEN sent(p3) ELSE p3

subscribe(p, m) ==
  IF p.subs = <<>> /\ room(p) > 0 THEN try(p, m)
  ELSE IF \E i \in DOMAIN p.subs : p.subs[i] = m THEN p
  ELSE [p EXCEPT !.subs = Append(@, m)]

\* Slip: a value that finds the channel full is shed, as a diagnostic is.
Fault_publishRetained(p, m) ==
  IF p.retained = <<>> /\ room(p) > 0 THEN sent(try(p, m)) ELSE shed(p)

publishRetained(p, m) ==
  IF p.retained = <<>> /\ room(p) > 0 THEN sent(try(p, m))
  ELSE [p EXCEPT !.retained = Append(SelectSeq(@, LAMBDA x : x.topic # m.topic), m)]

publishDiagnostic(p, m) ==
  IF ~p.link THEN p ELSE IF room(p) > 0 THEN sent(try(p, m)) ELSE shed(p)

publishEvent(p, m) ==
  IF p.backlog = <<>> /\ room(p) > 0 THEN sent(try(p, m))
  ELSE LET q == IF Len(p.backlog) >= BacklogCap THEN shed([p EXCEPT !.backlog = Tail(@)]) ELSE p
       IN  [q EXCEPT !.backlog = Append(@, m)]

\* One output offered to the channel, after the flush that starts every one of them.
publish(p, m) ==
  CASE m.kind = "sub" -> subscribe(p, m)
    [] m.kind = "retained" -> publishRetained(p, m)
    [] m.kind = "diagnostic" -> publishDiagnostic(p, m)
    [] m.kind = "event" -> publishEvent(p, m)

keepLinks == UNCHANGED <<conf, stage, probes, hosted, link, mq, ser, flaps, edges, told>>

\* The engine's thread executes its outputs, while the mqtt thread takes from the channel
\* at any time: the flush and the offer that follows are two steps.
Flush ==
  /\ todo # <<>> /\ ~pub.flushed
  /\ pub' = [flush(pub) EXCEPT !.flushed = TRUE]
  /\ UNCHANGED <<inq, todo, world, serialUp, brk, nev, lost, diagShed, ops>> /\ keepLinks

execute ==
  /\ todo # <<>> /\ pub.flushed /\ todo' = Tail(todo)
  /\ pub' = [publish(pub, Head(todo)) EXCEPT !.flushed = FALSE]
  /\ diagShed' = IF Head(todo).kind = "diagnostic" /\ pub.link /\ room(pub) = 0
                 THEN diagShed + 1 ELSE diagShed
  /\ lost' = [lost EXCEPT !.topics = @ \ {Head(todo).topic}]
  /\ UNCHANGED <<inq, world, serialUp, brk, nev, ops>> /\ keepLinks

-----------------------------------------------------------------------------
(* The engine: what it publishes *)

\* A step of the engine: its outputs, and the values it leaves.
Publishes(outputs, w) ==
  /\ stage = "running" /\ todo = <<>> /\ ops > 0 /\ ops' = ops - 1
  /\ todo' = outputs /\ world' = w
  /\ UNCHANGED <<pub, inq, serialUp, brk, lost, diagShed>> /\ keepLinks

\* A registered node changes, leaves, measures; it clicks; the radio reports.
publish_node ==
  /\ Publishes(<<Ret("node", ops)>>, [world EXCEPT !["node"] = ops]) /\ UNCHANGED nev

node_gone ==
  /\ world["node"] # 0
  /\ Publishes(<<Ret("node", 0), Ret("temperature", 0)>>,
               [world EXCEPT !["node"] = 0, !["temperature"] = 0])
  /\ UNCHANGED nev

on_temperature ==
  /\ world["node"] # 0
  /\ Publishes(<<Diagnostic, Ret("temperature", ops)>>, [world EXCEPT !["temperature"] = ops])
  /\ UNCHANGED nev

on_button == Publishes(<<Event(nev + 1)>>, world) /\ nev' = nev + 1

on_radio_stat == Publishes(<<Diagnostic>>, world) /\ UNCHANGED nev

status(up) == IF up THEN 1 ELSE 2

\* MqttUp: the subscriptions and the retained world, its measurements excepted.
onMqttUp ==
  <<Sub("gateway/cmd"), Sub("shell/req"), Ret("status", status(serialUp))>>
    \o (IF world["node"] # 0 THEN <<Ret("node", world["node"])>> ELSE <<>>)

\* The engine takes its next input; a Tick only flushes.
TakeInput ==
  /\ stage = "running" /\ todo = <<>> /\ inq # <<>> /\ inq' = Tail(inq)
  /\ LET i == Head(inq)
         s == CASE i = "SerialUp" -> TRUE [] i = "SerialDown" -> FALSE [] OTHER -> serialUp
     IN  /\ pub' = CASE i = "MqttUp" -> [pub EXCEPT !.link = TRUE]
                     [] i = "MqttDown" -> [pub EXCEPT !.link = FALSE]
                     [] OTHER -> pub
         /\ todo' = CASE i = "MqttUp" -> onMqttUp
                      [] i \in {"SerialUp", "SerialDown", "Hello"} -> <<Ret("status", status(s))>>
                      [] OTHER -> <<>>
         /\ world' = [world EXCEPT !["status"] = status(s)]
         /\ serialUp' = s
  /\ UNCHANGED <<brk, nev, lost, diagShed, ops>> /\ keepLinks

SvcTick ==
  /\ stage = "running" /\ todo = <<>> /\ pub' = flush(pub)
  /\ UNCHANGED <<inq, todo, world, serialUp, brk, nev, lost, diagShed, ops>> /\ keepLinks

-----------------------------------------------------------------------------
(* The mqtt thread and the broker *)

keepEngine == UNCHANGED <<conf, stage, probes, hosted, todo, world, serialUp, nev, diagShed, ops, edges, told>>

\* The client writes the next request of its channel, and keeps it until it is acknowledged.
EventLoopSends ==
  /\ link /\ pub.chan # <<>> /\ Len(pub.wire) < Inflight
  /\ pub' = [pub EXCEPT !.chan = Tail(@), !.wire = Append(@, Head(pub.chan))]
  /\ UNCHANGED <<link, mq, ser, inq, brk, lost, flaps>> /\ keepEngine

\* It reaches the broker, which acknowledges it.
Arrive ==
  /\ link /\ pub.wire # <<>>
  /\ pub' = [pub EXCEPT !.wire = Tail(@)]
  /\ LET m == Head(pub.wire) IN
     brk' = CASE m.kind = "sub" -> [brk EXCEPT !.subs = @ \cup {m.topic}]
              [] m.kind = "retained" -> [brk EXCEPT !.retained[m.topic] = m.value]
              [] m.kind = "event" -> [brk EXCEPT !.heard = Append(@, m.value)]
              [] OTHER -> brk
  /\ UNCHANGED <<link, mq, ser, inq, lost, flaps>> /\ keepEngine

\* ConnAck, on a clean session.
ConnAck ==
  /\ stage = "running" /\ ~link /\ link' = TRUE
  /\ mq' = [was_up |-> TRUE, last_err |-> ""]
  /\ inq' = Append(inq, "MqttUp") /\ brk' = [brk EXCEPT !.subs = {}]
  /\ UNCHANGED <<pub, ser, lost, flaps>> /\ keepEngine

\* The client sets aside what was unacknowledged or in its channel when a connection broke
\* and, the session being clean, forgets it at the next ConnAck.
abandon(p) == IF link THEN [p EXCEPT !.wire = <<>>, !.chan = <<>>] ELSE p

\* The retained topics of which a newer value is neither held nor to be executed.
abandoned ==
  {t \in Retained : /\ \E i \in DOMAIN (pub.wire \o pub.chan) : (pub.wire \o pub.chan)[i].topic = t
                    /\ \A i \in DOMAIN (pub.retained \o todo) : (pub.retained \o todo)[i].topic # t}

\* An error of the connection: reported on an edge, and once each.
ConnectionError(e) ==
  /\ stage = "running" /\ flaps > 0
  /\ link' = FALSE
  /\ flaps' = IF link \/ mq.last_err # e THEN flaps - 1 ELSE flaps
  /\ IF mq.was_up \/ mq.last_err # e
     THEN mq' = [was_up |-> FALSE, last_err |-> e] /\ inq' = Append(inq, "MqttDown")
     ELSE UNCHANGED <<mq, inq>>
  \* The will: the broker says offline.  A broker that restarts may have lost its store.
  /\ \/ brk' = IF link THEN [brk EXCEPT !.retained["status"] = 0] ELSE brk
     \/ brk' = [brk EXCEPT !.retained = [t \in Retained |-> 0], !.fresh = FALSE]
  /\ pub' = abandon(pub)
  /\ lost' = IF link THEN [cuts |-> lost.cuts + 1, topics |-> lost.topics \cup abandoned] ELSE lost
  /\ UNCHANGED ser /\ keepEngine

-----------------------------------------------------------------------------
(* The serial thread *)

\* What is forwarded of a frame: "hello" and "frame" of this checkout, "foreign hello" and
\* "foreign" of another.
schema_gate(foreign, m) ==
  CASE m = "foreign" -> [foreign |-> TRUE, pass |-> ~foreign]
    [] m = "foreign hello" -> [foreign |-> TRUE, pass |-> TRUE]
    [] m = "hello" -> [foreign |-> FALSE, pass |-> TRUE]
    [] OTHER -> [foreign |-> foreign, pass |-> TRUE]

\* A frame of the device; the engine logs a mismatch, and publishes its status on a Hello.
SerialRead(m) ==
  /\ stage = "running" /\ ser.up
  /\ m \in {"foreign", "foreign hello"} \/ (m = "hello" /\ ser.foreign)
  /\ edges > 0 /\ edges' = edges - 1
  /\ LET g == schema_gate(ser.foreign, m) IN
     /\ ser' = [ser EXCEPT !.foreign = g.foreign]
     /\ told' = CASE m = "hello" -> 0
                  [] m = "foreign" /\ g.pass -> told + 1
                  [] m = "foreign hello" -> Max({told, 1})
                  [] OTHER -> told
     /\ inq' = IF m = "hello" THEN Append(inq, "Hello") ELSE inq
  /\ UNCHANGED <<conf, stage, probes, hosted, pub, link, mq, todo, world, serialUp, brk, nev, lost,
                 diagShed, ops, flaps>>

SerialEdge(up) ==
  /\ stage = "running" /\ ser.up # up /\ edges > 0 /\ edges' = edges - 1
  /\ ser' = [ser EXCEPT !.up = up]
  /\ inq' = Append(inq, IF up THEN "SerialUp" ELSE "SerialDown")
  /\ UNCHANGED <<conf, stage, probes, hosted, pub, link, mq, todo, world, serialUp, brk, nev, lost,
                 diagShed, told, ops, flaps>>

-----------------------------------------------------------------------------
SvcInit ==
  /\ conf \in Confs /\ stage = "config" /\ probes = 0 /\ hosted = <<>>
  /\ pub = [link |-> FALSE, subs |-> <<>>, retained |-> <<>>, backlog |-> <<>>, dropped |-> 0,
            noted |-> 0, chan |-> <<>>, wire |-> <<>>, flushed |-> FALSE]
  /\ link = FALSE /\ mq = [was_up |-> FALSE, last_err |-> ""]
  /\ ser = [up |-> TRUE, foreign |-> FALSE] /\ inq = <<>> /\ todo = <<>>
  /\ world = [t \in Retained |-> IF t = "status" THEN 1 ELSE 0] /\ serialUp = TRUE
  /\ brk = [retained |-> [t \in Retained |-> 0], heard |-> <<>>, subs |-> {}, fresh |-> TRUE]
  /\ nev = 0 /\ lost = [cuts |-> 0, topics |-> {}] /\ diagShed = 0 /\ told = 0
  /\ \E w \in SvcWorlds : ops = w.ops /\ flaps = w.flaps /\ edges = w.edges

SvcNext ==
  \/ CheckConfig
  \/ \E o \in {"gateway", "other role", "refused", "mismatch", "failed", "timeout"} : verify_gateway(o)
  \/ \E bound \in BOOLEAN : embedded_broker(bound)
  \/ StartThreads
  \/ publish_node \/ node_gone \/ on_temperature \/ on_button \/ on_radio_stat
  \/ Flush \/ execute \/ TakeInput \/ SvcTick \/ EventLoopSends \/ Arrive \/ ConnAck
  \/ \E e \in {"refused", "reset"} : ConnectionError(e)
  \/ \E m \in {"hello", "foreign hello", "foreign"} : SerialRead(m)
  \/ \E up \in BOOLEAN : SerialEdge(up)

-----------------------------------------------------------------------------
(* Properties *)

quiet == /\ link /\ inq = <<>> /\ todo = <<>> /\ pub.chan = <<>> /\ pub.wire = <<>>
         /\ pub.subs = <<>> /\ pub.retained = <<>>

\* What handle(MqttUp) publishes again: the status, and the nodes there are.
republished(t) == t = "status" \/ (t = "node" /\ world[t] # 0)

(* Once the broker has taken all that was held, its session has both       *)
(* subscriptions and its retained topics are the engine's latest values,   *)
(* whatever was coalesced, refused or cut by a disconnect on the way.  Two *)
(* are not published again at MqttUp, and may be left behind when a        *)
(* disconnect cut them in the client's hands: a measurement, and the empty *)
(* value that clears a removed node's topics.  A measurement also misses   *)
(* on a broker that lost its store (Publisher, handle MqttUp, mqtt::run).  *)
BrokerCatchesUp ==
  quiet /\ stage = "running" =>
    /\ pub.link /\ brk.subs = Filters
    /\ \A t \in Retained :
         \/ brk.retained[t] = world[t]
         \/ ~republished(t) /\ t \in lost.topics
         \/ t = "temperature" /\ ~brk.fresh /\ brk.retained[t] = 0

(* Events reach the broker in their order and once.  Of those that do not, *)
(* the Publisher tells the operator how many it shed; it does not know of  *)
(* the ones the client had taken when a connection broke, which are at     *)
(* most the channel and the unacknowledged requests of each disconnect: an *)
(* outage, however long, costs no more (publish, flush, shed, mqtt::run).  *)
EventsAccounted ==
  LET taken == SelectSeq(pub.wire \o pub.chan, LAMBDA m : m.kind = "event")
      waits == SelectSeq(todo, LAMBDA m : m.kind = "event")
      held == [i \in 1 .. Len(taken) + Len(pub.backlog) + Len(waits) |->
                 (taken \o pub.backlog \o waits)[i].value]
      all == brk.heard \o held
      untold == nev - Len(all) + diagShed - pub.dropped - pub.noted
  IN  /\ \A i, j \in DOMAIN all : i < j => all[i] < all[j]
      /\ untold >= 0 /\ untold <= (ReqCap + Inflight) * lost.cuts

(* A broker that the network reaches never serves without a login, nor in  *)
(* clear text unless the operator accepted it; no thread starts before the *)
(* device proved to be a gateway (run, broker_access, verify_gateway).     *)
NothingExposed ==
  \A i \in DOMAIN hosted :
    hosted[i].loopback \/ (hosted[i].login /\ (hosted[i].clear => hosted[i].accepted))

(* A device of another checkout is reported, and its traffic does not      *)
(* repeat the report (schema_gate).                                        *)
ForeignToldOnce == told <= 1 /\ (ser.foreign => told = 1)

ServiceSound == BrokerCatchesUp /\ EventsAccounted /\ NothingExposed /\ ForeignToldOnce
=============================================================================
