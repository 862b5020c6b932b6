----------------------------- MODULE CliClient ------------------------------
(***************************************************************************)
(* The gateway's clients: `tower nodes` over MQTT (cli/src/client), among  *)
(* them cable pairing (client/pair_cable.rs, and gateway/pair.rs for the   *)
(* worker of the gateway's own screen), which also drives the node's       *)
(* serial port (cli/src/mgmt.rs), and the TLS front end they connect       *)
(* through (gateway/tls_front.rs).                                         *)
(*                                                                         *)
(* The gateway is external here (HostEngine has its inside): it serves     *)
(* requests in order and answers each, perhaps late, perhaps with an error *)
(* though the change was made (its own request to the dongle timed out).   *)
(* One node is on the client's cable; its frames are served in order and   *)
(* may be lost.  Keys are numbers: every one is minted once.               *)
(***************************************************************************)
EXTENDS Integers, Sequences, FiniteSets

CONSTANTS
  MaxRuns,      (* bound: commands run                                     *)
  Handshakes,   (* Limits.handshakes                                       *)
  Connections,  (* Limits.connections                                      *)
  HandshakeTime,(* Limits.handshake_timeout                                *)
  Peers         (* clients of the TLS port                                 *)

ASSUME ClientAssumption ==
  /\ Handshakes \in Nat /\ Connections \in Nat /\ Handshakes < Connections
  /\ HandshakeTime \in Nat \ {0} /\ IsFiniteSet(Peers)

VARIABLES
  cli,       (* the command that runs                                      *)
  reqs,      (* requests the gateway has not served                        *)
  rsps,      (* answers under way                                          *)
  gwKey,     (* the gateway: the node's registered key, 0 for none         *)
  nodeKey,   (* the node: its credentials, 0 for none                      *)
  toNode, fromNode,  (* frames on the cable                                *)
  done,      (* history: requests the gateway carried out                  *)
  nextId, minted, cliCmds,
  front      (* the TLS front end: what each peer's connection does        *)

cliVars == <<cli, reqs, rsps, gwKey, nodeKey, toNode, fromNode, done, nextId, minted, cliCmds, front>>

Idle == [cmd |-> "none", step |-> "idle", id |-> 0, key |-> 0, exit |-> "", worst |-> 0]

-----------------------------------------------------------------------------
(* Where to connect, and how *)

Specs == [scheme : {"none", "mqtt", "mqtts", "other"}, clean : BOOLEAN, flag : BOOLEAN, ca : BOOLEAN]

\* "refused", or whether the link is TLS: what was asked for is never answered with less.
resolve_target(s) ==
  LET tls == s.scheme = "mqtts" \/ (s.scheme = "none" /\ s.flag) IN
  IF s.scheme = "other" \/ (s.scheme = "mqtt" /\ s.flag) \/ ~s.clean \/ (~tls /\ s.ca) THEN "refused"
  ELSE IF tls THEN "tls" ELSE "plain"

ASSUME \A s \in Specs : s.flag \/ s.ca \/ s.scheme = "mqtts" => resolve_target(s) # "plain"

-----------------------------------------------------------------------------
(* One request and its answer *)

keepWorld == UNCHANGED <<gwKey, nodeKey, done, front>>
keepCable == UNCHANGED <<toNode, fromNode>>

Exit(code) == cli' = [cli EXCEPT !.step = "end", !.exit = code]

\* A fresh id for every request; the command then waits at step.
Rpc(op, step, key) ==
  /\ nextId' = nextId + 1
  /\ reqs' = Append(reqs, [id |-> nextId, op |-> op, key |-> key])
  /\ cli' = [cli EXCEPT !.step = step, !.id = nextId, !.key = key]

\* Slip: any answer on the shared subscription is taken.
Fault_matches(r) == TRUE

\* Answers to other ids (other clients, a request given up) are skipped.
matches(r) == r.id = cli.id

handshaking == {p \in Peers : front[p].at = "handshake"}
open == {p \in Peers : front[p].at # "none"}

cliWaiting == cli.step \in {"resolve", "op", "describe", "add", "ota", "rename", "rollback"}

\* The answer ends the wait; what follows is the command's next step.
Answered(ok, joined) ==
  IF ~ok /\ cli.step # "rollback" THEN Exit("error") /\ UNCHANGED <<reqs, nextId, minted, toNode>>
  ELSE CASE cli.step = "rollback" -> Exit("rolled back") /\ UNCHANGED <<reqs, nextId, minted, toNode>>
    [] cli.step = "resolve" -> Rpc("change", "op", 0) /\ UNCHANGED <<minted, toNode>>
    [] cli.step = "describe" ->
         /\ minted' = minted + 1 /\ Rpc("node_add", "add", minted + 1) /\ UNCHANGED toNode
    [] cli.step = "add" ->
         /\ cli' = [cli EXCEPT !.step = "provision"]
         /\ toNode' = Append(toNode, [req |-> "provision", key |-> cli.key])
         /\ UNCHANGED <<reqs, nextId, minted>>
    [] cli.step = "ota" ->
         IF ~joined THEN Exit("error") /\ UNCHANGED <<reqs, nextId, minted, toNode>>
         ELSE Rpc("change", "rename", 0) /\ UNCHANGED <<minted, toNode>>
    [] cli.step \in {"op", "rename"} -> Exit("ok") /\ UNCHANGED <<reqs, nextId, minted, toNode>>

TakeAnswer ==
  /\ cliWaiting /\ rsps # <<>> /\ rsps' = Tail(rsps)
  /\ IF matches(Head(rsps)) THEN Answered(Head(rsps).ok, Head(rsps).joined)
     ELSE UNCHANGED <<cli, reqs, nextId, minted, toNode>>
  /\ UNCHANGED <<fromNode, cliCmds>> /\ keepWorld

\* The wait ends, or the broker connection is lost.  The roll-back's outcome is not looked at.
RpcTimeout ==
  /\ cliWaiting
  /\ Exit(IF cli.step = "rollback" THEN "rolled back" ELSE "timeout")
  /\ UNCHANGED <<reqs, rsps, nextId, minted, cliCmds>> /\ keepCable /\ keepWorld

-----------------------------------------------------------------------------
(* Commands *)

\* `nodes remove|rename|dequeue` by name or address, `nodes add --ota`, and cable pairing
\* from the command line or the gateway's screen.  The front end shares nothing with them:
\* it is explored while no command runs.
Run(cmd) ==
  /\ cli.step \in {"idle", "end"} /\ cliCmds < MaxRuns /\ cliCmds' = cliCmds + 1 /\ open = {}
  /\ CASE cmd = "by name" ->
            /\ nextId' = nextId + 1
            /\ reqs' = Append(reqs, [id |-> nextId, op |-> "node_list", key |-> 0])
            /\ cli' = [Idle EXCEPT !.cmd = cmd, !.step = "resolve", !.id = nextId]
            /\ keepCable
       [] cmd = "by address" ->
            /\ nextId' = nextId + 1
            /\ reqs' = Append(reqs, [id |-> nextId, op |-> "change", key |-> 0])
            /\ cli' = [Idle EXCEPT !.cmd = cmd, !.step = "op", !.id = nextId]
            /\ keepCable
       [] cmd = "ota" ->
            /\ nextId' = nextId + 1
            /\ reqs' = Append(reqs, [id |-> nextId, op |-> "node_add_ota", key |-> 0])
            /\ cli' = [Idle EXCEPT !.cmd = cmd, !.step = "ota", !.id = nextId]
            /\ keepCable
       [] cmd \in {"cable", "cable from the screen"} ->
            \* open_console drops what the node sent before.
            /\ cli' = [Idle EXCEPT !.cmd = cmd, !.step = "probe"]
            /\ toNode' = Append(toNode, [req |-> "describe", key |-> 0]) /\ fromNode' = <<>>
            /\ UNCHANGED <<nextId, reqs>>
       [] cmd = "shell" ->
            /\ cli' = [Idle EXCEPT !.cmd = cmd, !.step = "shell", !.id = nextId]
            /\ nextId' = nextId + 1 /\ UNCHANGED reqs /\ keepCable
  /\ UNCHANGED <<rsps, minted>> /\ keepWorld

\* mgmt_roundtrip on the cable: frames of another request are skipped; silence ends it.
TakeFrame ==
  /\ cli.step \in {"probe", "provision"} /\ fromNode # <<>> /\ fromNode' = Tail(fromNode)
  /\ LET f == Head(fromNode) IN
     IF f.req # (IF cli.step = "probe" THEN "describe" ELSE "provision")
     THEN UNCHANGED <<cli, reqs, nextId, minted>>
     ELSE IF cli.step = "probe"
     THEN IF ~f.ok THEN Exit("wrong firmware") /\ UNCHANGED <<reqs, nextId, minted>>
          ELSE IF cli.cmd = "cable" THEN Rpc("describe", "describe", 0) /\ UNCHANGED minted
          ELSE minted' = minted + 1 /\ Rpc("node_add", "add", minted + 1)
     ELSE IF f.ok THEN Exit("ok") /\ UNCHANGED <<reqs, nextId, minted>>
     ELSE Rpc("node_remove", "rollback", cli.key) /\ UNCHANGED minted
  /\ UNCHANGED <<rsps, toNode, cliCmds>> /\ keepWorld

\* The node serves a frame, or it is lost, before the wait for it ends; its answer may be late.
CableTimeout ==
  /\ cli.step \in {"probe", "provision"} /\ toNode = <<>>
  /\ IF cli.step = "probe" THEN Exit("timeout") /\ UNCHANGED <<reqs, nextId>>
     ELSE Rpc("node_remove", "rollback", cli.key)
  /\ UNCHANGED <<rsps, minted, cliCmds>> /\ keepCable /\ keepWorld

\* `nodes shell`: chunks of this dialog until its end; a lost chunk spoils a clean result.
CliChunk(mine, c) ==
  /\ cli.step = "shell"
  /\ CASE ~mine -> UNCHANGED cli
       [] mine /\ c = "error" -> Exit("error")
       [] mine /\ c = "part" -> UNCHANGED cli
       [] mine /\ c = "part, one lost before it" -> cli' = [cli EXCEPT !.worst = 1]
       [] mine /\ c = "done" -> Exit(IF cli.worst = 0 THEN "ok" ELSE "device result")
       [] mine /\ c = "failed" -> Exit("device result")
  /\ UNCHANGED <<reqs, rsps, nextId, minted, cliCmds>> /\ keepCable /\ keepWorld

\* No reply in time: the retained queue tells what is still pending.
ShellTimeout ==
  /\ cli.step = "shell" /\ Exit("timeout")
  /\ UNCHANGED <<reqs, rsps, nextId, minted, cliCmds>> /\ keepCable /\ keepWorld

-----------------------------------------------------------------------------
(* The gateway and the node *)

\* The gateway serves its oldest request: done and told, done but not known to be (its
\* answer says it failed), or refused.
Serve(outcome) ==
  /\ reqs # <<>> /\ reqs' = Tail(reqs)
  /\ LET r == Head(reqs)
         acted == outcome # "refused"
     IN  /\ gwKey' = CASE acted /\ r.op = "node_add" -> r.key
                       [] acted /\ r.op = "node_remove" -> 0
                       [] OTHER -> gwKey
         /\ done' = IF acted /\ r.op = "change" THEN done \cup {r.id} ELSE done
         /\ rsps' = Append(rsps, [id |-> r.id, ok |-> outcome = "done", joined |-> FALSE])
         /\ r.op # "node_add_ota"
  /\ UNCHANGED <<cli, nodeKey, nextId, minted, cliCmds, front>> /\ keepCable

\* A window: a join leaves one key at both ends (Pairing), or nobody joins.
ServeWindow(joined) ==
  /\ reqs # <<>> /\ Head(reqs).op = "node_add_ota" /\ reqs' = Tail(reqs)
  /\ rsps' = Append(rsps, [id |-> Head(reqs).id, ok |-> TRUE, joined |-> joined])
  /\ IF joined THEN minted' = minted + 1 /\ gwKey' = minted + 1 /\ nodeKey' = minted + 1
     ELSE UNCHANGED <<minted, gwKey, nodeKey>>
  /\ UNCHANGED <<cli, nextId, cliCmds, done, front>> /\ keepCable

\* The node serves a frame; a stored Provision is acknowledged, and the node reboots: what
\* reached it meanwhile is lost.
NodeServes(ok, heard) ==
  /\ toNode # <<>>
  /\ LET f == Head(toNode)
         installed == ok /\ f.req = "provision"
     IN  /\ nodeKey' = IF installed THEN f.key ELSE nodeKey
         /\ toNode' = IF installed THEN <<>> ELSE Tail(toNode)
         /\ fromNode' = IF heard THEN Append(fromNode, [req |-> f.req, ok |-> ok]) ELSE fromNode
  /\ UNCHANGED <<cli, reqs, rsps, gwKey, done, nextId, minted, cliCmds, front>>

FrameLost ==
  /\ toNode # <<>> /\ toNode' = Tail(toNode)
  /\ UNCHANGED <<cli, reqs, rsps, gwKey, nodeKey, fromNode, done, nextId, minted, cliCmds, front>>

-----------------------------------------------------------------------------
(* The TLS front end: a state per peer, "none", its handshake's age, or "proxied" *)

keepFlows == UNCHANGED <<cli, reqs, rsps, gwKey, nodeKey, toNode, fromNode, done, nextId, minted, cliCmds>>

\* Accepted, or past a limit and closed at once.
Accept(p) ==
  /\ cli.step = "idle" /\ front[p].at = "none"
  /\ Cardinality(open) < Connections /\ Cardinality(handshaking) < Handshakes
  /\ front' = [front EXCEPT ![p] = [at |-> "handshake", age |-> 0]]
  /\ keepFlows

\* The handshake and the hop to the broker end, in a proxied connection or not.
Handshaken(p, ok) ==
  /\ front[p].at = "handshake"
  /\ front' = [front EXCEPT ![p] = [at |-> IF ok THEN "proxied" ELSE "none", age |-> 0]]
  /\ keepFlows

Closed(p) ==
  /\ front[p].at = "proxied" /\ front' = [front EXCEPT ![p] = [at |-> "none", age |-> 0]]
  /\ keepFlows

\* A second passes: the deadline closes the handshakes that reach it.
FrontTick ==
  /\ open # {}
  /\ front' = [p \in Peers |->
       IF front[p].at # "handshake" THEN front[p]
       ELSE IF front[p].age + 1 >= HandshakeTime THEN [at |-> "none", age |-> 0]
       ELSE [front[p] EXCEPT !.age = @ + 1]]
  /\ keepFlows

-----------------------------------------------------------------------------
CliInit ==
  /\ cli = Idle /\ reqs = <<>> /\ rsps = <<>> /\ toNode = <<>> /\ fromNode = <<>>
  /\ gwKey \in {0, 1} /\ nodeKey \in {0, 1} /\ minted = 1 /\ nextId = 1
  /\ done = {} /\ cliCmds = 0 /\ front = [p \in Peers |-> [at |-> "none", age |-> 0]]

CliNext ==
  \/ \E c \in {"by name", "by address", "ota", "cable", "cable from the screen", "shell"} : Run(c)
  \/ TakeAnswer \/ RpcTimeout \/ TakeFrame \/ CableTimeout \/ ShellTimeout
  \/ \E mine \in BOOLEAN, c \in {"error", "part", "part, one lost before it", "done", "failed"} :
       CliChunk(mine, c)
  \/ \E o \in {"done", "done, answer lost", "refused"} : Serve(o)
  \/ \E j \in BOOLEAN : ServeWindow(j)
  \/ \E ok, heard \in BOOLEAN : NodeServes(ok, heard)
  \/ FrameLost
  \/ \E p \in Peers : Accept(p) \/ Closed(p) \/ \E ok \in BOOLEAN : Handshaken(p, ok)
  \/ FrontTick

-----------------------------------------------------------------------------
(* Properties *)

(* A cable pairing that reports success leaves the key it minted on both   *)
(* sides, also after attempts that were given up half way and whose        *)
(* requests, roll-back and answers come late (pair_cable::run, pair::run,  *)
(* Session::rpc, mgmt_roundtrip).                                          *)
PairedIsShared ==
  cli.step = "end" /\ cli.exit = "ok" /\ cli.cmd \in {"cable", "cable from the screen"} =>
    gwKey = cli.key /\ nodeKey = cli.key /\ ~\E i \in DOMAIN reqs : reqs[i].op = "node_remove"

(* A command that exits 0 was carried out, and never another client's      *)
(* request in its place (Session::rpc).                                    *)
OkIsTrue ==
  cli.step = "end" /\ cli.exit = "ok" /\ cli.cmd \in {"by name", "by address", "ota"} => cli.id \in done

(* A peer that never finishes its handshake is gone by the deadline, and   *)
(* stalled handshakes alone never take every connection (tls_front.rs).    *)
FrontStaysOpen ==
  /\ \A p \in handshaking : front[p].age < HandshakeTime
  /\ Cardinality(handshaking) < Connections

ClientHonest == PairedIsShared /\ OkIsTrue /\ FrontStaysOpen
=============================================================================
