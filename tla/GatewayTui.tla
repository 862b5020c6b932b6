----------------------------- MODULE GatewayTui -----------------------------
(***************************************************************************)
(* The screen of `tower gateway` (cli/src/gateway/tui.rs), with the cable  *)
(* pairing workers it starts (gateway/pair.rs).                            *)
(*                                                                         *)
(* The loop takes every event of the engine, then runs the housekeeping of *)
(* a frame, draws, and takes at most one key: a key acts on exactly the    *)
(* state that was drawn, but its user decided on an earlier frame.  The    *)
(* engine (HostEngine) and the worker's dialogue with the node (CliClient) *)
(* are external here: the registry changes by other clients too, responses *)
(* of several commands to one node may interleave, answers come late or    *)
(* never.  LineHistory has the prompt's editing.                           *)
(***************************************************************************)
EXTENDS Integers, Sequences, FiniteSets, SequencesExt

CONSTANTS
  NodeAddrs,    (* node addresses (numbers)                                *)
  UsbPorts,     (* serial ports (numbers)                                  *)
  KeyShown,     (* ticks a revealed key stays: 30 s                        *)
  OtaWait,      (* ticks the OTA popup waits for the window: 5 s           *)
  CatchTime,    (* ticks of the catch window: 60 s                         *)
  ChartCap,     (* CHART_HISTORY                                           *)
  DialogCap,    (* DIALOG_CAP                                              *)
  ChartBars,    (* bars that fit the chart                                 *)
  MaxWorkers,   (* bound: cable workers started                            *)
  GtWorlds      (* bounds of one behaviour: see GtInit                     *)

VARIABLES
  gt,        (* App                                                        *)
  evq,       (* events from the engine                                     *)
  phase,     (* "events": draining; "key": drawn, waiting for a key        *)
  gtWorld,     (* the engine: [reg, pend: queued commands, ota: the pairing *)
             (*   window, asked: RPCs not answered]; the plugged ports     *)
  worker,    (* the cable workers                                          *)
  gtTold,      (* history: workers whose outcome is in the log               *)
  allow      (* what the behaviour may still do                            *)

gtVars == <<gt, evq, phase, gtWorld, worker, gtTold, allow>>

NoModal == [m |-> "none", node |-> 0, sel |-> 0, age |-> 0, seen |-> FALSE, ports |-> <<>>, failed |-> FALSE]

modal(m) == [NoModal EXCEPT !.m = m]

sorted(S) == SetToSortSeq(S, <)

\* A world bounds keys, registry changes, response chunks, ticks, port changes, radio
\* samples and pairing windows, and says which keys its user knows.
GtInit ==
  /\ allow \in GtWorlds
  /\ gt = [nodes |-> <<>>, selected |-> 0, shell_node |-> 0, focus |-> "Nodes", paused |-> FALSE,
           dialogs |-> [n \in NodeAddrs |-> <<>>], shell_partial |-> [n \in NodeAddrs |-> <<>>],
           pairing |-> "none", modal |-> NoModal, cable |-> 0, poll |-> FALSE,
           ambient |-> <<>>, ambient_seq |-> 0, marks |-> <<>>,
           pending |-> [n \in NodeAddrs |-> <<>>],
           wantSel |-> 0, wantDlg |-> 0, wantPort |-> 0, shown |-> {}, replaced |-> {}]
  /\ evq = <<>> /\ phase = "events" /\ gtTold = {}
  /\ gtWorld = [reg |-> {}, pend |-> [n \in NodeAddrs |-> <<>>], refs |-> 0, dropped |-> {}, ota |-> "idle",
              asked |-> {}, ports |-> {}, reading |-> 0]
  /\ worker = [w \in 1 .. MaxWorkers |-> [st |-> "none", id |-> 0, box |-> <<>>, rpcs |-> 0]]

may(f) == allow[f] > 0 /\ allow' = [allow EXCEPT ![f] = @ - 1]

at(s, i) == IF i < Len(s) THEN s[i + 1] ELSE 0

\* history: what the cursor of the table and of the dialog stand on.
stand(a) == [a EXCEPT !.wantSel = at(a.nodes, a.selected), !.wantDlg = at(a.nodes, a.shell_node)]

-----------------------------------------------------------------------------
(* Events *)

clamp(i, n) == IF i < n THEN i ELSE IF n = 0 THEN 0 ELSE n - 1

\* Slip: the cursor keeps its row, whatever node is there now.
Fault_anchor(i, old, new) == clamp(i, Len(new))

\* The cursor stays on the node it is on; on a removed one, the row stays.
anchor(i, old, new) ==
  LET k == {j \in DOMAIN new : new[j] = at(old, i)} IN
  IF at(old, i) # 0 /\ k # {} THEN (CHOOSE j \in k : TRUE) - 1 ELSE clamp(i, Len(new))

\* history: a node that is gone is not waited for; the cursor stands where it fell.
wanted(w, new, i) == IF w \in ToSet(new) THEN w ELSE at(new, i)

on_registry(a, new, pend) ==
  LET s == anchor(a.selected, a.nodes, new)
      d == anchor(a.shell_node, a.nodes, new)
  IN [a EXCEPT !.nodes = new, !.pending = pend, !.selected = s, !.shell_node = d,
               !.wantSel = wanted(@, new, s), !.wantDlg = wanted(@, new, d)]

dialog_push(a, n, ids) ==
  [a EXCEPT !.dialogs[n] = Append(IF Len(@) >= DialogCap THEN Tail(@) ELSE @, ids)]

\* The open line of node n, an unfinished one, becomes a line of its dialog.
shell_flush(a, n) ==
  LET p == a.shell_partial[n]
      b == [a EXCEPT !.shell_partial[n] = <<>>]
  IN IF p # <<>> /\ p[1].ids # {} THEN dialog_push(b, n, p[1].ids) ELSE b

\* A chunk of response id: shape says whether its text ends the line, leaves one open or is
\* empty.  Text is joined to the open line only of the same response.
on_shell(a, n, e) ==
  IF e.error THEN shell_flush(a, n)
  ELSE
    LET p == a.shell_partial[n]
        own == p # <<>> /\ p[1].id = e.id
        b == IF own THEN [a EXCEPT !.shell_partial[n] = <<>>] ELSE shell_flush(a, n)
        buf == (IF own THEN p[1].ids ELSE {}) \cup (IF e.shape = "none" THEN {} ELSE {e.id})
        c == IF e.shape = "line" THEN dialog_push(b, n, buf) ELSE b
        rest == IF e.shape = "line" THEN {} ELSE buf
    IN IF ~e.done THEN [c EXCEPT !.shell_partial[n] = <<[id |-> e.id, ids |-> rest]>>]
       ELSE IF rest # {} THEN dialog_push(c, n, rest) ELSE c

capped(s, x) == Append(IF Len(s) >= ChartCap THEN Tail(s) ELSE s, x)

\* Paused, the chart takes nothing.  A mark is pinned to the reading it arrived during.
on_radio(a, e) ==
  IF a.paused THEN a
  ELSE IF e.kind = "ambient"
       THEN [a EXCEPT !.ambient_seq = @ + 1, !.ambient = capped(@, e.reading)]
       ELSE [a EXCEPT !.marks = capped(@, [seq |-> a.ambient_seq, on |-> IF a.ambient = <<>> THEN 0 ELSE Last(a.ambient)])]

\* An answer: a worker's goes to the worker the screen follows; a failure is logged; a
\* revealed key takes the place of whatever dialog is up.
on_rpc(a, e) == IF e.op = "reveal_key" /\ e.ok THEN [a EXCEPT !.modal = [modal("Key") EXCEPT !.node = e.node]] ELSE a

OnEvent ==
  LET e == Head(evq) IN
  /\ phase = "events" /\ evq # <<>> /\ evq' = Tail(evq)
  /\ gt' = CASE e.t = "registry" -> on_registry(gt, e.nodes, e.pend)
             [] e.t = "shell" -> on_shell(gt, e.node, e)
             [] e.t = "radio" -> on_radio(gt, e)
             [] e.t = "pairing" -> [gt EXCEPT !.pairing = e.state]
             [] e.t = "rpc" -> on_rpc(gt, e)
             [] e.t = "cable rpc" -> gt
  /\ worker' = IF e.t = "cable rpc" /\ gt.cable # 0 THEN [worker EXCEPT ![gt.cable].box = Append(@, e.id)] ELSE worker
  /\ UNCHANGED <<phase, gtWorld, gtTold, allow>>

-----------------------------------------------------------------------------
(* The housekeeping of a frame *)

poll_ports == sorted(gtWorld.ports)

\* The screen follows the new worker, and no longer the one before.
start_cable(a, w) == [a EXCEPT !.replaced = IF a.cable # 0 THEN @ \cup {a.cable} ELSE @, !.cable = w, !.modal = modal("PairRun"), !.wantPort = 0]

freshWorker(w) == worker[w].st = "none" /\ \A v \in 1 .. w - 1 : worker[v].st # "none"

\* The followed worker's outcome: into the log, and the progress dialog ends or shows it.
follow(a) ==
  IF a.cable = 0 \/ worker[a.cable].st \notin {"done", "failed"} THEN a
  ELSE [a EXCEPT !.cable = 0,
                 !.modal = IF @.m # "PairRun" THEN @
                           ELSE IF worker[a.cable].st = "done" THEN NoModal ELSE [@ EXCEPT !.failed = TRUE]]

\* The pairing dialog ends when its window did, or when none opened in time.
tend_ota(a) ==
  IF a.modal.m # "PairOta" THEN a
  ELSE LET open == a.pairing = "open"
           seen == a.modal.seen \/ open
       IN IF (seen /\ ~open) \/ (~seen /\ a.modal.age >= OtaWait) THEN [a EXCEPT !.modal = NoModal]
          ELSE [a EXCEPT !.modal.seen = seen]

\* Newcomers are appended: positions change only when a port goes.
refresh(ports) ==
  LET keep == SelectSeq(ports, LAMBDA p : p \in gtWorld.ports) IN
  keep \o SelectSeq(poll_ports, LAMBDA p : p \notin ToSet(keep))

tend_ports(a) ==
  IF ~a.poll \/ a.modal.m # "PairPorts" THEN a
  ELSE LET now == refresh(a.modal.ports)
           s == IF a.modal.sel >= Len(now) THEN clamp(a.modal.sel, Len(now)) ELSE a.modal.sel
           gone == \E p \in ToSet(a.modal.ports) : p \notin gtWorld.ports
       IN [a EXCEPT !.modal.ports = now, !.modal.sel = s,
                    !.wantPort = IF gone \/ @ = 0 THEN at(now, s) ELSE @]

newcomers(a) == SelectSeq(poll_ports, LAMBDA p : p \notin ToSet(a.modal.ports))

hideKey(a) == IF a.modal.m = "Key" /\ a.modal.age >= KeyShown THEN [a EXCEPT !.modal = NoModal] ELSE a

\* Pending: the entry of the live list at the selected row, if there is one.
pendingRow(a) == IF a.modal.m = "Pending" /\ a.modal.node \in ToSet(a.nodes)
                 THEN at(a.pending[a.modal.node], a.modal.sel) ELSE 0

\* history: the queued commands that were drawn under the cursor.
drawn(a) == [a EXCEPT !.poll = FALSE, !.shown = @ \cup ({pendingRow(a)} \ {0})]

\* The catch window ends in time, or with the first device that was not there before.
Frame ==
  LET a == tend_ota(follow(hideKey(gt)))
      catching == a.modal.m = "PairCatch"
      over == catching /\ a.modal.age >= CatchTime
      found == catching /\ ~over /\ a.poll /\ newcomers(a) # <<>>
  IN
  /\ phase = "events" /\ evq = <<>> /\ phase' = "key"
  /\ gtTold' = gtTold \cup (IF gt.cable # 0 /\ worker[gt.cable].st \in {"done", "failed"} THEN {gt.cable} ELSE {})
  /\ IF found
       THEN \E w \in 1 .. MaxWorkers :
              /\ freshWorker(w) /\ gt' = drawn(start_cable(a, w))
              /\ worker' = [worker EXCEPT ![w].st = "run"]
       ELSE /\ gt' = drawn(tend_ports(IF over THEN [a EXCEPT !.modal = modal("Info")] ELSE a))
            /\ UNCHANGED worker
  /\ UNCHANGED <<evq, gtWorld, allow>>

\* A second passes: dialogs age, and the ports are due to be looked at.
GtTick ==
  /\ may("ticks") /\ phase = "key" /\ phase' = "events"
  /\ gt' = [gt EXCEPT !.modal.age = @ + 1, !.poll = TRUE]
  /\ UNCHANGED <<evq, gtWorld, worker, gtTold>>

\* No key within the poll time.
NoKey == phase = "key" /\ evq # <<>> /\ phase' = "events" /\ UNCHANGED <<gt, evq, gtWorld, worker, gtTold, allow>>

-----------------------------------------------------------------------------
(* Keys *)

pressed(k) == phase = "key" /\ phase' = "events" /\ k \in allow.known /\ may("keys") /\ UNCHANGED <<evq, gtTold>>

silent == UNCHANGED <<gtWorld, worker>>

\* The engine is asked to do op to the node.
ask(op, node) == gtWorld' = [gtWorld EXCEPT !.asked = @ \cup {<<op, node>>}] /\ UNCHANGED worker

noModal == gt.modal.m = "none"

F1 ==
  /\ pressed("F1") /\ noModal /\ silent
  /\ gt' = [gt EXCEPT !.focus = CASE @ = "Nodes" -> "Radio" [] @ = "Radio" -> "Mqtt" [] @ = "Mqtt" -> "Log"
                                   [] @ = "Log" -> "Shell" [] @ = "Shell" -> "Nodes"]

\* A click on a pane gives it the focus; on a chip of the footer it is the chip's key.
handle_mouse(p) == pressed("click") /\ noModal /\ silent /\ gt' = [gt EXCEPT !.focus = p]

F5 == pressed("F5") /\ noModal /\ silent /\ gt' = [gt EXCEPT !.paused = ~@]

F8 ==
  /\ pressed("F8") /\ noModal /\ silent
  /\ gt' = IF gt.focus = "Radio" THEN [gt EXCEPT !.ambient = <<>>, !.marks = <<>>] ELSE gt

F2 == pressed("F2") /\ noModal /\ silent /\ gt' = [gt EXCEPT !.modal = modal("PairMenu")]

\* Up, Down and Enter in the table.
NodesKey(k) ==
  /\ pressed(k) /\ noModal /\ gt.focus = "Nodes" /\ silent
  /\ gt' = stand(CASE k = "Up" -> [gt EXCEPT !.selected = IF @ = 0 THEN 0 ELSE @ - 1]
                   [] k = "Down" -> [gt EXCEPT !.selected = clamp(@ + 1, Len(gt.nodes))]
                   [] k = "Enter" -> IF gt.nodes = <<>> THEN gt
                                     ELSE [gt EXCEPT !.shell_node = gt.selected, !.focus = "Shell"])

\* Del, F6, F4 and p, by key or by a click on their chips, from any pane: the dialog is
\* about the node that is selected now.
NodeAction(m) ==
  /\ pressed("node") /\ noModal /\ silent
  /\ gt' = IF gt.nodes = <<>> THEN gt ELSE [gt EXCEPT !.modal = [modal(m) EXCEPT !.node = at(gt.nodes, gt.selected)]]

\* Alt-arrows in the shell pane.
ShellTab(k) ==
  /\ pressed(k) /\ noModal /\ gt.focus = "Shell" /\ silent
  /\ gt' = stand(IF k = "Up" THEN [gt EXCEPT !.shell_node = IF @ = 0 THEN 0 ELSE @ - 1]
                 ELSE [gt EXCEPT !.shell_node = clamp(@ + 1, Len(gt.nodes))])

\* Enter in the shell pane: the line goes to the node whose dialog is shown.
submit_line ==
  LET n == at(gt.nodes, gt.shell_node) IN
  /\ pressed("Enter") /\ noModal /\ gt.focus = "Shell"
  /\ IF n = 0 THEN UNCHANGED gt /\ silent
     ELSE gt' = dialog_push(gt, n, {"sent"}) /\ ask("shell", n)

close(a) == [a EXCEPT !.modal = NoModal, !.wantPort = 0]

\* Enter in a dialog that confirms something: what was asked is done to the node it names.  An
\* empty name asks for nothing.
Confirm(blank) ==
  /\ pressed("Enter") /\ gt.modal.m \in {"ConfirmRemove", "Rename", "ConfirmReveal"}
  /\ blank => gt.modal.m = "Rename"
  /\ LET op == CASE gt.modal.m = "ConfirmRemove" -> "node_remove" [] gt.modal.m = "Rename" -> "node_rename"
                 [] gt.modal.m = "ConfirmReveal" -> "reveal_key"
     IN gt' = close(gt) /\ IF blank THEN silent ELSE ask(op, gt.modal.node)

\* Del in the list of queued commands, which stays: the entry at the selected row, by its ref.
DropQueued ==
  /\ pressed("node") /\ gt.modal.m = "Pending" /\ UNCHANGED gt
  /\ IF pendingRow(gt) = 0 THEN silent ELSE ask("queue_drop", pendingRow(gt))

\* Esc, or any key in a notice.  An open window is cancelled; a running worker goes on.
Escape ==
  /\ pressed("Esc") /\ ~noModal
  /\ gt' = close(gt)
  /\ IF gt.modal.m = "PairOta" THEN ask("pairing_cancel", 0) ELSE silent

AnyKey ==
  /\ pressed("Enter")
  /\ gt.modal.m \in {"Key", "Info"} \/ (gt.modal.m = "PairRun" /\ gt.modal.failed)
  /\ gt' = close(gt) /\ silent

\* Up and Down in a dialog with a list.
MoveIn(k) ==
  /\ pressed(k) /\ gt.modal.m \in {"PairMenu", "PairPorts", "Pending"} /\ silent
  /\ LET n == CASE gt.modal.m = "PairMenu" -> 3 [] gt.modal.m = "PairPorts" -> Len(gt.modal.ports)
               [] OTHER -> IF gt.modal.node \in ToSet(gt.nodes) THEN Len(gt.pending[gt.modal.node]) ELSE 0
         s == IF k = "Up" THEN (IF gt.modal.sel = 0 THEN 0 ELSE gt.modal.sel - 1) ELSE clamp(gt.modal.sel + 1, n)
     IN gt' = [gt EXCEPT !.modal.sel = s, !.wantPort = at(gt.modal.ports, s)]

\* Enter in the pairing menu: a window over the air, wait for a device, or pick a port.
MenuEnter ==
  /\ pressed("Enter") /\ gt.modal.m = "PairMenu"
  /\ CASE gt.modal.sel = 0 -> gt' = [gt EXCEPT !.modal = modal("PairOta")] /\ ask("node_add_ota", 0)
       [] gt.modal.sel = 1 ->
            gt' = [gt EXCEPT !.modal = [modal("PairCatch") EXCEPT !.ports = poll_ports], !.poll = FALSE] /\ silent
       [] gt.modal.sel = 2 ->
            gt' = [gt EXCEPT !.modal = [modal("PairPorts") EXCEPT !.ports = poll_ports],
                             !.wantPort = at(poll_ports, 0)] /\ silent

\* Enter in the list of ports.  With an empty list the dialog stays.
PickPort ==
  /\ pressed("Enter") /\ gt.modal.m = "PairPorts"
  /\ IF at(gt.modal.ports, gt.modal.sel) = 0 THEN UNCHANGED <<gt, gtWorld, worker>>
     ELSE \E w \in 1 .. MaxWorkers :
            /\ freshWorker(w) /\ gt' = start_cable(gt, w) /\ worker' = [worker EXCEPT ![w].st = "run"]
            /\ UNCHANGED gtWorld

-----------------------------------------------------------------------------
(* The engine, the ports and the workers *)

send_event(e) == evq' = Append(evq, e) /\ Len(evq) < 2

\* The registry and the queues, as they are after a change.
published == send_event([t |-> "registry", nodes |-> sorted(gtWorld'.reg), pend |-> gtWorld'.pend])

\* A node joins or is removed, here or by another client.
RegistryChanges(n) ==
  /\ may("regs")
  /\ gtWorld' = IF n \in gtWorld.reg THEN [gtWorld EXCEPT !.reg = @ \ {n}, !.pend[n] = <<>>]
                ELSE [gtWorld EXCEPT !.reg = @ \cup {n}]
  /\ published /\ UNCHANGED <<gt, phase, worker, gtTold>>

\* A command is queued for a node, with a ref of its own, or the oldest one is answered.
QueueChanges(n, more) ==
  /\ may("queued") /\ n \in gtWorld.reg /\ (more \/ gtWorld.pend[n] # <<>>)
  /\ gtWorld' = IF more THEN [gtWorld EXCEPT !.pend[n] = Append(@, gtWorld.refs + 1), !.refs = @ + 1]
                ELSE [gtWorld EXCEPT !.pend[n] = Tail(@)]
  /\ published /\ UNCHANGED <<gt, phase, worker, gtTold>>

\* queue_drop takes the item with that ref out of its queue, if it is still there.
EngineDrops(r) ==
  /\ r \in gtWorld.asked /\ r[1] = "queue_drop"
  /\ LET has == {n \in NodeAddrs : r[2] \in ToSet(gtWorld.pend[n])} IN
     gtWorld' = [gtWorld EXCEPT !.asked = @ \ {r}, !.dropped = IF has = {} THEN @ ELSE @ \cup {r[2]},
                   !.pend = [n \in NodeAddrs |-> SelectSeq(@[n], LAMBDA x : x # r[2])]]
  /\ published /\ UNCHANGED <<gt, phase, worker, gtTold, allow>>

ShellChunk1 ==
  /\ may("chunks")
  /\ \E n \in NodeAddrs, id \in 1 .. 2, shape \in {"open", "line", "none"}, done, error \in BOOLEAN :
       /\ error => done
       /\ send_event([t |-> "shell", node |-> n, id |-> id, shape |-> shape, done |-> done, error |-> error])
  /\ UNCHANGED <<gt, phase, gtWorld, worker, gtTold>>

RadioSample(kind) ==
  /\ may("radio")
  /\ send_event([t |-> "radio", kind |-> kind, reading |-> gtWorld.reading + 1])
  /\ gtWorld' = [gtWorld EXCEPT !.reading = IF kind = "ambient" THEN @ + 1 ELSE @]
  /\ UNCHANGED <<gt, phase, worker, gtTold>>

\* The pairing window opens when asked for, and ends: joined, timed out or cancelled.
Window ==
  /\ may("windows")
  /\ \/ /\ gtWorld.ota = "idle" /\ <<"node_add_ota", 0>> \in gtWorld.asked
        /\ gtWorld' = [gtWorld EXCEPT !.ota = "open", !.asked = @ \ {<<"node_add_ota", 0>>}]
     \/ /\ gtWorld.ota = "open"
        /\ gtWorld' = [gtWorld EXCEPT !.ota = "idle", !.asked = @ \ {<<"pairing_cancel", 0>>}]
  /\ send_event([t |-> "pairing", state |-> gtWorld'.ota])
  /\ UNCHANGED <<gt, phase, worker, gtTold>>

\* The engine answers; only a revealed key changes the screen.
EngineAnswers(r, ok) ==
  /\ r \in gtWorld.asked /\ r[1] \notin {"node_add_ota", "pairing_cancel", "queue_drop"}
  /\ gtWorld' = [gtWorld EXCEPT !.asked = @ \ {r}]
  /\ send_event([t |-> "rpc", op |-> r[1], node |-> r[2], ok |-> ok])
  /\ UNCHANGED <<gt, phase, worker, gtTold, allow>>

Plug(p) ==
  /\ may("plugs")
  /\ gtWorld' = [gtWorld EXCEPT !.ports = IF p \in @ THEN @ \ {p} ELSE @ \cup {p}]
  /\ UNCHANGED <<gt, evq, phase, worker, gtTold>>

\* A request of a worker, with an id no other request has.
cableId(w) == w * 10 + worker[w].rpcs

WorkerAsks(w) ==
  /\ worker[w].st = "run" /\ worker[w].rpcs < 2
  /\ worker' = [worker EXCEPT ![w] = [st |-> "asking", id |-> cableId(w), box |-> @.box, rpcs |-> @.rpcs + 1]]
  /\ gtWorld' = [gtWorld EXCEPT !.asked = @ \cup {<<"cable", cableId(w)>>}]
  /\ UNCHANGED <<gt, evq, phase, gtTold, allow>>

EngineServesWorker(id) ==
  /\ <<"cable", id>> \in gtWorld.asked /\ gtWorld' = [gtWorld EXCEPT !.asked = @ \ {<<"cable", id>>}]
  /\ send_event([t |-> "cable rpc", id |-> id]) /\ UNCHANGED <<gt, phase, worker, gtTold, allow>>

\* An answer of another worker's request is skipped; silence for 5 s fails the worker.
WorkerHears(w) ==
  /\ worker[w].st = "asking" /\ worker[w].box # <<>>
  /\ worker' = [worker EXCEPT ![w].box = Tail(@), ![w].st = IF Head(worker[w].box) = worker[w].id THEN "run" ELSE @]
  /\ UNCHANGED <<gt, evq, phase, gtWorld, gtTold, allow>>

WorkerEnds(w, how) ==
  /\ worker[w].st = IF how = "failed" THEN "asking" ELSE "run"
  /\ how = "done" => worker[w].rpcs = 2
  /\ worker' = [worker EXCEPT ![w].st = how] /\ UNCHANGED <<gt, evq, phase, gtWorld, gtTold, allow>>

GtNext ==
  \/ OnEvent \/ Frame \/ GtTick \/ NoKey
  \/ F1 \/ F2 \/ F5 \/ F8 \/ submit_line \/ DropQueued \/ Escape \/ AnyKey \/ MenuEnter \/ PickPort
  \/ \E k \in {"Up", "Down"} : ShellTab(k) \/ MoveIn(k)
  \/ \E p \in {"Nodes", "Radio", "Shell", "Mqtt", "Log"} : handle_mouse(p)
  \/ \E k \in {"Up", "Down", "Enter"} : NodesKey(k)
  \/ \E m \in {"ConfirmRemove", "Rename", "ConfirmReveal", "Pending"} : NodeAction(m)
  \/ \E n \in NodeAddrs : RegistryChanges(n) \/ \E m \in BOOLEAN : QueueChanges(n, m)
  \/ \E b \in BOOLEAN : Confirm(b)
  \/ ShellChunk1
  \/ \E k \in {"ambient", "rx"} : RadioSample(k)
  \/ Window \/ \E r \in gtWorld.asked, ok \in BOOLEAN : EngineAnswers(r, ok) \/ EngineDrops(r)
  \/ \E p \in UsbPorts : Plug(p)
  \/ \E w \in 1 .. MaxWorkers : \/ WorkerAsks(w) \/ WorkerHears(w) \/ EngineServesWorker(w * 10)
                                \/ EngineServesWorker(w * 10 + 1)
                                \/ \E h \in {"done", "failed"} : WorkerEnds(w, h)

GtSpec == GtInit /\ [][GtNext]_gtVars

-----------------------------------------------------------------------------
(* What the screen promises *)

\* The table's cursor and the shell's dialog stay on their node while the registry changes
\* under them, as long as that node is there, so that a command typed or a removal confirmed
\* for one node does not reach another.
StaysOnNode ==
  /\ at(gt.nodes, gt.selected) = gt.wantSel
  /\ at(gt.nodes, gt.shell_node) = gt.wantDlg

\* The port under the cursor changes only by a key, or when a port was unplugged.
StaysOnPort ==
  gt.modal.m = "PairPorts" /\ gt.wantPort # 0 => at(gt.modal.ports, gt.modal.sel) = gt.wantPort

\* A line of a dialog is text of one response, though responses interleave.
DialogPure ==
  \A n \in NodeAddrs :
    /\ \A k \in DOMAIN gt.dialogs[n] : Cardinality(gt.dialogs[n][k]) = 1
    /\ gt.shell_partial[n] # <<>> => gt.shell_partial[n][1].ids \subseteq {gt.shell_partial[n][1].id}

\* A mark of the chart stands on the reading it arrived during, through pauses and clears.
MarksRide ==
  \A k \in DOMAIN gt.marks :
    LET back == gt.ambient_seq - gt.marks[k].seq IN
    /\ back >= 0
    /\ back < ChartBars /\ back < Len(gt.ambient) /\ gt.marks[k].on # 0 =>
         gt.ambient[Len(gt.ambient) - back] = gt.marks[k].on

\* A drawn screen shows no key past its time and no pairing dialog of a window that ended.
PopupsEnd ==
  phase = "key" =>
    /\ gt.modal.m = "Key" => gt.modal.age < KeyShown
    /\ gt.modal.m = "PairCatch" => gt.modal.age < CatchTime
    /\ gt.modal.m = "PairOta" => (IF gt.modal.seen THEN gt.pairing = "open" ELSE gt.modal.age < OtaWait)

ended(w) == worker[w].st \in {"done", "failed"}

\* The outcome of a worker reaches the log, whatever dialog is up by then, unless its user
\* started another one before it was told.
OutcomeTold == \A w \in 1 .. MaxWorkers : ended(w) => w \in gtTold \cup gt.replaced \/ gt.cable = w

\* A command is taken out of a queue only if it stood under the cursor of the list as it was
\* drawn, whatever was queued or answered between the key and the engine.
DropsWhatWasShown == gtWorld.dropped \subseteq gt.shown

\* What the gateway's screen promises its user.
GatewayScreenSound == StaysOnNode /\ StaysOnPort /\ DialogPure /\ MarksRide /\ PopupsEnd /\ OutcomeTold
                      /\ DropsWhatWasShown

\* The outcome of every worker reaches the log (as the comment at its dialog has it).
EveryOutcomeTold == \A w \in 1 .. MaxWorkers : ended(w) => w \in gtTold \/ gt.cable = w

\* The command under the cursor of the queue's list changes by a key only (the code keeps the
\* row, as StaysOnNode and StaysOnPort do not).
StaysOnCommand ==
  [][gt'.modal = gt.modal /\ pendingRow(gt) # 0 => pendingRow(gt') = pendingRow(gt)]_gtVars
=============================================================================
