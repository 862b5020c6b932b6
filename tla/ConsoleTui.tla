----------------------------- MODULE ConsoleTui -----------------------------
(***************************************************************************)
(* The console screen, `tower console` (cli/src/tui.rs): one loop that     *)
(* reads the keyboard, drains the serial port and redraws.  Commands are   *)
(* sent without waiting; their responses are matched when they arrive.     *)
(*                                                                         *)
(* The device is external: it serves commands in order, streams each       *)
(* response as chunks, logs, and may restart or speak another schema.      *)
(* Frames either way may be damaged, and the port may go.  Text is         *)
(* abstract: a chunk ends a line, leaves it open, or is empty; a log line  *)
(* is the number of rows it takes once wrapped.  The prompt's line is its  *)
(* length and the cursor (LineHistory has its editing).                    *)
(***************************************************************************)
EXTENDS Integers, Sequences, FiniteSets, SequencesExt

CONSTANTS
  PendingMax,    (* commands in flight at most                             *)
  PendingIdle,   (* PENDING_IDLE, in ticks                                 *)
  HelloRace,     (* HELLO_RACE, in ticks                                   *)
  ReplyCap,      (* MAX_RESPONSE_BYTES, in chunks                          *)
  Cap,           (* CAP: lines of a pane                                   *)
  CrcRun,        (* FramingWatch::THRESHOLD                                *)
  SeqRange,      (* values of a frame's seq                                *)
  PaneRows,      (* rows of the log pane                                   *)
  PageRows,      (* rows of PageUp and PageDown                            *)
  MaxLine,       (* bound: bytes of the prompt's line                      *)
  TuiWorlds      (* bounds of one behaviour: see CtInit                    *)

VARIABLES
  ct,      (* App                                                          *)
  toDevice, fromDevice, (* frames under way                                *)
  dv,      (* the device: commands to serve, seq, whether its schema is ours *)
  seenOf,  (* history: per command, [cut: a chunk was missed, told,        *)
           (*   closings, next: the chunk the device sends next]           *)
  left     (* what the behaviour may still do                              *)

ctVars == <<ct, toDevice, fromDevice, dv, seenOf, left>>

\* A world bounds commands, completions, log lines, faults, ticks and view keys, and says
\* how many rows a log line may take.
CtInit ==
  /\ left \in TuiWorlds
  /\ ct = [up |-> TRUE, focus |-> "Shell", paused |-> FALSE, scroll |-> 0, logs |-> <<>>, lost |-> 0,
           responses |-> <<>>, partial |-> FALSE, pending |-> <<>>, cmd_id |-> 1, req_id |-> 1,
           req |-> 0, input |-> <<>>, cursor |-> 0, lastSeq |-> -1, gaps |-> FALSE, refused |-> FALSE,
           crc |-> 0, reported |-> FALSE, mismatch |-> "none", warned |-> FALSE,
           frozen |-> <<>>]
  /\ toDevice = <<>> /\ fromDevice = <<>>
  /\ dv = [queue |-> <<>>, seq |-> 0, ours |-> TRUE]
  /\ seenOf = [i \in {} |-> 0]

spend(f) == left[f] > 0 /\ left' = [left EXCEPT ![f] = @ - 1]

push_cap(buf, item) == Append(IF Len(buf) >= Cap THEN Tail(buf) ELSE buf, item)

-----------------------------------------------------------------------------
(* The view of the log pane *)

rowsOf(logs) == FoldSeq(LAMBDA r, n : r + n, 0, logs)

\* The rows on screen, counted over everything the pane ever held: the window's bottom is
\* `scroll` rows above the newest row, and its top never above the oldest row there is.
render_text_pane(a) ==
  LET total == rowsOf(a.logs)
      top == IF total > PaneRows + a.scroll THEN total - PaneRows - a.scroll ELSE 0
  IN {a.lost + r : r \in top + 1 .. (IF top + PaneRows < total THEN top + PaneRows ELSE total)}

\* history: what the pane showed when the view was frozen, with a full window.
freeze(a) ==
  [a EXCEPT !.frozen = IF a.paused /\ rowsOf(a.logs) >= PaneRows THEN <<render_text_pane(a)>> ELSE <<>>]

addLog(a, rows) ==
  [a EXCEPT !.logs = push_cap(@, rows), !.lost = @ + IF Len(a.logs) >= Cap THEN Head(a.logs) ELSE 0]

\* While paused the scroll offset grows with the pane.
push_log(a, rows) ==
  LET b == addLog(a, rows) IN IF a.paused THEN [b EXCEPT !.scroll = @ + 1] ELSE b

-----------------------------------------------------------------------------
(* Commands in flight *)

line(kind, ids) == [kind |-> kind, ids |-> ids]

\* Slip: the line the command was streaming stays open.
Fault_abandon_front(a) ==
  IF a.pending = <<>> THEN a
  ELSE [a EXCEPT !.pending = Tail(@), !.responses = push_cap(@, line("marker", {Head(a.pending).id}))]

\* The oldest command is closed without its response, and a line says so.
abandon_front(a) ==
  IF a.pending = <<>> THEN a
  ELSE [a EXCEPT !.pending = Tail(@), !.partial = FALSE,
                 !.responses = push_cap(@, line("marker", {Head(a.pending).id}))]

\* The first n commands are closed.
abandon_some(a, n) == FoldLeft(LAMBDA b, i : abandon_front(b), a, [i \in 1 .. n |-> i])

abandon_all(a) == abandon_some(a, Len(a.pending))

\* Commands at the front for which the test holds.
leading(p, test(_)) ==
  CHOOSE n \in 0 .. Len(p) : /\ \A i \in 1 .. n : test(p[i])
                             /\ n < Len(p) => ~test(p[n + 1])

expire_pending(a) == abandon_some(a, leading(a.pending, LAMBDA p : p.idle >= PendingIdle))

drop_link(a) == [abandon_all(a) EXCEPT !.up = FALSE, !.req = 0]

\* Text goes to the open line when the last chunk ended mid-line, else to a new one.
append_response_text(a, id, shape) ==
  LET open == a.partial /\ a.responses # <<>>
      rest == IF open THEN Front(a.responses) ELSE a.responses
      cur  == IF open THEN Last(a.responses) ELSE line("text", {})
      full == [cur EXCEPT !.ids = @ \cup {id}]
  IN CASE shape = "none" -> [a EXCEPT !.partial = open]
       [] shape = "open" -> [a EXCEPT !.responses = push_cap(rest, full), !.partial = TRUE]
       [] shape = "line" -> [a EXCEPT !.responses = push_cap(rest, full), !.partial = FALSE]

\* A chunk for any command in flight: the older ones are finished, and are closed.
on_shell_response(a, r) ==
  LET at == {i \in DOMAIN a.pending : a.pending[i].id = r.id} IN
  IF at = {} THEN a
  ELSE
    LET b == abandon_some(a, (CHOOSE i \in at : TRUE) - 1)
        front == Head(b.pending)
        c == [b EXCEPT !.pending = [i \in DOMAIN b.pending |->
                IF i = 1 THEN [front EXCEPT !.idle = 0, !.next = r.chunk + 1, !.got = @ + 1]
                ELSE [b.pending[i] EXCEPT !.idle = 0]]]
        d == IF r.chunk = front.next THEN c
             ELSE [c EXCEPT !.partial = FALSE, !.responses = push_cap(@, line("cut", {r.id}))]
        over == front.got + 1 > ReplyCap
        e == append_response_text(d, r.id, r.shape)
    IN IF over
       THEN [d EXCEPT !.pending = Tail(@), !.partial = FALSE, !.responses = push_cap(@, line("cut", {r.id}))]
       ELSE IF ~r.last THEN e
       ELSE [e EXCEPT !.partial = FALSE, !.pending = Tail(@),
                      !.responses = IF r.failed THEN push_cap(@, line("result", {r.id})) ELSE @]

\* The prompt's line is the widths of its characters in bytes; indices count bytes.
width(s) == FoldSeq(LAMBDA w, n : w + n, 0, s)
upTo(s, b) == SubSeq(s, 1, Cardinality({i \in DOMAIN s : width(SubSeq(s, 1, i)) <= b}))
from(s, b) == SubSeq(s, Len(upTo(s, b)) + 1, Len(s))
is_char_boundary(s, b) == width(upTo(s, b)) = b

\* The start the device gave, if it can be used in the line as it is by now.
completion_start(a, c) ==
  c.start <= a.cursor /\ a.cursor <= width(a.input) /\ is_char_boundary(a.input, c.start)

\* The answer replaces the token the cursor is on, whatever the line is by now.
apply_completion(a, c) ==
  IF ~completion_start(a, c) \/ c.word = <<>> THEN a
  ELSE [a EXCEPT !.input = upTo(@, c.start) \o c.word \o from(@, a.cursor), !.cursor = c.start + width(c.word)]

-----------------------------------------------------------------------------
(* Frames *)

\* A frame the codec refuses: counted, and once, on the run of bad CRCs or the foreign
\* schema (again when the device is named), told in the log pane.
observe(a, bad) ==
  LET run == IF bad THEN a.crc + 1 ELSE 0
      say == run >= CrcRun /\ ~a.reported
      b == [a EXCEPT !.crc = IF run > CrcRun THEN CrcRun ELSE run, !.reported = @ \/ say]
  IN IF say THEN addLog(b, 1) ELSE b

refuse_foreign(a, named) ==
  LET news == named /\ a.mismatch = "unnamed"
      b == [a EXCEPT !.refused = TRUE,
                     !.mismatch = IF named \/ @ = "named" THEN "named" ELSE "unnamed"]
  IN IF ~a.warned \/ news THEN [addLog(b, 1) EXCEPT !.warned = TRUE] ELSE b

\* A Hello starts a new device session: only commands young enough to have reached it stay.
on_hello(a) ==
  [abandon_some(a, leading(a.pending, LAMBDA p : p.sent > HelloRace)) EXCEPT !.lastSeq = -1]

count_seq(a, seq) ==
  [a EXCEPT !.gaps = @ \/ (a.lastSeq # -1 /\ seq # (a.lastSeq + 1) % SeqRange), !.lastSeq = seq]

decoded(a, f) ==
  LET b == count_seq(IF f.t = "hello" THEN on_hello(a) ELSE a, f.seq) IN
  CASE f.t = "hello" -> [b EXCEPT !.mismatch = "none", !.warned = FALSE]
    [] f.t = "log"   -> push_log(b, f.rows)
    [] f.t = "resp"  -> on_shell_response(b, f)
    [] f.t = "compl" -> IF f.req = b.req THEN [apply_completion(b, f) EXCEPT !.req = 0] ELSE b

handle_frame(a, f) ==
  LET b == observe(a, f.t = "bad") IN
  CASE f.t = "bad" -> [b EXCEPT !.refused = TRUE]
    [] f.t = "foreign" -> refuse_foreign(b, f.named)
    [] OTHER -> decoded(b, f)

\* history: how a command in flight stands after the step from a to b.
closings(b) ==
  [i \in DOMAIN seenOf |->
    LET gone == (\E k \in DOMAIN ct.pending : ct.pending[k].id = i)
                /\ ~(\E k \in DOMAIN b.pending : b.pending[k].id = i)
        told == \E k \in DOMAIN b.responses : b.responses[k].kind \in {"marker", "cut"} /\ i \in b.responses[k].ids
    IN [seenOf[i] EXCEPT !.closings = @ + IF gone THEN 1 ELSE 0, !.told = @ \/ told]]

drain_serial ==
  LET f == Head(fromDevice)
      b == handle_frame(ct, f)
  IN
  /\ ct.up /\ fromDevice # <<>> /\ fromDevice' = Tail(fromDevice)
  /\ ct' = b /\ seenOf' = closings(b)
  /\ UNCHANGED <<toDevice, dv, left>>

\* Reading fails: the port is gone, with what it held.
LinkLost ==
  /\ ct.up /\ spend("faults")
  /\ LET b == drop_link(ct) IN ct' = b /\ seenOf' = closings(b)
  /\ fromDevice' = <<>> /\ toDevice' = <<>> /\ UNCHANGED dv

ensure_connected ==
  /\ ~ct.up
  /\ LET b == [abandon_all(ct) EXCEPT !.up = TRUE, !.partial = FALSE, !.req = 0] IN
     ct' = b /\ seenOf' = closings(b)
  /\ UNCHANGED <<toDevice, fromDevice, dv, left>>

\* Time passes and the loop turns: what waited too long is closed.
CtTick ==
  LET up(n, top) == IF n < top THEN n + 1 ELSE n
      aged == [ct EXCEPT !.pending = [i \in DOMAIN ct.pending |->
                [ct.pending[i] EXCEPT !.idle = up(@, PendingIdle), !.sent = up(@, HelloRace + 1)]]]
      b == expire_pending(aged)
  IN
  /\ spend("ticks") /\ ct.pending # <<>>
  /\ ct' = b /\ seenOf' = closings(b) /\ UNCHANGED <<toDevice, fromDevice, dv>>

-----------------------------------------------------------------------------
(* Keys *)

inShell == ct.focus = "Shell"

keepWires == UNCHANGED <<toDevice, fromDevice, dv>>

\* A character at the cursor; Backspace and the cursor keys.
editing == inShell /\ left.tabs > 0 /\ keepWires /\ UNCHANGED <<seenOf, left>>

Insert(w) ==
  /\ editing /\ width(ct.input) + w <= MaxLine
  /\ ct' = [ct EXCEPT !.input = Append(upTo(@, ct.cursor), w) \o from(@, ct.cursor), !.cursor = @ + w]

EditLine(k) ==
  LET l == upTo(ct.input, ct.cursor)
      r == from(ct.input, ct.cursor) IN
  /\ editing
  /\ CASE k = "Backspace" -> l # <<>> /\ ct' = [ct EXCEPT !.input = Front(l) \o r, !.cursor = @ - Last(l)]
       [] k = "Left" -> l # <<>> /\ ct' = [ct EXCEPT !.cursor = @ - Last(l)]
       [] k = "Right" -> r # <<>> /\ ct' = [ct EXCEPT !.cursor = @ + Head(r)]

\* Enter: the frame goes out first; only then is the command echoed and in flight.
send_command(outcome) ==
  /\ inShell /\ spend("cmds")
  /\ CASE outcome = "sent" /\ ct.up ->
            LET a == IF Len(ct.pending) >= PendingMax THEN abandon_front(ct) ELSE ct
                b == [a EXCEPT !.cmd_id = @ + 1, !.partial = FALSE, !.input = <<>>, !.cursor = 0,
                               !.responses = push_cap(@, line("echo", {ct.cmd_id})),
                               !.pending = Append(@, [id |-> ct.cmd_id, next |-> 0, got |-> 0,
                                                      sent |-> 0, idle |-> 0])]
            IN /\ ct' = b
               /\ seenOf' = closings(b) @@ (ct.cmd_id :> [cut |-> FALSE, told |-> FALSE, closings |-> 0, next |-> 0])
               /\ toDevice' = Append(toDevice, [t |-> "command", id |-> ct.cmd_id])
               /\ UNCHANGED <<fromDevice, dv>>
       [] outcome = "too long" \/ ~ct.up -> UNCHANGED <<ct, seenOf>> /\ keepWires
       [] outcome = "write fails" /\ ct.up ->
            LET b == drop_link(ct) IN
            ct' = b /\ seenOf' = closings(b) /\ fromDevice' = <<>> /\ toDevice' = <<>> /\ UNCHANGED dv

\* Tab.  The request names the line as it is now; the answer is applied to the line as it is
\* when it comes.
send_complete ==
  /\ inShell /\ ct.up /\ spend("tabs")
  /\ ct' = [ct EXCEPT !.req = ct.req_id, !.req_id = @ + 1]
  /\ toDevice' = Append(toDevice, [t |-> "complete", id |-> ct.req_id, cursor |-> ct.cursor])
  /\ UNCHANGED <<fromDevice, dv, seenOf>>

\* F1, F5, F8, Shift-F8 and the paging keys.
ViewKey(key) ==
  /\ spend("keys") /\ keepWires /\ UNCHANGED seenOf
  /\ ct' = CASE key = "F1" ->
                  [ct EXCEPT !.focus = CASE @ = "Shell" -> "Events" [] @ = "Events" -> "Logs" [] @ = "Logs" -> "Shell"]
             [] key = "F5" ->
                  freeze([ct EXCEPT !.paused = ~@, !.scroll = IF ct.paused THEN 0 ELSE @])
             [] key = "F8" ->
                  IF ct.focus = "Logs" THEN freeze([ct EXCEPT !.logs = <<>>, !.lost = @ + rowsOf(ct.logs)])
                  ELSE IF inShell THEN [ct EXCEPT !.responses = <<>>] ELSE ct
             [] key = "Shift-F8" ->
                  freeze([ct EXCEPT !.logs = <<>>, !.lost = @ + rowsOf(ct.logs), !.responses = <<>>, !.scroll = 0])
             [] key = "PageUp" -> IF ct.focus = "Logs" THEN freeze([ct EXCEPT !.scroll = @ + PageRows]) ELSE ct
             [] key = "PageDown" ->
                  IF ct.focus = "Logs"
                  THEN freeze([ct EXCEPT !.scroll = IF @ > PageRows THEN @ - PageRows ELSE 0]) ELSE ct

-----------------------------------------------------------------------------
(* The device *)

\* A frame leaves the device; a damaged one arrives as nothing the codec accepts.
emit(f, bad) ==
  /\ fromDevice' = IF ~ct.up THEN fromDevice
                   ELSE Append(fromDevice, IF bad THEN [t |-> "bad"]
                                           ELSE IF dv.ours THEN f
                                           ELSE [t |-> "foreign", named |-> f.t = "hello"])

DeviceTakes(bad) ==
  LET f == Head(toDevice) IN
  /\ toDevice # <<>> /\ toDevice' = Tail(toDevice) /\ (bad => left.faults > 0)
  /\ left' = IF bad THEN [left EXCEPT !.faults = @ - 1] ELSE left
  /\ dv' = IF bad \/ ~dv.ours \/ f.t # "command" THEN dv ELSE [dv EXCEPT !.queue = Append(@, f.id)]
  /\ IF ~bad /\ dv.ours /\ f.t = "complete"
       THEN \E start \in {0, f.cursor}, w \in {<<>>, <<2>>} :
              /\ start + width(w) <= MaxLine
              /\ emit([t |-> "compl", req |-> f.id, start |-> start, word |-> w, seq |-> dv.seq], FALSE)
       ELSE UNCHANGED fromDevice
  /\ UNCHANGED <<ct, seenOf>>

\* The next chunk of the oldest command's response.
DeviceStreams(shape, last, bad) ==
  LET id == Head(dv.queue)
      n == seenOf[id].next
  IN
  /\ dv.queue # <<>> /\ (bad => left.faults > 0) /\ Len(fromDevice) < 3
  /\ (~last => n <= ReplyCap) /\ (shape = "none" => last)
  /\ left' = IF bad THEN [left EXCEPT !.faults = @ - 1] ELSE left
  /\ emit([t |-> "resp", id |-> id, chunk |-> n, shape |-> shape, last |-> last, failed |-> shape = "none",
           seq |-> dv.seq], bad)
  /\ dv' = [dv EXCEPT !.seq = (@ + 1) % SeqRange, !.queue = IF last THEN Tail(@) ELSE @]
  /\ seenOf' = [seenOf EXCEPT ![id].next = n + 1, ![id].cut = @ \/ bad \/ ~ct.up]
  /\ UNCHANGED <<ct, toDevice>>

DeviceLogs(rows, bad) ==
  /\ spend("logs") /\ rows <= left.rows /\ Len(fromDevice) < 2
  /\ emit([t |-> "log", rows |-> rows, seq |-> dv.seq], bad)
  /\ dv' = [dv EXCEPT !.seq = (@ + 1) % SeqRange] /\ UNCHANGED <<ct, toDevice, seenOf>>

\* A restart, perhaps into another firmware: what it was doing is lost; it says Hello.
DeviceRestarts(ours) ==
  /\ spend("faults")
  /\ dv' = [queue |-> <<>>, seq |-> 1, ours |-> ours]
  /\ fromDevice' = IF ct.up THEN Append(fromDevice, IF ours THEN [t |-> "hello", seq |-> 0]
                                                    ELSE [t |-> "foreign", named |-> TRUE])
                   ELSE fromDevice
  /\ seenOf' = [i \in DOMAIN seenOf |-> [seenOf[i] EXCEPT !.cut = @ \/ i \in ToSet(dv.queue)]]
  /\ UNCHANGED <<ct, toDevice>>

CtNext ==
  \/ drain_serial \/ LinkLost \/ ensure_connected \/ CtTick \/ send_complete
  \/ \E o \in {"sent", "too long", "write fails"} : send_command(o)
  \/ \E k \in {1, 2} : Insert(k)
  \/ \E k \in {"Backspace", "Left", "Right"} : EditLine(k)
  \/ \E k \in {"F1", "F5", "F8", "Shift-F8", "PageUp", "PageDown"} : ViewKey(k)
  \/ \E bad \in BOOLEAN : DeviceTakes(bad) \/ DeviceRestarts(bad)
  \/ \E s \in {"open", "line", "none"}, l, bad \in BOOLEAN : DeviceStreams(s, l, bad)
  \/ \E r \in 1 .. 2, bad \in BOOLEAN : DeviceLogs(r, bad)

CtSpec == CtInit /\ [][CtNext]_ctVars

-----------------------------------------------------------------------------
(* What the screen shows *)

inFlight == {ct.pending[k].id : k \in DOMAIN ct.pending}

\* Every command sent is in flight or was closed exactly once; a command that waits has heard
\* something, or its idle time is not over, whatever was lost; and they are in sending order.
NothingWedged ==
  /\ \A i \in DOMAIN seenOf : seenOf[i].closings = IF i \in inFlight THEN 0 ELSE 1
  /\ Len(ct.pending) <= PendingMax
  /\ \A k \in DOMAIN ct.pending : ct.pending[k].idle < PendingIdle
  /\ \A k \in 1 .. Len(ct.pending) - 1 :
       /\ ct.pending[k].id < ct.pending[k + 1].id
       /\ ct.pending[k].idle >= ct.pending[k + 1].idle /\ ct.pending[k].sent >= ct.pending[k + 1].sent

\* A line of the scrollback is the text of one command: a chunk that continues the open line
\* continues its own command's, never a marker or an echo.
LinesPure ==
  \A k \in DOMAIN ct.responses :
    Cardinality(ct.responses[k].ids) = 1

\* A command that was closed though chunks of its response are missing left a line that says
\* so; nothing passes for a whole answer that is not.
CutIsTold ==
  \A i \in DOMAIN seenOf : seenOf[i].cut /\ i \notin inFlight => seenOf[i].told

\* A completion that comes after the line changed, or with an index inside a character, leaves
\* the cursor on a character's edge: every index of the line that follows is taken from it.
PromptSound == ct.cursor <= width(ct.input) /\ is_char_boundary(ct.input, ct.cursor)

\* What the console's screen promises its user.
ConsoleScreenSound == NothingWedged /\ LinesPure /\ CutIsTold /\ PromptSound

\* While paused, the log pane shows what it showed when it was paused (until a key moves it).
PauseFreezes == ct.paused /\ ct.frozen # <<>> => render_text_pane(ct) = ct.frozen[1]
=============================================================================
