------------------------------ MODULE Console -------------------------------
(***************************************************************************)
(* The framed console (firmware/src/console.rs, console/usb.rs, crates/    *)
(* protocol): producers at any priority queue encoded messages in a byte   *)
(* ring, one writer takes them out, numbers, frames and writes them; the   *)
(* host's `tower logs` (cli/src/render.rs) decodes, checks the numbers     *)
(* and shows what was lost.  The link comes and goes with the cable, and   *)
(* on the rev 1.3 board a host may stop reading.                           *)
(*                                                                         *)
(* Messages are told apart by their length only.  A frame is written in    *)
(* two halves, so that it can be cut; the decoder of the host is clean or  *)
(* holds the first half of one.                                            *)
(***************************************************************************)
EXTENDS Integers, Sequences, FiniteSets

CONSTANTS
  RingBytes,    (* TX_RING                                                 *)
  Lens,         (* payload lengths                                         *)
  MaxPayload,   (* longest payload a frame carries                         *)
  Producers,    (* tasks that wait for room (events, responses, uplinks)   *)
  SeqWrap,      (* frame numbers wrap here                                 *)
  MaxProduced,  (* bound: messages produced                                *)
  MaxLinks,     (* bound: links brought up                                 *)
  Stalls        (* bound: times the host stops reading                     *)

ASSUME ConsoleAssumption ==
  /\ RingBytes \in Nat /\ MaxPayload \in Nat /\ Lens \subseteq Nat \ {0}
  /\ RingBytes >= 2 + MaxPayload + 2 /\ SeqWrap \in Nat \ {0}

VARIABLES
  ring,       (* TX.ring: the records, oldest first                        *)
  marker,     (* TX.marker_queued                                          *)
  dropped,    (* DROPPED                                                   *)
  up,         (* CONSOLE_UP                                                *)
  parked,     (* producers waiting for room: what they wait with           *)
  writer,     (* writer_loop: where it is, its frame, its cancel guard     *)
  stalled,    (* CdcTx: the host has stopped reading                       *)
  txSeq,      (* the writer's next frame number                            *)
  rxq,        (* SHELL_RX and MGMT_RX                                      *)
  screen,     (* the host: its decoder and RenderState                     *)
  tally       (* history: produced, shown, told as dropped, cut, glued     *)

conVars == <<ring, marker, dropped, up, parked, writer, stalled, txSeq, rxq, screen, tally>>

Overhead == 2
MarkerReserve == Overhead
Marker == [t |-> "dropped", len |-> 0]
NoFrame == [t |-> "none", seq |-> 0, count |-> 0]
Off == [at |-> "off", frame |-> NoFrame, guard |-> 0]

-----------------------------------------------------------------------------
(* The frame decoder *)

FrameKinds == [length : {"short", "fits", "long"}, crc : BOOLEAN, tag : {"ours", "other"}, known : BOOLEAN]

\* Length, then the CRC, and only then the tag and the type.
decode_frame(f) ==
  IF f.length = "short" THEN "TooShort" ELSE IF f.length = "long" THEN "TooLong"
  ELSE IF ~f.crc THEN "BadCrc" ELSE IF f.tag # "ours" THEN "SchemaMismatch"
  ELSE IF ~f.known THEN "BadType" ELSE "Ok"

-----------------------------------------------------------------------------
(* The queue *)

ringUsed(r) == LET f[i \in 0..Len(r)] == IF i = 0 THEN 0 ELSE f[i-1] + Overhead + r[i].len IN f[Len(r)]
room(r) == RingBytes - ringUsed(r)
messages(r) == Cardinality({i \in DOMAIN r : r[i].t # "dropped"})

\* Every message leaves room for one marker.
fitsRing(r, len) == room(r) >= Overhead + len + MarkerReserve

woken(w) == [p \in Producers |-> [w[p] EXCEPT !.woken = @ \/ w[p].len > 0]]

\* Slip: the marker is queued only if there is room for a message.
Fault_mark_drop(r) == IF fitsRing(r, 0) THEN Append(r, Marker) ELSE r

\* The marker's place is where messages went missing.
mark_drop(r) == IF room(r) >= Overhead THEN Append(r, Marker) ELSE r

\* add_dropped(n) on the queue r: counted, and the marker queued unless one is.
Dropping(n, r, m) ==
  /\ dropped' = dropped + n
  /\ ring' = IF m THEN r ELSE mark_drop(r)
  /\ marker' = (m \/ ring' # r)

\* drain_queue: what the queue held is dropped; the marker stands for it at the next link.
Drained(extra) ==
  LET n == messages(ring) IN
  IF n + extra > 0 \/ marker THEN Dropping(n + extra, <<>>, FALSE)
  ELSE UNCHANGED <<ring, marker, dropped>>

-----------------------------------------------------------------------------
(* Producers *)

Produce(n) ==
  /\ tally.produced < MaxProduced /\ rxq = [shell |-> 0, mgmt |-> 0]
  /\ tally' = [tally EXCEPT !.produced = @ + n]
keepLink == UNCHANGED <<up, writer, stalled, txSeq, rxq, screen>>

Queued(len) == ring' = Append(ring, [t |-> "msg", len |-> len]) /\ UNCHANGED <<marker, dropped>>
pushes(len) == len <= MaxPayload /\ fitsRing(ring, len)

\* The log backend and print!, from any priority: queued, or dropped.
try_enqueue(len) ==
  /\ Produce(1)
  /\ IF pushes(len) THEN Queued(len) ELSE Dropping(1, ring, marker)
  /\ UNCHANGED parked /\ keepLink

\* event, shell and management responses, uplinks: wait for room while the console is up.
enqueue(p, len) ==
  /\ parked[p].len = 0
  /\ IF len <= MaxPayload /\ up /\ ~fitsRing(ring, len)
     THEN /\ parked' = [parked EXCEPT ![p] = [len |-> len, woken |-> FALSE]]
          /\ tally.produced < MaxProduced /\ UNCHANGED <<tally, ring, marker, dropped>>
     ELSE /\ Produce(1) /\ UNCHANGED parked
          /\ IF pushes(len) THEN Queued(len) ELSE Dropping(1, ring, marker)
  /\ keepLink

\* A waiting producer is polled again: the writer gone, it drops instead.
Repoll(p) ==
  /\ parked[p].len > 0 /\ parked[p].woken
  /\ IF up /\ ~fitsRing(ring, parked[p].len)
     THEN parked' = [parked EXCEPT ![p].woken = FALSE] /\ UNCHANGED <<tally, ring, marker, dropped>>
     ELSE /\ parked' = [parked EXCEPT ![p] = [len |-> 0, woken |-> FALSE]]
          /\ tally' = [tally EXCEPT !.produced = @ + 1]
          /\ IF fitsRing(ring, parked[p].len) THEN Queued(parked[p].len) ELSE Dropping(1, ring, marker)
  /\ keepLink

-----------------------------------------------------------------------------
(* The host: FrameDecoder and render *)

\* The first half of a frame behind another's: the two are glued.
HalfIn == screen' = [screen EXCEPT !.half = TRUE, !.glued = screen.half]

\* The number of a frame is not the one after the last.
seqGap(s, seq) == s.last # -1 /\ seq # (s.last + 1) % SeqWrap

\* A frame ends: shown unless it was glued to the half before it, its number checked.
FrameEnds(f) ==
  LET s == IF f.t = "hello" THEN [screen EXCEPT !.last = -1] ELSE screen IN
  IF screen.glued
  THEN screen' = [screen EXCEPT !.half = FALSE, !.glued = FALSE] /\ tally' = [tally EXCEPT !.glued = @ + 1]
  ELSE /\ screen' = [s EXCEPT !.half = FALSE, !.last = f.seq, !.gaps = @ \/ seqGap(s, f.seq)]
       /\ tally' = [tally EXCEPT !.shown = @ + (IF f.t = "msg" THEN 1 ELSE 0), !.told = @ + f.count]

-----------------------------------------------------------------------------
(* The link and its writer *)

keepQueue == UNCHANGED <<ring, marker, dropped, parked>>

framed(f) == writer' = [at |-> "ready", frame |-> [f EXCEPT !.seq = txSeq],
                        guard |-> IF f.t = "hello" THEN 0 ELSE IF f.t = "msg" THEN 1 ELSE f.count]
             /\ txSeq' = (txSeq + 1) % SeqWrap

\* A host is there (manager, supervisor): the writer starts with a lone delimiter and a Hello.
LinkUp ==
  /\ writer.at = "off" /\ tally.links < MaxLinks
  /\ up' = TRUE /\ stalled' = FALSE
  /\ writer' = [at |-> "ready", frame |-> [NoFrame EXCEPT !.t = "hello"], guard |-> 0] /\ txSeq' = 1 % SeqWrap
  /\ screen' = [screen EXCEPT !.half = FALSE, !.glued = FALSE]
  /\ tally' = [tally EXCEPT !.links = @ + 1, !.cut = 0]
  /\ UNCHANGED rxq /\ keepQueue

\* The oldest record is taken and the waiting producers woken.
Pop ==
  /\ writer.at = "idle" /\ ring # <<>>
  /\ writer' = [writer EXCEPT !.at = "popped", !.frame = [NoFrame EXCEPT !.t = Head(ring).t]]
  /\ ring' = Tail(ring) /\ marker' = (marker /\ Head(ring).t # "dropped") /\ parked' = woken(parked)
  /\ UNCHANGED <<dropped, up, stalled, txSeq, rxq, screen, tally>>

\* It is numbered and framed; a marker takes every drop counted so far, also those counted
\* since it was taken out (a logger may interrupt in between).
Frame ==
  /\ writer.at = "popped"
  /\ IF writer.frame.t = "dropped"
     THEN /\ dropped' = 0
          /\ IF dropped = 0 THEN writer' = [Off EXCEPT !.at = "idle"] /\ UNCHANGED txSeq
             ELSE framed([writer.frame EXCEPT !.count = dropped])
     ELSE framed(writer.frame) /\ UNCHANGED dropped
  /\ UNCHANGED <<ring, marker, parked, up, stalled, rxq, screen, tally>>

WriteHalf ==
  /\ writer.at = "ready" /\ ~stalled
  /\ writer' = [writer EXCEPT !.at = "sending"] /\ HalfIn
  /\ UNCHANGED <<up, stalled, txSeq, rxq, tally>> /\ keepQueue

\* The rest is in the link; the bounded drain that follows only delays the next one.
WriteEnd ==
  /\ writer.at = "sending" /\ ~stalled
  /\ writer' = [Off EXCEPT !.at = "idle"] /\ FrameEnds(writer.frame)
  /\ UNCHANGED <<up, stalled, txSeq, rxq>> /\ keepQueue

\* USB: a packet is not taken in time.  The frame is given up, producers wait no longer, and
\* what is queued is dropped.
Stall ==
  /\ writer.at \in {"ready", "sending"} /\ ~stalled /\ tally.stalls < Stalls
  /\ stalled' = TRUE /\ up' = FALSE /\ parked' = woken(parked) /\ Drained(0)
  /\ writer' = [Off EXCEPT !.at = "idle"]
  /\ tally' = [tally EXCEPT !.stalls = @ + 1, !.cut = @ + 1, !.lost = @ + writer.guard]
  /\ UNCHANGED <<txSeq, rxq, screen>>

\* The host reads again: the pending packet is a lone delimiter, which ends the cut frame.
Unstall ==
  /\ writer.at = "ready" /\ stalled /\ stalled' = FALSE /\ up' = TRUE
  /\ screen' = [screen EXCEPT !.half = FALSE, !.glued = FALSE]
  /\ UNCHANGED <<writer, txSeq, rxq, tally>> /\ keepQueue

\* The cable is pulled, the port closed or the bus suspended: the writer is cancelled where it
\* waits, and what it had in hand counts as dropped.
LinkDown ==
  /\ writer.at \in {"idle", "ready", "sending"}
  /\ up' = FALSE /\ writer' = Off /\ stalled' = FALSE /\ parked' = woken(parked)
  /\ IF writer.guard > 0 THEN Dropping(writer.guard, ring, marker) ELSE UNCHANGED <<ring, marker, dropped>>
  /\ UNCHANGED <<txSeq, rxq, screen, tally>>

\* While there is no link the managers' poll empties the queue.
PollDrain ==
  /\ writer.at = "off" /\ messages(ring) > 0
  /\ Drained(0) /\ parked' = woken(parked)
  /\ UNCHANGED <<up, writer, stalled, txSeq, rxq, screen, tally>>

\* A panic or a fault: the record, numbered 0, goes out whole behind a delimiter if the USART
\* runs, then the device resets; a reboot waits for the queue instead (flush), a bounded time.
Reset(panic) ==
  /\ tally.resets < 1
  /\ screen' = IF panic /\ writer.at # "off"
               THEN [screen EXCEPT !.half = FALSE, !.glued = FALSE, !.last = 0, !.crashGap = seqGap(screen, 0)]
               ELSE screen
  /\ ring' = <<>> /\ marker' = FALSE /\ dropped' = 0 /\ up' = FALSE /\ writer' = Off /\ stalled' = FALSE
  /\ parked' = [p \in Producers |-> [len |-> 0, woken |-> FALSE]]
  /\ txSeq' = 0 /\ rxq' = [shell |-> 0, mgmt |-> 0]
  /\ tally' = [tally EXCEPT !.resets = @ + 1, !.produced = 0, !.shown = 0, !.told = 0, !.lost = 0, !.cut = 0]

-----------------------------------------------------------------------------
(* The receive side *)

\* A host frame is routed by its type, or dropped when its channel is full or it is too long.
\* The two sides share nothing: this one is explored before the first message.
route_frame(f, type, short) ==
  /\ writer.at # "off" /\ tally.produced = 0
  /\ CASE decode_frame(f) # "Ok" -> UNCHANGED rxq
       [] type = "shell" /\ short /\ rxq.shell < 2 -> rxq' = [rxq EXCEPT !.shell = @ + 1]
       [] type = "mgmt" /\ short /\ rxq.mgmt < 1 -> rxq' = [rxq EXCEPT !.mgmt = @ + 1]
       [] OTHER -> UNCHANGED rxq
  /\ UNCHANGED <<ring, marker, dropped, up, parked, writer, stalled, txSeq, screen, tally>>

\* The shell's task and the app's loop take them (SHELL_RX.receive, mgmt_try_next).
RxTaken(type) ==
  /\ rxq[type] > 0 /\ tally.produced = 0 /\ rxq' = [rxq EXCEPT ![type] = @ - 1]
  /\ UNCHANGED <<ring, marker, dropped, up, parked, writer, stalled, txSeq, screen, tally>>

-----------------------------------------------------------------------------
ConInit ==
  /\ ring = <<>> /\ marker = FALSE /\ dropped = 0 /\ up = FALSE /\ stalled = FALSE
  /\ parked = [p \in Producers |-> [len |-> 0, woken |-> FALSE]]
  /\ writer = Off /\ txSeq = 0 /\ rxq = [shell |-> 0, mgmt |-> 0]
  /\ screen = [half |-> FALSE, glued |-> FALSE, last |-> -1, gaps |-> FALSE, crashGap |-> FALSE]
  /\ tally = [produced |-> 0, shown |-> 0, told |-> 0, lost |-> 0, cut |-> 0, glued |-> 0,
              links |-> 0, stalls |-> 0, resets |-> 0]

ConNext ==
  \/ \E len \in Lens : try_enqueue(len) \/ \E p \in Producers : enqueue(p, len)
  \/ \E p \in Producers : Repoll(p)
  \/ LinkUp \/ Pop \/ Frame \/ WriteHalf \/ WriteEnd \/ Stall \/ Unstall \/ LinkDown \/ PollDrain
  \/ \E panic \in BOOLEAN : Reset(panic)
  \/ \E f \in FrameKinds, type \in {"shell", "mgmt", "other"}, short \in BOOLEAN : route_frame(f, type, short)
  \/ \E type \in {"shell", "mgmt"} : RxTaken(type)

-----------------------------------------------------------------------------
(* Properties *)

(* Every message is shown, still queued or in the writer's hand, counted   *)
(* as dropped, told as dropped, or in a frame a stalled host never took,   *)
(* whatever cancelled, interrupted or emptied it (OnCancelDrop,            *)
(* drain_queue, take_dropped).                                             *)
Accounted ==
  tally.produced =
    tally.shown + tally.told + dropped + messages(ring) + writer.guard + tally.lost
      + (IF writer.at = "popped" /\ writer.frame.t = "msg" THEN 1 ELSE 0)

(* Drops that were counted always have their marker ahead: queued, or just *)
(* taken out; the host never waits for the next drop to hear of the last.  *)
MarkerStands == dropped > 0 => marker \/ (writer.at = "popped" /\ writer.frame.t = "dropped")

(* A producer sleeps on a full queue only while a writer is there to make  *)
(* room: an unplug, a stalled host or a drained queue wakes it.            *)
NoLostWake ==
  \A p \in Producers : parked[p].len > 0 /\ ~parked[p].woken =>
    /\ up /\ writer.at # "off" /\ ~stalled
    /\ ring # <<>> \/ writer.at # "idle"

(* A frame cut by an unplug, a stall or a reset spoils no frame after it.  *)
NeverGlued == tally.glued = 0

(* On one link the host's number for the next frame is behind the          *)
(* writer's by the frames in hand and by the ones a stall cut: those show  *)
(* as a gap with the next frame, and no other frame of a writer does,      *)
(* also after a crash and its record.                                      *)
GapsAreReal ==
  /\ writer.at \in {"idle", "popped"} /\ screen.last # -1 /\ tally.cut = 0 => (screen.last + 1) % SeqWrap = txSeq
  /\ screen.gaps => tally.stalls > 0

(* Not kept: a gap always means loss on the wire.  The record of a panic   *)
(* is numbered 0 and meets the same check, so the host tells of a gap      *)
(* where nothing was lost (blocking_emit_error, render).                   *)
NoFalseGap == screen.crashGap => tally.stalls > 0

ConsoleSound == Accounted /\ MarkerStands /\ NoLostWake /\ NeverGlued /\ GapsAreReal
=============================================================================
