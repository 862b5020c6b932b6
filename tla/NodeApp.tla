------------------------------ MODULE NodeApp -------------------------------
(***************************************************************************)
(* The main loop of a battery node (firmware/apps/radio_push_button.rs):   *)
(* one select over the button's events, the timers, the accelerometer's    *)
(* interrupt and the cable's requests, and the sends, pairing attempts and *)
(* sensor reads it awaits meanwhile, while the button's task goes on.      *)
(*                                                                         *)
(* Deadlines are kept as the ticks left.  A tick passes only when the loop *)
(* waits.  How a send or a pairing attempt ends is chosen freely; Pairing  *)
(* and ConfirmedLink model them.                                           *)
(***************************************************************************)
EXTENDS Button

CONSTANTS
  RepairHold,             (* REPAIR_HOLD                                   *)
  Period, Heartbeat,      (* therm-period and heartbeat                    *)
  Delta,                  (* therm-delta                                   *)
  Temps,                  (* temperatures                                  *)
  UnpairedCue,            (* UNPAIRED_CUE                                  *)
  AccelUplinkMin,         (* ACCEL_UPLINK_MIN                              *)
  TiltInterval,           (* the driver's min_interval                     *)
  BackoffMin, BackoffTop, (* ACCEL_BACKOFF_MIN, ACCEL_BACKOFF_MAX          *)
  Rearm, StuckReads,      (* ACCEL_REARM, ACCEL_STUCK_READS                *)
  Faces,                  (* faces up; 0 is unknown                        *)
  ResyncEvery,            (* FHSS_RESYNC                                   *)
  ResyncWait,             (* the minute after a resync that heard nothing  *)
  ScanTicks, MissedSlots, (* FHSS_SCAN_TICKS, FHSS_MISSED_BEACONS          *)
  Enabled,                (* the button events that are reported           *)
  Worlds                  (* bounds: the start, ticks, a wait, budgets     *)

ASSUME HoldTime < RepairHold /\ RepairHold <= HeldCap /\ ButtonDepth >= 2

VARIABLES
  app,    (* the loop's variables and where it is                          *)
  sending, (* the send under way: what it carries and the slots it used    *)
  tilt,   (* LIS2DH12: the latch, a stuck line, the face up, last_tilt     *)
  world,  (* the environment: budgets, temperature, a cable request, ticks *)
  nodeLog (* history                                                       *)

nodeVars == <<buttonVars, app, sending, tilt, world, nodeLog>>

None == -1
MissCap == 3
low(a, b) == IF a < b THEN a ELSE b
down(t) == IF t > 0 THEN t - 1 ELSE t

uplink_backoff_s(misses) == low(Period * 2 ^ misses, IF Heartbeat > Period THEN Heartbeat ELSE Period)

NoSend == [what |-> "none", face |-> 0, temp |-> 0, tries |-> 0, scans |-> 0, missed |-> 0]

\* run: the loop's variables after boot.
Boot(paired, hops) ==
  [pc |-> "select", paired |-> paired, hops |-> hops, pressed_at |-> None, misses |-> 0,
   temp |-> 0, heartbeat |-> 0, hbDue |-> FALSE, last_temp |-> None, temp_age |-> 0,
   cue |-> IF paired THEN None ELSE UnpairedCue, led |-> IF paired THEN "off" ELSE "unpaired",
   quiet |-> 0, backoff |-> BackoffMin, empties |-> 0, hold |-> 0, pending |-> None,
   anchor |-> None, resync |-> 0, busy |-> 0, watch |-> 0, settling |-> FALSE]

NodeInit ==
  /\ pin = FALSE /\ scan = ScanStart /\ evq = <<>>
  /\ sending = NoSend
  /\ tilt = [latch |-> FALSE, stuck |-> FALSE, face |-> 0, last |-> None]
  /\ world \in Worlds /\ app = Boot(world.paired, world.hops)
  /\ nodeLog = [asked |-> TRUE, presses |-> 0, attempts |-> 0, spin |-> 0, paced |-> AccelUplinkMin, seen |-> 0,
                visited |-> FALSE, lost |-> FALSE]

-----------------------------------------------------------------------------
(* What the loop waits for, in the order select4 polls it *)

accel_high == tilt.latch \/ tilt.stuck
resync_due == app.hops /\ app.paired /\ app.anchor = 0 /\ app.resync = 0
repair_due == app.paired /\ app.pressed_at # None
timer_due == \/ app.temp = 0 \/ app.heartbeat = 0 \/ app.cue = 0
             \/ repair_due /\ app.pressed_at = RepairHold
             \/ app.pending # None /\ app.hold = 0
             \/ resync_due
atSelect == app.pc = "select"
buttonReady == evq # <<>>
accelReady == app.quiet = 0 /\ accel_high

-----------------------------------------------------------------------------
(* Sends *)

\* uplink: the loop is parked in radio_send.
Uplink(a, what, face, temp) ==
  /\ app' = [a EXCEPT !.pc = "send", !.busy = 0]
  /\ sending' = [NoSend EXCEPT !.what = what, !.face = face, !.temp = temp]

note(misses, delivered) == IF delivered THEN 0 ELSE low(misses + 1, MissCap)

\* The end of the accelerometer's arm: back off from an unreadable or a stuck line, pause on a high one.
tilt_done(a, kind, high) ==
  LET empties == IF kind = "Nothing" /\ high THEN low(a.empties + 1, StuckReads) ELSE 0
  IN IF kind = "ReadFailed" \/ empties = StuckReads
     THEN [a EXCEPT !.pc = "select", !.empties = empties, !.quiet = a.backoff, !.backoff = low(2 * @, BackoffTop)]
     ELSE [a EXCEPT !.pc = "select", !.empties = empties, !.quiet = IF high THEN Rearm ELSE 0, !.backoff = BackoffMin]

\* The send ends: the miss counter, and what its caller does next.
Sent(a, result) ==
  LET ok == result = "Delivered"
      b == [a EXCEPT !.misses = note(@, ok), !.busy = 0]
  IN /\ app' = CASE sending.what = "button" -> [b EXCEPT !.pc = "select"]
                 [] sending.what = "temp" ->
                      [b EXCEPT !.pc = "info", !.temp = uplink_backoff_s(b.misses),
                                !.last_temp = IF ok THEN sending.temp ELSE @, !.temp_age = IF ok THEN 0 ELSE @]
                 [] sending.what = "info" -> [b EXCEPT !.pc = "motion"]
                 [] sending.what = "pending" -> [b EXCEPT !.pc = "select", !.hold = AccelUplinkMin]
                 [] sending.what = "motion" -> tilt_done([b EXCEPT !.hold = AccelUplinkMin], "Event", accel_high)
     /\ sending' = NoSend
     /\ nodeLog' = IF sending.what \in {"motion", "pending"} THEN [nodeLog EXCEPT !.paced = 0] ELSE nodeLog

\* radio_send off the hop schedule: the confirmed sending, whatever it takes.
SendEnds(result) ==
  /\ app.pc = "send" /\ ~app.hops
  /\ Sent(app, result)
  /\ UNCHANGED <<buttonVars, tilt, world>>

\* radio_send hopping, one slot: scanning without an anchor; a cable request ends the scan.
ScanSlot(found) ==
  /\ app.pc = "send" /\ app.hops /\ app.anchor = None /\ app.busy > 0
  /\ LET a == [app EXCEPT !.busy = 0, !.anchor = IF found THEN ResyncEvery ELSE None] IN
     IF sending.scans + 1 >= ScanTicks \/ world.cable # "none"
     THEN ~found /\ Sent(a, "NotSynced")
     ELSE /\ app' = a /\ sending' = [sending EXCEPT !.scans = @ + 1] /\ UNCHANGED nodeLog
  /\ UNCHANGED <<buttonVars, tilt, world>>

\* A slot tracked by prediction: its beacon missed (and perhaps the anchor given up), or heard and the send made on it.
TrackSlot(heard, result) ==
  /\ app.pc = "send" /\ app.hops /\ app.anchor # None /\ app.busy > 0
  /\ LET a == [app EXCEPT !.busy = 0, !.anchor = IF heard THEN ResyncEvery ELSE @] IN
     CASE ~heard /\ sending.missed + 1 >= MissedSlots -> Sent(a, "NotDelivered")
       [] ~heard -> /\ sending' = [sending EXCEPT !.missed = @ + 1]
                    /\ app' \in {a, [a EXCEPT !.anchor = None]} /\ UNCHANGED nodeLog
       [] heard /\ result = "Delivered" -> Sent(a, result)
       [] heard /\ result = "NotDelivered" /\ sending.tries = 1 -> Sent(a, result)
       [] heard /\ result = "NotDelivered" /\ sending.tries = 0 ->
            app' = a /\ sending' = [sending EXCEPT !.tries = 1] /\ UNCHANGED nodeLog
       [] OTHER -> app' = a /\ UNCHANGED <<sending, nodeLog>>
  /\ UNCHANGED <<buttonVars, tilt, world>>

-----------------------------------------------------------------------------
(* Pairing attempts *)

\* pair: at is what asked for it: a hold, the re-pair gesture or the cable.
Pair(at, a) ==
  /\ app' = [a EXCEPT !.pc = at, !.led = "joining", !.busy = 0, !.watch = 0, !.settling = FALSE]
  /\ nodeLog' = [nodeLog EXCEPT !.attempts = IF at = "join" THEN @ ELSE @ + 1,
                   !.asked = @ /\ (at = "repair" =>
                     scan.pressed /\ (scan.held >= RepairHold \/ nodeLog.lost \/ evq # <<>>))]

\* The attempt ends.  A pairing in force before it stays unless the new one commits.
PairEnds(ok) ==
  /\ app.pc \in {"hold", "repair", "join"} /\ app.busy > 0
  /\ LET p == app.paired \/ ok
         a == [app EXCEPT !.paired = p, !.busy = 0, !.watch = 0, !.settling = FALSE,
                 !.led = IF p THEN "off" ELSE "unpaired",
                 !.cue = CASE app.pc = "repair" -> @ [] p -> None [] OTHER -> UnpairedCue,
                 !.misses = IF ok \/ app.pc = "join" THEN 0 ELSE @,
                 !.anchor = IF ok THEN None ELSE @]
     IN app' = [a EXCEPT !.pc = IF app.pc = "repair" THEN "due" ELSE "select"]
  /\ nodeLog' = [nodeLog EXCEPT !.visited = @ \/ app.pc = "join", !.spin = 0]
  /\ UNCHANGED <<buttonVars, sending, tilt, world>>

watching == app.pc \in {"hold", "repair"} /\ app.watch = 0

\* showing_events: an event is counted and shown, and does nothing else.
WatchEvent ==
  /\ watching /\ buttonReady
  /\ evq' = Tail(evq)
  /\ UNCHANGED <<pin, scan, app, sending, tilt, world, nodeLog>>

-----------------------------------------------------------------------------
(* The button's arm *)

TakeEvent ==
  /\ atSelect /\ buttonReady
  /\ LET ev == Head(evq)
         a == [app EXCEPT !.pressed_at = CASE ev = "Press" -> 0 [] ev = "Release" -> None [] OTHER -> @]
         unpaired == [a EXCEPT !.led = "unpaired", !.cue = UnpairedCue]
         paired == IF a.misses > 0 THEN [a EXCEPT !.misses = 0, !.temp = low(@, Period)] ELSE a
     IN \/ ~app.paired /\ ev = "Hold" /\ Pair("hold", [unpaired EXCEPT !.pressed_at = None]) /\ UNCHANGED sending
        \/ ~app.paired /\ ev # "Hold" /\ app' = unpaired /\ UNCHANGED <<sending, nodeLog>>
        \/ app.paired /\ ev \in Enabled /\ Uplink(paired, "button", 0, 0) /\ nodeLog' = [nodeLog EXCEPT !.visited = TRUE]
        \/ app.paired /\ ev \notin Enabled /\ app' = paired /\ UNCHANGED sending /\ nodeLog' = [nodeLog EXCEPT !.visited = TRUE]
  /\ evq' = Tail(evq) /\ UNCHANGED <<pin, scan, tilt, world>>

-----------------------------------------------------------------------------
(* The timer's arm: re-anchor, the re-pair gesture, the cue, temperature, heartbeat, coalesced motion *)

TakeTimer ==
  /\ atSelect /\ ~buttonReady /\ timer_due
  /\ app' = [app EXCEPT !.pc = IF resync_due THEN "resync" ELSE "gesture", !.busy = 0]
  /\ UNCHANGED <<buttonVars, sending, tilt, world, nodeLog>>

\* fhss_resync: a few slots of beacon receive.
ResyncEnds(heard) ==
  /\ app.pc = "resync" /\ app.busy > 0
  /\ app' = [app EXCEPT !.pc = "gesture", !.busy = 0, !.anchor = IF heard THEN ResyncEvery ELSE @,
                        !.resync = IF heard THEN @ ELSE ResyncWait]
  /\ UNCHANGED <<buttonVars, sending, tilt, world, nodeLog>>

\* Slip: only the events tell whether the button is still down.
Fault_Gesture ==
  /\ app.pc = "gesture"
  /\ IF repair_due /\ app.pressed_at = RepairHold THEN Pair("repair", [app EXCEPT !.pressed_at = None])
     ELSE app' = [app EXCEPT !.pc = "due"] /\ UNCHANGED nodeLog
  /\ UNCHANGED <<buttonVars, sending, tilt, world>>

\* A release lost to the full queue is no gesture.
Gesture ==
  /\ app.pc = "gesture"
  /\ IF repair_due /\ ~scan.pressed THEN app' = [app EXCEPT !.pressed_at = None, !.pc = "due"] /\ UNCHANGED nodeLog
     ELSE IF repair_due /\ app.pressed_at = RepairHold THEN Pair("repair", [app EXCEPT !.pressed_at = None])
     ELSE app' = [app EXCEPT !.pc = "due"] /\ UNCHANGED nodeLog
  /\ UNCHANGED <<buttonVars, sending, tilt, world>>

\* measure_temp takes the bus and builds the accelerometer's driver anew: its last_tilt is gone.
measure_temp == [tilt EXCEPT !.last = None]

\* The deadlines passed at this instant: the cue's end, and a temperature that changed or is stale goes out.
Due(read) ==
  /\ app.pc = "due" /\ (~read => app.temp = 0 /\ world.faults > 0)
  /\ LET a == [app EXCEPT !.pc = "info", !.hbDue = app.heartbeat = 0, !.heartbeat = IF @ = 0 THEN Heartbeat ELSE @,
                          !.cue = IF @ = 0 THEN None ELSE @, !.led = IF app.cue = 0 THEN "off" ELSE @]
         t == world.temp
         changed == app.last_temp = None \/ t - app.last_temp >= Delta \/ app.last_temp - t >= Delta
         stale == app.temp_age = Heartbeat
     IN CASE app.temp # 0 -> app' = a /\ UNCHANGED sending
          [] app.temp = 0 /\ read /\ app.paired /\ (changed \/ stale) -> Uplink(a, "temp", 0, t)
          [] OTHER -> app' = [a EXCEPT !.temp = uplink_backoff_s(app.misses)] /\ UNCHANGED sending
  /\ tilt' = IF app.temp = 0 THEN measure_temp ELSE tilt
  /\ nodeLog' = IF app.temp = 0 THEN [nodeLog EXCEPT !.visited = FALSE] ELSE nodeLog
  /\ world' = IF read THEN world ELSE [world EXCEPT !.faults = @ - 1]
  /\ UNCHANGED buttonVars

HeartbeatDue ==
  /\ app.pc = "info"
  /\ IF app.hbDue /\ app.paired THEN Uplink([app EXCEPT !.hbDue = FALSE], "info", 0, 0)
     ELSE app' = [app EXCEPT !.pc = "motion", !.hbDue = FALSE] /\ UNCHANGED sending
  /\ UNCHANGED <<buttonVars, tilt, world, nodeLog>>

MotionDue ==
  /\ app.pc = "motion"
  /\ IF app.hold = 0 /\ app.pending # None THEN Uplink([app EXCEPT !.pending = None], "pending", app.pending, 0)
     ELSE app' = [app EXCEPT !.pc = "select"] /\ UNCHANGED sending
  /\ UNCHANGED <<buttonVars, tilt, world, nodeLog>>

-----------------------------------------------------------------------------
(* The accelerometer's arm *)

\* tilt_triggered: reading the source clears the latch; a tilt within the interval is not reported.
tilt_triggered == tilt.latch /\ (tilt.last = None \/ tilt.last >= TiltInterval)

\* handle_tilt, up to its settling.
handle_tilt(ok) == CASE ~ok -> "ReadFailed" [] tilt_triggered -> "Event" [] OTHER -> "Nothing"

\* A read of the interrupt source; quietly is true under showing_events.
ReadTilt(ok, quietly) ==
  /\ IF quietly THEN watching /\ ~buttonReady /\ accel_high
     ELSE atSelect /\ ~buttonReady /\ ~timer_due /\ accelReady
  /\ ~ok => world.faults > 0
  /\ world' = IF ok THEN world ELSE [world EXCEPT !.faults = @ - 1]
  /\ tilt' = IF ok THEN [tilt EXCEPT !.latch = FALSE, !.last = IF tilt_triggered THEN 0 ELSE @] ELSE tilt
  /\ LET kind == handle_tilt(ok)
         high == accel_high'
     IN app' = CASE quietly -> [app EXCEPT !.settling = kind = "Event",
                                  !.watch = CASE kind = "Event" -> 1 [] kind = "Nothing" -> IF high THEN Rearm ELSE 0
                                              [] OTHER -> BackoffMin + Rearm]
                 [] ~quietly /\ kind = "Event" -> [app EXCEPT !.pc = "settle", !.busy = 0, !.quiet = 0]
                 [] OTHER -> tilt_done([app EXCEPT !.quiet = 0], kind, high)
  /\ nodeLog' = [nodeLog EXCEPT !.spin = @ + 1]
  /\ UNCHANGED <<buttonVars, sending>>

\* Settled: the face is read; motion inside the interval is kept for its end.
Settled(f) ==
  /\ app.pc = "settle" /\ app.busy > 0
  /\ nodeLog' = [nodeLog EXCEPT !.seen = f]
  /\ CASE app.paired /\ app.hold = 0 -> Uplink(app, "motion", f, 0)
       [] app.paired /\ app.hold > 0 ->
            app' = tilt_done([app EXCEPT !.pending = f], "Event", accel_high) /\ UNCHANGED sending
       [] OTHER -> app' = tilt_done(app, "Event", accel_high) /\ UNCHANGED sending
  /\ UNCHANGED <<buttonVars, tilt, world>>

-----------------------------------------------------------------------------
(* The cable's arm *)

\* handle_mgmt: JoinOpen pairs; Provision reboots into the record; the rest only answers.
TakeMgmt ==
  /\ atSelect /\ ~buttonReady /\ ~timer_due /\ ~accelReady /\ world.cable # "none"
  /\ world' = [world EXCEPT !.cable = "none"]
  /\ \/ world.cable = "join" /\ Pair("join", app) /\ UNCHANGED <<scan, evq, tilt>>
     \/ /\ world.cable = "describe"
        /\ app' = [app EXCEPT !.misses = 0, !.led = IF app.paired THEN "off" ELSE "unpaired",
                              !.cue = IF app.paired THEN None ELSE UnpairedCue]
        /\ nodeLog' = [nodeLog EXCEPT !.visited = TRUE] /\ UNCHANGED <<scan, evq, tilt>>
     \/ /\ world.cable = "provision"
        /\ app' = Boot(TRUE, app.hops) /\ scan' = ScanStart /\ evq' = <<>> /\ tilt' = [tilt EXCEPT !.latch = FALSE, !.last = None]
        /\ nodeLog' = [nodeLog EXCEPT !.visited = FALSE, !.paced = AccelUplinkMin, !.spin = 0, !.lost = FALSE]
  /\ UNCHANGED <<pin, sending>>

-----------------------------------------------------------------------------
(* Time and the environment *)

waits == \/ atSelect /\ ~buttonReady /\ ~timer_due /\ ~accelReady /\ world.cable = "none"
         \/ app.pc = "send" /\ app.busy < IF app.hops THEN 1 ELSE world.long
         \/ app.pc \in {"hold", "repair"} /\ app.busy < world.long /\ ~(watching /\ (buttonReady \/ accel_high))
         \/ app.pc = "join" /\ app.busy < world.long
         \/ app.pc = "resync" /\ app.busy < world.long
         \/ app.pc = "settle" /\ app.busy = 0

LoopTick ==
  /\ waits /\ world.ticks > 0
  /\ world' = [world EXCEPT !.ticks = @ - 1]
  /\ ScanPass /\ UNCHANGED <<pin, sending>>
  /\ app' = [app EXCEPT !.busy = IF atSelect THEN 0 ELSE @ + 1,
               !.pressed_at = IF @ = None THEN @ ELSE low(@ + 1, RepairHold),
               !.temp = down(@), !.heartbeat = down(@), !.cue = down(@), !.quiet = down(@), !.hold = down(@),
               !.resync = down(@), !.anchor = down(@), !.temp_age = low(@ + 1, Heartbeat),
               !.watch = IF @ = 1 /\ app.settling /\ accel_high THEN Rearm ELSE down(@),
               !.settling = @ /\ app.watch > 1]
  /\ tilt' = [tilt EXCEPT !.last = IF @ = None THEN @ ELSE low(@ + 1, TiltInterval)]
  /\ nodeLog' = [nodeLog EXCEPT !.spin = 0, !.paced = low(@ + 1, AccelUplinkMin),
                   !.presses = IF scan'.pressed /\ ~scan.pressed THEN @ + 1 ELSE @,
                   !.lost = overflows \/ (@ /\ ~(nextEvents = <<"Press">> /\ evq = <<>>))]

Finger ==
  /\ world.edges > 0 /\ Edge
  /\ world' = [world EXCEPT !.edges = @ - 1] /\ UNCHANGED <<app, sending, tilt, nodeLog>>

\* button simulate, from the console.
Simulate(ms) ==
  /\ world.sims > 0 /\ simulate(ms)
  /\ world' = [world EXCEPT !.sims = @ - 1] /\ UNCHANGED <<app, sending, tilt, nodeLog>>

Move(f) ==
  /\ world.motions > 0
  /\ tilt' = [tilt EXCEPT !.latch = TRUE, !.face = f]
  /\ world' = [world EXCEPT !.motions = @ - 1] /\ nodeLog' = [nodeLog EXCEPT !.spin = 0]
  /\ UNCHANGED <<buttonVars, app, sending>>

LineSticks ==
  /\ world.sticks > 0
  /\ tilt' = [tilt EXCEPT !.stuck = ~@]
  /\ world' = [world EXCEPT !.sticks = @ - 1] /\ nodeLog' = [nodeLog EXCEPT !.spin = 0]
  /\ UNCHANGED <<buttonVars, app, sending>>

Weather(t) ==
  /\ world.weather > 0 /\ t # world.temp
  /\ world' = [world EXCEPT !.temp = t, !.weather = @ - 1]
  /\ UNCHANGED <<buttonVars, app, sending, tilt, nodeLog>>

CableAsks(op) ==
  /\ world.cables > 0 /\ world.cable = "none"
  /\ world' = [world EXCEPT !.cable = op, !.cables = @ - 1]
  /\ UNCHANGED <<buttonVars, app, sending, tilt, nodeLog>>

NodeNext ==
  \/ \E r \in {"Delivered", "NotDelivered"} : SendEnds(r)
  \/ \E f \in BOOLEAN : ScanSlot(f)
  \/ \E h \in BOOLEAN, r \in {"Delivered", "NotDelivered", "DutyLimited"} : TrackSlot(h, r)
  \/ \E ok \in BOOLEAN : PairEnds(ok)
  \/ WatchEvent \/ TakeEvent \/ TakeTimer
  \/ \E h \in BOOLEAN : ResyncEnds(h)
  \/ Gesture
  \/ \E read \in BOOLEAN : Due(read)
  \/ HeartbeatDue \/ MotionDue
  \/ \E ok \in BOOLEAN, q \in BOOLEAN : ReadTilt(ok, q)
  \/ \E f \in {0, tilt.face} : Settled(f)
  \/ TakeMgmt \/ LoopTick \/ Finger \/ LineSticks
  \/ \E ms \in {DebouncePress, RepairHold + 2} : Simulate(ms)
  \/ \E f \in Faces : Move(f)
  \/ \E t \in Temps : Weather(t)
  \/ \E op \in {"describe", "join", "provision"} : CableAsks(op)

NodeSpec == NodeInit /\ [][NodeNext]_nodeVars

-----------------------------------------------------------------------------
(* A re-pair starts only while the button is down, though the full queue   *)
(* may lose a Release, and has been for REPAIR_HOLD unless the loop has    *)
(* not been told of this press: the queue lost events since it last met an *)
(* empty one, or holds some (a resync lies between the timer and the       *)
(* gesture).  No press starts two pairing attempts.                        *)
RepairIsAsked == nodeLog.asked /\ nodeLog.attempts <= nodeLog.presses

(* At most one motion uplink in ACCEL_UPLINK_MIN, coalesced or not. *)
MotionPaced == sending.what \in {"motion", "pending"} => nodeLog.paced = AccelUplinkMin

(* An interrupt line that stays high, unreadable or stuck, is not read twice *)
(* without time passing, in the loop or during a pairing attempt.            *)
NeverSpins == nodeLog.spin <= 1

(* The LED says what the node is: off while paired, the unpaired cue exactly as *)
(* long as it is due, whatever attempt or request just ended.                   *)
CueTruthful ==
  atSelect => IF app.paired THEN app.led = "off" /\ app.cue = None
              ELSE app.led = IF app.cue = None THEN "off" ELSE "unpaired"

(* The button's gestures, the re-pair gesture, the pace of motion uplinks, the *)
(* interrupt line and the cue.                                                 *)
NodeSound == OneGesture /\ RepairIsAsked /\ MotionPaced /\ NeverSpins /\ CueTruthful

(* "Motion inside the interval is coalesced, and its latest face goes out when the *)
(* interval ends, so the last orientation is never lost": what is sent is the last *)
(* face the loop saw.                                                              *)
LatestFace == sending.what \in {"motion", "pending"} => sending.face = nodeLog.seen

(* A press or a cable request ends the back-off: the next temperature is at most *)
(* a period away.                                                                *)
PromptAfterVisit == nodeLog.visited => app.temp <= Period

-----------------------------------------------------------------------------
\* For TLC: a paired node that is turned over three times and then left alone.
FaceWorlds ==
  {[paired |-> TRUE, hops |-> FALSE, ticks |-> 9, long |-> 1, edges |-> 0, sims |-> 0,
    motions |-> 3, sticks |-> 0, faults |-> 0, weather |-> 0, cables |-> 0,
    cable |-> "none", temp |-> 0]}
=============================================================================
