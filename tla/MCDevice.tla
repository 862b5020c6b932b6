------------------------------ MODULE MCDevice ------------------------------
(***************************************************************************)
(* The mechanisms of the firmware that share no state inside one           *)
(* behaviour: the radio's timing (hopping, bulk transfer, the duty         *)
(* governor, the transceiver driver, LBT + AFA), the console's ring, the   *)
(* USB session, the node application, the board's reset path, the LED and  *)
(* the gateway's main loop.  A behaviour is one of them; the variables of  *)
(* the others are 0.                                                       *)
(***************************************************************************)
EXTENDS HopEpoch, BulkTransfer, DutyBudget, Transceiver, AfaLink, Console, UsbSession, NodeApp,
        BoardHealth, Led, GatewayLoop

VARIABLE part

Parts == {"hop", "bulk", "duty", "transceiver", "afa", "console", "usb", "node", "health", "led", "loop"}

-----------------------------------------------------------------------------
(* Values of the constants *)

MCDraws == {[j \in 1 .. FhssN - 1 |-> IF j = 1 THEN 0 ELSE 1]}

MCLengths == <<3, 0, 4>>

NodeWorld(paired, hops, ticks, long, edges, sims, motions, sticks, faulty, weather, cables) ==
  [paired |-> paired, hops |-> hops, ticks |-> ticks, long |-> long, edges |-> edges,
   sims |-> sims, motions |-> motions, sticks |-> sticks, faults |-> faulty,
   weather |-> weather, cables |-> cables, cable |-> "none", temp |-> 0]
MCWorlds == {
  NodeWorld(TRUE, FALSE, 11, 5, 4, 0, 0, 0, 0, 0, 0),
  NodeWorld(FALSE, FALSE, 9, 2, 2, 0, 0, 0, 0, 0, 1),
  NodeWorld(FALSE, FALSE, 9, 2, 1, 0, 0, 1, 1, 0, 0),
  NodeWorld(FALSE, FALSE, 9, 2, 1, 0, 1, 0, 1, 0, 0),
  NodeWorld(TRUE, FALSE, 9, 2, 0, 1, 0, 0, 0, 0, 1),
  NodeWorld(TRUE, FALSE, 9, 2, 0, 0, 2, 1, 0, 0, 0),
  NodeWorld(TRUE, FALSE, 9, 2, 0, 0, 0, 0, 1, 1, 1),
  NodeWorld(TRUE, TRUE, 8, 2, 1, 0, 0, 0, 0, 0, 1)}

\* A gated board with the slowest watchdog clock, and one not gated with the fastest.
MCChips == {[real |-> 8, gated |-> TRUE], [real |-> 4, gated |-> FALSE]}

MCBackgrounds == {<<>>, <<TRUE, FALSE>>}
MCInstants == {<<>>, <<FALSE, TRUE>>}
MCPulses == {[on |-> 1, off |-> 1, count |-> 2], [on |-> 1, off |-> 0, count |-> 0]}

-----------------------------------------------------------------------------
MCInit ==
  /\ part \in Parts
  /\ IF part = "hop" THEN HopInit ELSE
       /\ draws = 0 /\ now = 0 /\ stored = 0 /\ master = 0 /\ starts = 0 /\ reused = 0
       /\ gate = 0 /\ t0 = 0 /\ anchor = 0 /\ state = 0 /\ last = 0 /\ capture = 0
       /\ replays = 0 /\ events = 0 /\ slotTx = 0 /\ calm = 0
  /\ IF part = "bulk" THEN BulkInit ELSE
       /\ ctr = 0 /\ offered = 0 /\ srv = 0 /\ cli = 0 /\ sink = 0 /\ fetches = 0
       /\ served = 0 /\ air = 0
  /\ IF part = "duty" THEN DutyInit ELSE
       /\ budget = 0 /\ residue = 0 /\ since = 0 /\ wTime = 0 /\ wSpent = 0 /\ wTries = 0 /\ wAsked = 0
       /\ longGap = 0
  /\ IF part = "transceiver" THEN TxrInit ELSE
       /\ chip = 0 /\ mask = 0 /\ status = 0 /\ csma = 0 /\ onAir = 0 /\ op = 0
       /\ at = 0 /\ left = 0 /\ used = 0 /\ held = 0 /\ inFrame = 0 /\ listened = 0
       /\ outcome = 0 /\ idleRssi = 0 /\ cut = 0 /\ calls = 0
  /\ IF part = "afa" THEN AfaInit ELSE
       /\ clock = 0 /\ cur = 0 /\ lastTx = 0 /\ nextCtr = 0 /\ send = 0 /\ result = 0
       /\ sends = 0 /\ gwCh = 0 /\ heard = 0 /\ emitted = 0 /\ ended = 0
  /\ IF part = "console" THEN ConInit ELSE
       /\ ring = 0 /\ marker = 0 /\ dropped = 0 /\ up = 0 /\ parked = 0 /\ writer = 0
       /\ stalled = 0 /\ txSeq = 0 /\ rxq = 0 /\ screen = 0 /\ tally = 0
  /\ IF part = "usb" THEN UsbInit ELSE
       /\ plug = 0 /\ mgr = 0 /\ usb = 0 /\ line = 0 /\ prog = 0 /\ usbLog = 0
  /\ IF part = "node" THEN NodeInit ELSE
       /\ pin = 0 /\ scan = 0 /\ evq = 0 /\ app = 0 /\ sending = 0 /\ tilt = 0
       /\ world = 0 /\ nodeLog = 0
  /\ IF part = "health" THEN HealthInit ELSE
       /\ stage = 0 /\ ram = 0 /\ csr = 0 /\ bss = 0 /\ bootCount = 0 /\ wdg = 0
       /\ exec = 0 /\ soc = 0 /\ ghost = 0
  /\ IF part = "led" THEN LedInit ELSE
       /\ mailbox = 0 /\ background = 0 /\ switch_delay = 0 /\ playing = 0 /\ lit = 0 /\ hist = 0
  /\ IF part = "loop" THEN LoopInit ELSE
       /\ pc = 0 /\ hopping = 0 /\ window = 0 /\ nodes = 0 /\ offHop = 0 /\ grace = 0
       /\ servedNow = 0 /\ loop = 0

\* Everything but the variables of part p stays
Still(p) ==
  /\ IF p = "hop" THEN TRUE ELSE UNCHANGED hopVars
  /\ IF p = "bulk" THEN TRUE ELSE UNCHANGED bulkVars
  /\ IF p = "duty" THEN TRUE ELSE UNCHANGED dutyVars
  /\ IF p = "transceiver" THEN TRUE ELSE UNCHANGED txrVars
  /\ IF p = "afa" THEN TRUE ELSE UNCHANGED afaVars
  /\ IF p = "console" THEN TRUE ELSE UNCHANGED conVars
  /\ IF p = "usb" THEN TRUE ELSE UNCHANGED usbVars
  /\ IF p = "node" THEN TRUE ELSE UNCHANGED nodeVars
  /\ IF p = "health" THEN TRUE ELSE UNCHANGED healthVars
  /\ IF p = "led" THEN TRUE ELSE UNCHANGED ledVars
  /\ IF p = "loop" THEN TRUE ELSE UNCHANGED loopVars
  /\ UNCHANGED part

MCNext ==
  \/ part = "hop" /\ HopNext /\ Still("hop")
  \/ part = "bulk" /\ BulkNext /\ Still("bulk")
  \/ part = "duty" /\ DutyNext /\ Still("duty")
  \/ part = "transceiver" /\ TxrNext /\ Still("transceiver")
  \/ part = "afa" /\ AfaNext /\ Still("afa")
  \/ part = "console" /\ ConNext /\ Still("console")
  \/ part = "usb" /\ UsbNext /\ Still("usb")
  \/ part = "node" /\ NodeNext /\ Still("node")
  \/ part = "health" /\ HealthNext /\ Still("health")
  \/ part = "led" /\ LedNext /\ Still("led")
  \/ part = "loop" /\ LoopNext /\ Still("loop")

MCSpec ==
  MCInit /\ [][MCNext]_<<hopVars, bulkVars, dutyVars, txrVars, afaVars, conVars,
                        usbVars, nodeVars, healthVars, ledVars, loopVars, part>>

-----------------------------------------------------------------------------
(* Properties: those of the part that runs *)

\* Frequency hopping (HopEpoch): a node's anchor is a moment its master really
\* lived through, and a node that lost the schedule rejoins once beacons are
\* heard again, and what it sends after a beacon is on the master's channel.
HopHolds == part = "hop" => AnchorIsReal /\ Rejoins /\ SentInSlot

\* A bulk transfer (BulkTransfer): the sink holds one transfer, no nonce seals two frames.
BulkHolds == part = "bulk" => SinkIsOneTransfer /\ BulkNonces

\* Access to the channel: the duty budget is kept over every window (DutyBudget),
\* the transceiver keeps its receive window and is quiet asleep (Transceiver),
\* and LBT + AFA listens before it talks and waits its off-time (AfaLink).
ChannelHolds ==
  /\ part = "duty" => DutyKept
  /\ part = "transceiver" => RxWindowKept /\ SleepIsQuiet
  /\ part = "afa" => AfaPolite

\* The way to the host: the console's transmit ring (Console, ConsoleSound) and
\* the USB session of the rev 1.3 board (UsbSession, UsbSound).
ConsoleHolds == (part = "console" => ConsoleSound) /\ (part = "usb" => UsbSound)

\* The push-button node's application (NodeApp, Button; NodeSound) and the LED
\* dispatcher it drives (Led, LedSound).
NodeHolds == (part = "node" => NodeSound) /\ (part = "led" => LedSound)

\* Watchdog, crash record and boot-loop guard (BoardHealth): see HealthSound.
HealthHolds == part = "health" => HealthSound

\* The dongle gateway's main loop (GatewayLoop): see LoopSound.
LoopHolds == part = "loop" => LoopSound
=============================================================================
