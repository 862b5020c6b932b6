------------------------------ MODULE HopEpoch ------------------------------
(***************************************************************************)
(* Frequency hopping: a gateway (the hop master) beacons once per slot on  *)
(* the slot's channel, a node scans a fixed rendezvous channel, locks to   *)
(* the gateway's slot clock and then follows it by prediction.  The        *)
(* decisions are those of EpochGate (crates/net/src/epoch.rs); the slot    *)
(* loops around them are firmware/src/radio/net/fhss.rs.                   *)
(*                                                                         *)
(* Time is counted in whole slots: every wait of the code is shorter than  *)
(* a slot and the guards keep an exchange inside its slot.  The node's     *)
(* clock may be a slot off once it went MaxStale slots without a beacon.   *)
(* Beacons may fade, the master may restart (also with a lost epoch        *)
(* write), step out of hopping for a pairing window, or overrun a slot;    *)
(* a beacon of the past may be heard again, at any time and channel.       *)
(***************************************************************************)
EXTENDS Integers, Sequences

CONSTANTS
  Draws,         (* the shuffles' choices: functions from 1..N-1 to Nat    *)
  FhssN,         (* FHSS_N: channels, and slots of a cycle                 *)
  AcquireSlack,  (* ACQUIRE_SLOT_SLACK                                     *)
  ResyncSlack,   (* FHSS_RESYNC_SLACK                                      *)
  MissLimit,     (* REACQUIRE_LIMIT                                        *)
  MaxStale,      (* slots after which reacquire_slack_ms answers None      *)
  HopHorizon,    (* bound: slots of a behaviour                            *)
  MaxEvents,     (* bound: restarts of either side and pairing windows     *)
  MaxReplays     (* bound: beacons of the past that are heard again        *)

ASSUME HopAssumption == AcquireSlack \in Nat /\ ResyncSlack \in Nat /\ MaxReplays \in Nat

VARIABLES
  draws,     (* what the seeded generator yields: the shuffle's choices    *)
  now,       (* slots since power-up of the world                          *)
  stored,    (* KEY_FHSS_EPOCH in the master's EEPROM                      *)
  master,    (* [epoch, anchor, hopping]: the master's session             *)
  starts,    (* history: where each session's slot 0 lies, by epoch        *)
  reused,    (* history: a lost write made a session reuse an epoch        *)
  gate,      (* the node's EpochGate: [epoch, miss, cand]                  *)
  t0,        (* acquire_t0: arrival of the held candidate                  *)
  anchor,    (* the node's slot clock: <<slot, time>>, or <<>>             *)
  state,     (* FhssState of the node                                      *)
  last,      (* last_beacon                                                *)
  capture,   (* the beacon that is heard again                             *)
  replays, events,
  slotTx,    (* the frame of this slot: "none", "heard" or "missed"        *)
  calm       (* slots since the last fade, restart, replay or sleep        *)

hopVars == <<draws, now, stored, master, starts, reused, gate, t0, anchor, state,
             last, capture, replays, events, slotTx, calm>>

Channels == 0 .. FhssN - 1
Rendezvous == 0

(***************************************************************************)
(* The hop permutation: a Fisher-Yates shuffle of 0..N-1 with the draws of *)
(* the seeded generator, the same in every cycle.                          *)
(***************************************************************************)
swap(p, i, j) == [p EXCEPT ![i] = p[j], ![j] = p[i]]

hop_channel(cycle, i) ==
  LET perm[j \in 0 .. FhssN - 1] ==     \* after j swaps, counting down from N - 1
        IF j = 0 THEN [k \in Channels |-> k]
        ELSE LET p == perm[j - 1]
                 at == FhssN - j
             IN  swap(p, at, draws[at] % (at + 1))
  IN  perm[FhssN - 1][i]

channel_for(slot) == hop_channel(slot \div FhssN, slot % FhssN)

-----------------------------------------------------------------------------
(* EpochGate *)

abs_diff(a, b) == IF a > b THEN a - b ELSE b - a

reset(epoch) == [epoch |-> epoch, miss |-> 0, cand |-> <<>>]

next_master_epoch(old) == old + 1

reacquire_ok(since) == since <= MaxStale

offer_tracked_ok(g, b, predicted) ==
  b.epoch >= g.epoch /\ abs_diff(b.slot, predicted) <= ResyncSlack

offer_tracked(g, b, predicted) ==
  IF offer_tracked_ok(g, b, predicted)
  THEN [g |-> [g EXCEPT !.epoch = b.epoch, !.miss = 0], verdict |-> "ReAnchor"]
  ELSE [g |-> g, verdict |-> "Ignore"]

beacon_missed(g) ==
  [g |-> [g EXCEPT !.miss = @ + 1],
   verdict |-> IF g.miss + 1 >= MissLimit THEN "Rescan" ELSE "KeepPredicting"]

consistent(g, b, elapsed) ==
  /\ g.cand # <<>> /\ elapsed # -1
  /\ g.cand.epoch = b.epoch
  /\ b.slot > g.cand.slot
  /\ abs_diff(b.slot - g.cand.slot, elapsed) <= AcquireSlack

replaces(g, b) ==
  \/ g.cand = <<>>
  \/ b.epoch > g.cand.epoch
  \/ b.epoch = g.cand.epoch /\ b.slot > g.cand.slot

\* Slip: one beacon of a newer or the same session is enough to lock.
Fault_offer_scanning(g, b, elapsed) ==
  IF b.epoch < g.epoch THEN [g |-> g, verdict |-> "Reject"]
  ELSE [g |-> reset(b.epoch), verdict |-> "Lock"]

offer_scanning(g, b, elapsed) ==
  IF b.epoch < g.epoch THEN [g |-> g, verdict |-> "Reject"]
  ELSE IF consistent(g, b, elapsed)
  THEN [g |-> reset(b.epoch), verdict |-> "Lock"]
  ELSE IF replaces(g, b)
  THEN [g |-> [g EXCEPT !.cand = b], verdict |-> "Replaced"]
  ELSE [g |-> g, verdict |-> "Hold"]

-----------------------------------------------------------------------------
(* The master *)

masterSlot(time) == time - master.anchor

masterChannel(time) == channel_for(masterSlot(time))

beaconAt(time) == [epoch |-> master.epoch, slot |-> masterSlot(time)]

\* enable_fhss(Master): bump the epoch, write it (the write may fail), slot 0 is now.
MasterStart ==
  /\ events < MaxEvents /\ events' = events + 1
  /\ LET next == next_master_epoch(stored) IN
     /\ \/ stored' = next
        \/ stored' = stored
     /\ master' = [epoch |-> next, anchor |-> now, hopping |-> TRUE]
     /\ reused' = (reused \/ next \in DOMAIN starts)
     /\ starts' = [e \in DOMAIN starts \cup {next} |-> IF e = next THEN now ELSE starts[e]]
  /\ calm' = 0
  /\ UNCHANGED <<draws, now, gate, t0, anchor, state, last, capture, replays, slotTx>>

\* fhss_suspend and fhss_resume around a pairing window: the slot clock runs on.
SuspendResume ==
  /\ events < MaxEvents \/ ~master.hopping
  /\ events' = IF master.hopping THEN events + 1 ELSE events
  /\ master' = [master EXCEPT !.hopping = ~@]
  /\ calm' = 0
  /\ UNCHANGED <<draws, now, stored, starts, reused, gate, t0, anchor, state, last, capture, replays, slotTx>>

-----------------------------------------------------------------------------
(* The node *)

\* enable_fhss(Node), at every boot of the node.
NodeStart ==
  /\ events < MaxEvents /\ events' = events + 1
  /\ gate' = reset(0) /\ t0' = -1 /\ anchor' = <<>> /\ state' = "Scanning"
  /\ calm' = 0 /\ slotTx' = "none"
  /\ UNCHANGED <<draws, now, stored, master, starts, reused, last, capture, replays>>

cur_slot(a, time) == a[1] + (time - a[2])

\* How far off a slot the prediction may be.
skew == IF reacquire_ok(now - last) THEN {0} ELSE -1 .. 1

\* Beacons of the past: those of the sessions begun so far, up to this slot.
past == {[epoch |-> e, slot |-> s] : e \in DOMAIN starts, s \in 1 .. now}

\* What fhss_rx_beacon may return in the coming slot on channel ch: the beacon on
\* the air, one of the past, or nothing.
Rx(ch, b) ==
  LET onAir == master.hopping /\ masterChannel(now + 1) = ch IN
  \/ /\ onAir /\ b = beaconAt(now + 1)
     /\ calm' = calm + 1
     /\ UNCHANGED <<capture, replays>>
  \/ /\ b = <<>>
     /\ calm' = IF onAir \/ ~master.hopping THEN 0 ELSE calm + 1
     /\ UNCHANGED <<capture, replays>>
  \/ /\ replays < MaxReplays /\ replays' = replays + 1
     /\ b \in past /\ b.slot <= now - starts[b.epoch]
     /\ capture \in {<<>>, b} /\ capture' = b
     /\ calm' = 0

fhss_lock(b) ==
  /\ anchor' = <<b.slot, now + 1>>
  /\ state' = "Synced"
  /\ last' = now + 1

\* fhss_node_tick with a usable anchor.
TickTracking ==
  /\ anchor # <<>> /\ reacquire_ok(now - last)
  /\ \E off \in skew :
       LET slot == cur_slot(anchor, now) + off + 1
           ch == channel_for(slot)
       IN  \E b \in past \cup {beaconAt(now + 1), <<>>} :
             /\ Rx(ch, b)
             /\ LET hit == IF b = <<>> THEN [g |-> gate, verdict |-> "Ignore"]
                           ELSE offer_tracked(gate, b, slot)
                    miss == beacon_missed(hit.g)
                IN  \/ /\ hit.verdict = "ReAnchor"
                       /\ gate' = hit.g
                       /\ fhss_lock(b)
                    \/ /\ hit.verdict = "Ignore"
                       /\ gate' = miss.g
                       /\ IF miss.verdict = "Rescan"
                          THEN anchor' = <<>> /\ state' = "Scanning"
                          ELSE UNCHANGED <<anchor, state>>
                       /\ UNCHANGED last
  /\ UNCHANGED t0

\* fhss_node_tick without an anchor, or with one too stale to predict the slot.
TickScanning ==
  /\ anchor = <<>> \/ ~reacquire_ok(now - last)
  /\ \E b \in past \cup {beaconAt(now + 1), <<>>} :
       /\ Rx(Rendezvous, b)
       /\ LET elapsed == IF t0 = -1 THEN -1 ELSE now + 1 - t0
              r == IF b = <<>> THEN [g |-> gate, verdict |-> "Hold"]
                   ELSE offer_scanning(gate, b, elapsed)
          IN  /\ gate' = r.g
              /\ IF r.verdict = "Lock"
                 THEN fhss_lock(b) /\ t0' = -1
                 ELSE /\ t0' = IF r.verdict = "Replaced" THEN now + 1 ELSE t0
                      /\ anchor' = <<>> /\ state' = "Scanning"
                      /\ UNCHANGED last

NodeTick ==
  /\ now < HopHorizon /\ now' = now + 1
  /\ TickTracking \/ TickScanning
  /\ slotTx' = "none"
  /\ UNCHANGED <<draws, stored, master, starts, reused, events>>

\* The node sleeps through a slot: it ticks only to send or to resync.
NodeSleep ==
  /\ now < HopHorizon /\ now' = now + 1
  /\ calm' = 0 /\ slotTx' = "none"
  /\ UNCHANGED <<draws, stored, master, starts, reused, gate, t0, anchor, state, last, capture, replays, events>>

\* fhss_send in a slot whose beacon the node heard (radio_send), on the channel of the slot
\* its own clock is in.  Refused (locked, no room left in the slot) it changes nothing.
FhssSend ==
  /\ state = "Synced" /\ anchor # <<>> /\ last = now /\ now > 0 /\ slotTx = "none"
  /\ slotTx' = IF master.hopping /\ channel_for(cur_slot(anchor, now)) = masterChannel(now)
             THEN "heard" ELSE "missed"
  /\ UNCHANGED <<draws, now, stored, master, starts, reused, gate, t0, anchor, state, last,
                 capture, replays, events, calm>>

-----------------------------------------------------------------------------
HopInit ==
  /\ draws \in Draws
  /\ now = 0 /\ stored = 1
  /\ master = [epoch |-> 1, anchor |-> 0, hopping |-> TRUE]
  /\ starts = [e \in {1} |-> 0] /\ reused = FALSE
  /\ gate = reset(0) /\ t0 = -1 /\ anchor = <<>> /\ state = "Scanning" /\ last = 0
  /\ capture = <<>> /\ replays = 0 /\ events = 0 /\ slotTx = "none" /\ calm = 0

HopNext == MasterStart \/ SuspendResume \/ NodeStart \/ NodeTick \/ NodeSleep \/ FhssSend

HopSpec == HopInit /\ [][HopNext]_hopVars

-----------------------------------------------------------------------------
(* Properties *)

(* The clock a node follows is the clock of the session it believes in, up *)
(* to the slack of one acquisition and of the beacons heard again since:   *)
(* neither a single old beacon nor its repetition, before or after a       *)
(* restart of either side, anchors a node to a schedule nobody runs        *)
(* (EpochGate::offer_scanning, offer_tracked).                             *)
AnchorIsReal ==
  anchor # <<>> /\ ~reused =>
    /\ gate.epoch \in DOMAIN starts
    /\ abs_diff(anchor[1] + starts[gate.epoch], anchor[2])
         <= AcquireSlack + MaxReplays * ResyncSlack

(* A node that keeps ticking finds its gateway: after at most MissLimit    *)
(* slots to give a dead schedule up and two passes over the rendezvous     *)
(* channel, it is synchronised to the gateway's present session and in the *)
(* gateway's slot, whatever happened before (restarts, fades, sleep,       *)
(* pairing windows, old beacons).                                          *)
Rejoins ==
  calm >= MissLimit + 2 * FhssN /\ ~reused =>
    /\ state = "Synced"
    /\ gate.epoch = master.epoch
    /\ cur_slot(anchor, now) = masterSlot(now)

(* A frame sent after the gateway's own beacon of that slot is on the      *)
(* channel the gateway listens on: whatever old beacons and misses moved   *)
(* the node's clock before, that beacon moved it back (fhss_send,          *)
(* fhss_lock).  Calm: nothing restarted or stepped out in between.         *)
SentInSlot == calm > 0 => slotTx # "missed"
=============================================================================
