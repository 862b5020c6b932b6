--------------------------- MODULE HopEpochProofs ---------------------------
(***************************************************************************)
(* Proofs about HopEpoch.tla for any number of channels, any shuffle, any  *)
(* slacks, horizon and numbers of restarts and of beacons heard again: the *)
(* clock a node follows is the clock of the session it believes in, and    *)
(* what it sends after a beacon is on its gateway's channel.               *)
(*                                                                         *)
(* That a node finds its gateway again (Rejoins) stays with TLC: it rests  *)
(* on what the recursive shuffle yields.                                   *)
(***************************************************************************)
EXTENDS HopEpoch, TLAPS

-----------------------------------------------------------------------------
(***************************************************************************)
(* The inductive invariants                                                *)
(***************************************************************************)

Beacons == [epoch : Nat, slot : Nat]

HopTypes ==
  /\ now \in Nat /\ stored \in Nat /\ master \in [epoch : Nat, anchor : Nat, hopping : BOOLEAN]
  /\ reused \in BOOLEAN /\ calm \in Nat /\ last \in Nat /\ last <= now
  /\ replays \in Nat /\ replays <= MaxReplays
  /\ gate.epoch \in Nat /\ master.anchor <= now /\ DOMAIN starts \subseteq Nat
  /\ gate = [epoch |-> gate.epoch, miss |-> gate.miss, cand |-> gate.cand]

\* The sessions in their order; where a lost write leaves the epoch behind, the
\* next session reuses it.
SessionsInv ==
  /\ starts \in [DOMAIN starts -> Nat]
  /\ \A e \in DOMAIN starts : starts[e] <= now /\ e <= master.epoch
  /\ master.epoch \in DOMAIN starts /\ starts[master.epoch] = master.anchor
  /\ \A e, f \in DOMAIN starts : e <= f => starts[e] <= starts[f]
  /\ stored = master.epoch \/ stored + 1 = master.epoch

\* A held candidate is the beacon that is repeated, or came when it was sent.
CandInv ==
  gate.cand # <<>> =>
    /\ gate.cand \in Beacons /\ gate.cand.epoch \in DOMAIN starts /\ t0 \in Nat /\ t0 <= now
    /\ gate.cand = capture \/ gate.cand.slot + starts[gate.cand.epoch] = t0

\* The error of the node's clock, and what the beacons heard again may add to it.
Error(k) == AcquireSlack + k * ResyncSlack
Near(a, b, k) == a - b <= Error(k) /\ b - a <= Error(k)
ClockInv ==
  anchor # <<>> =>
    /\ anchor = <<anchor[1], anchor[2]>> /\ anchor[1] \in Nat /\ anchor[2] \in Nat /\ anchor[2] <= now
    /\ gate.epoch \in DOMAIN starts
    /\ Near(anchor[1] + starts[gate.epoch], anchor[2], replays)

\* After a beacon of this slot, in a calm time, the node is in its master's slot.
InSlotInv ==
  /\ calm > 0 => slotTx # "missed"
  /\ calm > 0 /\ anchor # <<>> /\ last = now /\ now > 0 =>
       master.hopping /\ anchor = <<now - master.anchor, now>>

HopInv == HopTypes /\ InSlotInv /\ (~reused => SessionsInv /\ CandInv /\ ClockInv)

-----------------------------------------------------------------------------
(***************************************************************************)
(* The arithmetic of the clock's error                                     *)
(***************************************************************************)

LEMMA ErrorIs ==
  ASSUME NEW k \in Nat
  PROVE  Error(k) \in Nat /\ Error(k + 1) \in Nat /\ Error(k) >= AcquireSlack
         /\ Error(k + 1) = Error(k) + ResyncSlack
  BY HopAssumption DEF Error

LEMMA ErrorGrows ==
  ASSUME NEW k \in Nat, NEW m \in Nat, k <= m
  PROVE  Error(k) <= Error(m)
<1>1. PICK d \in Nat : m = k + d
  <2>1. m - k \in Nat /\ m = k + (m - k)
    OBVIOUS
  <2> QED BY <2>1
<1>2. m * ResyncSlack = k * ResyncSlack + d * ResyncSlack BY <1>1, HopAssumption
<1>3. d * ResyncSlack \in Nat /\ k * ResyncSlack \in Nat BY <1>1, HopAssumption
<1> QED BY <1>2, <1>3, HopAssumption DEF Error

LEMMA NearMore ==
  ASSUME NEW a \in Int, NEW b \in Int, NEW k \in Nat, NEW m \in Nat, k <= m, Near(a, b, k)
  PROVE  Near(a, b, m)
<1>1. PICK x \in Nat, y \in Nat : x = Error(k) /\ y = Error(m) /\ x <= y BY ErrorIs, ErrorGrows
<1> QED BY <1>1 DEF Near

LEMMA NearExact ==
  ASSUME NEW a \in Int, NEW k \in Nat
  PROVE  Near(a, a, k)
<1>1. PICK x \in Nat : x = Error(k) BY ErrorIs
<1> QED BY <1>1 DEF Near

\* A beacon that fits the prediction adds at most the slack of one, also when it is one
\* of a session that began later.
LEMMA TrackedNear ==
  ASSUME NEW a \in Nat, NEW at \in Nat, NEW se \in Nat, NEW sf \in Nat, NEW n \in Nat, NEW s \in Nat, NEW k \in Nat,
         Near(a + se, at, k), se <= sf, s + sf <= n,
         abs_diff(s, a + (n - at) + 1) <= ResyncSlack
  PROVE  Near(s + sf, n + 1, k + 1)
<1>1. PICK x \in Nat, y \in Nat : x = Error(k) /\ y = Error(k + 1) /\ y = x + ResyncSlack BY ErrorIs
<1>2. at - (a + se) <= x BY <1>1 DEF Near
<1>3. (a + (n - at) + 1) - s <= ResyncSlack BY HopAssumption DEF abs_diff
<1>4. (n + 1) - (s + sf) <= y BY <1>1, <1>2, <1>3, HopAssumption
<1>5. (s + sf) - (n + 1) <= y BY <1>1, HopAssumption
<1> QED BY <1>1, <1>4, <1>5 DEF Near

\* Two beacons of one session as far apart as they came.
LEMMA LockedNear ==
  ASSUME NEW c \in Nat, NEW s \in Nat, NEW st \in Nat, NEW ct \in Nat, NEW n \in Nat, NEW k \in Nat,
         c + st = ct, abs_diff(s - c, n + 1 - ct) <= AcquireSlack
  PROVE  Near(s + st, n + 1, k)
<1>1. PICK x \in Nat : x = Error(k) /\ x >= AcquireSlack BY ErrorIs
<1>2. (s - c) - (n + 1 - ct) <= AcquireSlack /\ (n + 1 - ct) - (s - c) <= AcquireSlack
  BY HopAssumption DEF abs_diff
<1>3. (s + st) - (n + 1) <= x /\ (n + 1) - (s + st) <= x BY <1>1, <1>2, HopAssumption
<1> QED BY <1>1, <1>3 DEF Near

-----------------------------------------------------------------------------
(***************************************************************************)
(* The master                                                              *)
(***************************************************************************)

LEMMA InitHolds ==
  ASSUME HopInit
  PROVE  HopInv
<1>1. gate = [epoch |-> 0, miss |-> 0, cand |-> <<>>] BY DEF HopInit, reset
<1>2. gate.epoch = 0 /\ gate.cand = <<>> /\ gate = [epoch |-> gate.epoch, miss |-> gate.miss, cand |-> gate.cand]
  BY <1>1
<1>3. master.epoch = 1 /\ master.anchor = 0 /\ master \in [epoch : Nat, anchor : Nat, hopping : BOOLEAN]
  BY DEF HopInit
<1>a. now = 0 /\ stored = 1 /\ reused = FALSE /\ calm = 0 /\ last = 0 /\ replays = 0 /\ MaxReplays \in Nat
  BY HopAssumption DEF HopInit
<1>b. DOMAIN starts = {1} BY DEF HopInit
<1>4. HopTypes
  <2>a. reused \in BOOLEAN BY <1>a, Zenon
  <2>1. now \in Nat /\ stored \in Nat /\ calm \in Nat /\ last \in Nat /\ last <= now BY <1>a
  <2>2. replays \in Nat /\ replays <= MaxReplays /\ master.anchor <= now /\ DOMAIN starts \subseteq Nat
    BY <1>3, <1>a, <1>b
  <2>3. gate.epoch \in Nat BY <1>2
  <2> QED BY <1>2, <1>3, <2>a, <2>1, <2>2, <2>3, Zenon DEF HopTypes
<1>5. DOMAIN starts = {1} /\ starts[1] = 0 /\ starts \in [DOMAIN starts -> Nat] BY DEF HopInit
<1>6. SessionsInv BY <1>3, <1>5 DEF HopInit, SessionsInv
<1> QED BY <1>2, <1>4, <1>6 DEF HopInit, HopInv, InSlotInv, CandInv, ClockInv

LEMMA MasterStartStep ==
  ASSUME HopInv, MasterStart
  PROVE  HopInv'
<1>1. HopTypes /\ InSlotInv BY DEF HopInv
<1>2. PICK next \in Nat : next = stored + 1 BY <1>1 DEF HopTypes
<1>3. /\ master' = [epoch |-> next, anchor |-> now, hopping |-> TRUE]
      /\ stored' = next \/ stored' = stored
      /\ reused' = (reused \/ next \in DOMAIN starts)
      /\ starts' = [e \in DOMAIN starts \cup {next} |-> IF e = next THEN now ELSE starts[e]]
      /\ calm' = 0 /\ now' = now /\ gate' = gate /\ t0' = t0 /\ anchor' = anchor /\ state' = state /\ last' = last
      /\ capture' = capture /\ replays' = replays /\ slotTx' = slotTx
  BY <1>2 DEF MasterStart, next_master_epoch
<1>4. now \in Nat /\ master'.epoch = next /\ master'.anchor = now /\ master' \in [epoch : Nat, anchor : Nat, hopping : BOOLEAN]
  BY <1>1, <1>3 DEF HopTypes
<1>a. DOMAIN starts' \subseteq Nat BY <1>1, <1>2, <1>3 DEF HopTypes
<1>5. HopTypes' BY <1>1, <1>2, <1>3, <1>4, <1>a DEF HopTypes
<1>6. InSlotInv' BY <1>3 DEF InSlotInv
<1>7. ASSUME ~reused'
      PROVE  SessionsInv' /\ CandInv' /\ ClockInv'
  <2>1. ~reused /\ next \notin DOMAIN starts BY <1>3, <1>7
  <2>2. SessionsInv /\ CandInv /\ ClockInv BY <2>1 DEF HopInv
  <2>3. PICK g : g = starts'
    OBVIOUS
  <2>4. /\ DOMAIN g = DOMAIN starts \cup {next} /\ g[next] = now
        /\ \A e \in DOMAIN starts : g[e] = starts[e]
    BY <1>3, <2>1, <2>3
  <2>5. g \in [DOMAIN g -> Nat]
    <3>1. \A e \in DOMAIN starts : starts[e] \in Nat BY <2>2 DEF SessionsInv
    <3> QED BY <1>3, <1>4, <2>3, <2>4, <3>1
  <2>6. PICK m \in Nat : m = master.epoch /\ m \in DOMAIN starts BY <1>1, <2>2 DEF HopTypes, SessionsInv
  <2>7. next = m + 1 BY <1>2, <2>1, <2>2, <2>6 DEF SessionsInv
  <2>8. \A e \in DOMAIN starts : e \in Nat /\ e <= m /\ starts[e] \in Nat /\ starts[e] <= now
    BY <1>1, <2>2, <2>6 DEF SessionsInv, HopTypes
  <2>9. \A e \in DOMAIN g : g[e] <= now /\ e <= next BY <1>4, <2>4, <2>7, <2>8
  <2>10. ASSUME NEW e \in DOMAIN g, NEW f \in DOMAIN g, e <= f PROVE g[e] <= g[f]
    <3>1. CASE f = next BY <2>4, <2>9, <3>1
    <3>2. CASE f \in DOMAIN starts
      <4>1. e # next BY <2>7, <2>8, <2>10, <3>2
      <4>2. e \in DOMAIN starts BY <2>4, <4>1
      <4> QED BY <2>2, <2>4, <2>10, <3>2, <4>2 DEF SessionsInv
    <3> QED BY <2>4, <3>1, <3>2
  <2>11. stored = m BY <1>1, <1>2, <2>7 DEF HopTypes
  <2>12. SessionsInv' BY <1>2, <1>3, <1>4, <2>3, <2>4, <2>5, <2>7, <2>8, <2>9, <2>10, <2>11 DEF SessionsInv
  <2>13. CandInv' BY <1>3, <2>2, <2>3, <2>4 DEF CandInv
  <2>14. ClockInv' BY <1>3, <2>2, <2>3, <2>4 DEF ClockInv
  <2> QED BY <2>12, <2>13, <2>14
<1> QED BY <1>5, <1>6, <1>7 DEF HopInv

LEMMA SuspendStep ==
  ASSUME HopInv, SuspendResume
  PROVE  HopInv'
<1>1. HopTypes /\ InSlotInv BY DEF HopInv
<1>2. /\ master' = [master EXCEPT !.hopping = ~@]
      /\ calm' = 0 /\ now' = now /\ gate' = gate /\ t0' = t0 /\ anchor' = anchor /\ state' = state /\ last' = last
      /\ capture' = capture /\ replays' = replays /\ slotTx' = slotTx /\ stored' = stored /\ starts' = starts
      /\ reused' = reused
  BY DEF SuspendResume
<1>3. /\ master' \in [epoch : Nat, anchor : Nat, hopping : BOOLEAN] /\ master'.epoch = master.epoch
      /\ master'.anchor = master.anchor
  BY <1>1, <1>2 DEF HopTypes
<1>4. HopTypes' BY <1>1, <1>2, <1>3 DEF HopTypes
<1>5. InSlotInv' BY <1>2 DEF InSlotInv
<1>6. ~reused => SessionsInv' /\ CandInv' /\ ClockInv'
  BY <1>2, <1>3 DEF HopInv, SessionsInv, CandInv, ClockInv
<1> QED BY <1>2, <1>4, <1>5, <1>6 DEF HopInv

LEMMA NodeStartStep ==
  ASSUME HopInv, NodeStart
  PROVE  HopInv'
<1>1. HopTypes /\ InSlotInv BY DEF HopInv
<1>2. /\ gate' = [epoch |-> 0, miss |-> 0, cand |-> <<>>] /\ t0' = -1 /\ anchor' = <<>> /\ calm' = 0
      /\ now' = now /\ stored' = stored /\ master' = master /\ starts' = starts /\ reused' = reused /\ last' = last
      /\ capture' = capture /\ replays' = replays
  BY DEF NodeStart, reset
<1>3. gate'.epoch = 0 /\ gate'.cand = <<>> /\ gate' = [epoch |-> gate'.epoch, miss |-> gate'.miss, cand |-> gate'.cand]
  BY <1>2
<1>4. HopTypes' BY <1>1, <1>2, <1>3 DEF HopTypes
<1>5. InSlotInv' BY <1>2 DEF InSlotInv
<1>6. ~reused => SessionsInv' /\ CandInv' /\ ClockInv'
  BY <1>2, <1>3 DEF HopInv, SessionsInv, CandInv, ClockInv
<1> QED BY <1>2, <1>4, <1>5, <1>6 DEF HopInv

LEMMA SendStep ==
  ASSUME HopInv, FhssSend
  PROVE  HopInv'
<1>1. HopTypes /\ InSlotInv BY DEF HopInv
<1>2. /\ anchor # <<>> /\ last = now /\ now > 0
      /\ now' = now /\ stored' = stored /\ master' = master /\ starts' = starts /\ reused' = reused /\ last' = last
      /\ capture' = capture /\ replays' = replays /\ gate' = gate /\ t0' = t0 /\ anchor' = anchor /\ calm' = calm
  BY DEF FhssSend
<1>3. calm > 0 => slotTx' # "missed"
  <2>1. SUFFICES ASSUME calm > 0 PROVE slotTx' # "missed"
    OBVIOUS
  <2>2. master.hopping /\ anchor = <<now - master.anchor, now>> BY <1>1, <1>2, <2>1 DEF InSlotInv
  <2>3. now \in Nat /\ master.anchor \in Nat BY <1>1 DEF HopTypes
  <2>4. cur_slot(anchor, now) = masterSlot(now) BY <2>2, <2>3 DEF cur_slot, masterSlot
  <2>5. channel_for(cur_slot(anchor, now)) = masterChannel(now) BY <2>4 DEF masterChannel
  <2> QED BY <2>2, <2>5 DEF FhssSend
<1>4. HopTypes' /\ InSlotInv' BY <1>1, <1>2, <1>3 DEF HopTypes, InSlotInv
<1>5. ~reused => SessionsInv' /\ CandInv' /\ ClockInv' BY <1>2 DEF HopInv, SessionsInv, CandInv, ClockInv
<1> QED BY <1>2, <1>4, <1>5 DEF HopInv

\* A slot passes.
LEMMA SessionsLast ==
  ASSUME HopTypes, SessionsInv, now' = now + 1, stored' = stored, master' = master, starts' = starts
  PROVE  SessionsInv'
<1>1. \A e \in DOMAIN starts : starts[e] \in Nat /\ starts[e] <= now BY DEF SessionsInv
<1>2. now \in Nat BY DEF HopTypes
<1>3. \A e \in DOMAIN starts : starts[e] <= now + 1 BY <1>1, <1>2
<1> QED BY <1>3 DEF SessionsInv

LEMMA SleepStep ==
  ASSUME HopInv, NodeSleep
  PROVE  HopInv'
<1>1. HopTypes /\ InSlotInv BY DEF HopInv
<1>2. /\ now' = now + 1 /\ stored' = stored /\ master' = master /\ starts' = starts /\ reused' = reused /\ last' = last
      /\ capture' = capture /\ replays' = replays /\ gate' = gate /\ t0' = t0 /\ anchor' = anchor /\ calm' = 0
      /\ slotTx' = "none"
  BY DEF NodeSleep
<1>3. HopTypes' /\ InSlotInv' BY <1>1, <1>2 DEF HopTypes, InSlotInv
<1>4. now \in Nat BY <1>1 DEF HopTypes
<1>5. ASSUME ~reused PROVE SessionsInv' /\ CandInv' /\ ClockInv'
  <2>1. SessionsInv /\ CandInv /\ ClockInv BY <1>5 DEF HopInv
  <2>2. SessionsInv' BY <1>1, <1>2, <2>1, SessionsLast
  <2>3. CandInv' BY <1>2, <1>4, <2>1 DEF CandInv
  <2>4. ClockInv' BY <1>2, <1>4, <2>1 DEF ClockInv
  <2> QED BY <2>2, <2>3, <2>4
<1> QED BY <1>2, <1>3, <1>5 DEF HopInv

-----------------------------------------------------------------------------
(***************************************************************************)
(* What is heard                                                           *)
(***************************************************************************)

\* The beacon on the air in the coming slot.
OnAir(b) ==
  /\ b \in Beacons /\ b.epoch = master.epoch /\ b.slot = now + 1 - master.anchor /\ master.hopping
  /\ capture' = capture /\ replays' = replays

\* A beacon of the past.
Again(b) ==
  /\ b \in Beacons /\ b.epoch \in DOMAIN starts /\ b.slot <= now - starts[b.epoch]
  /\ capture = <<>> \/ capture = b
  /\ capture' = b /\ replays' = replays + 1 /\ replays' <= MaxReplays /\ calm' = 0

Silence == capture' = capture /\ replays' = replays

LEMMA RxIs ==
  ASSUME HopInv, NEW ch, NEW b, Rx(ch, b)
  PROVE  calm' \in Nat /\ (OnAir(b) \/ Again(b) \/ (b = <<>> /\ Silence))
<1>1. /\ now \in Nat /\ master \in [epoch : Nat, anchor : Nat, hopping : BOOLEAN] /\ calm \in Nat /\ replays \in Nat
      /\ master.anchor <= now
  BY DEF HopInv, HopTypes
<1>2. calm' \in Nat BY <1>1 DEF Rx
<1>3. CASE master.hopping /\ b = beaconAt(now + 1) /\ capture' = capture /\ replays' = replays
  <2>a. masterSlot(now + 1) = now + 1 - master.anchor BY <1>1 DEF masterSlot
  <2>1. PICK s \in Nat : s = now + 1 - master.anchor /\ s = masterSlot(now + 1) BY <1>1, <2>a
  <2>2. b = [epoch |-> master.epoch, slot |-> s] BY <1>3, <2>1 DEF beaconAt
  <2>3. b \in Beacons /\ b.epoch = master.epoch /\ b.slot = s BY <1>1, <2>2 DEF Beacons
  <2> QED BY <1>2, <1>3, <2>1, <2>3 DEF OnAir
<1>4. CASE b = <<>> /\ capture' = capture /\ replays' = replays BY <1>2, <1>4 DEF Silence
<1>5. CASE /\ replays < MaxReplays /\ replays' = replays + 1
           /\ b \in past /\ b.slot <= now - starts[b.epoch]
           /\ capture \in {<<>>, b} /\ capture' = b
           /\ calm' = 0
  <2>1. PICK e \in DOMAIN starts, s \in 1 .. now : b = [epoch |-> e, slot |-> s] BY <1>5 DEF past
  <2>2. b.epoch = e /\ b.slot = s /\ s \in Nat BY <1>1, <2>1
  <2>3. e \in Nat => b \in Beacons BY <2>1, <2>2 DEF Beacons
  <2>4. replays' <= MaxReplays BY <1>1, <1>5, HopAssumption
  <2>5. e \in Nat BY DEF HopInv, HopTypes
  <2> QED BY <1>2, <1>5, <2>2, <2>3, <2>4, <2>5 DEF Again
<1> QED BY <1>2, <1>3, <1>4, <1>5 DEF Rx

-----------------------------------------------------------------------------
(***************************************************************************)
(* The node's slot                                                         *)
(***************************************************************************)

\* What a slot leaves alone.
SlotPasses ==
  /\ now' = now + 1 /\ slotTx' = "none"
  /\ stored' = stored /\ master' = master /\ starts' = starts /\ reused' = reused

GateIs(e, c) == \E m : gate' = [epoch |-> e, miss |-> m, cand |-> c]

\* The node's clock is set to a beacon.
SetTo(b) == anchor' = <<b.slot, now + 1>> /\ last' = now + 1

\* The clock runs on, or is given up.
RunsOn == (anchor' = anchor \/ anchor' = <<>>) /\ last' = last

LEMMA TrackIs ==
  ASSUME HopInv, TickTracking
  PROVE  /\ t0' = t0 /\ calm' \in Nat /\ anchor # <<>>
         /\ \/ \E b : /\ OnAir(b) \/ Again(b)
                      /\ b.epoch >= gate.epoch /\ abs_diff(b.slot, cur_slot(anchor, now) + 0 + 1) <= ResyncSlack
                      /\ GateIs(b.epoch, gate.cand) /\ SetTo(b)
            \/ \E b : /\ OnAir(b) \/ Again(b) \/ Silence
                      /\ GateIs(gate.epoch, gate.cand) /\ RunsOn
<1>1. gate = [epoch |-> gate.epoch, miss |-> gate.miss, cand |-> gate.cand] BY DEF HopInv, HopTypes
<1>2. t0' = t0 /\ anchor # <<>> /\ skew = {0} BY DEF TickTracking, skew
<1>3. PICK ch, b :
        /\ Rx(ch, b)
        /\ LET hit == IF b = <<>> THEN [g |-> gate, verdict |-> "Ignore"]
                      ELSE offer_tracked(gate, b, cur_slot(anchor, now) + 0 + 1)
               miss == beacon_missed(hit.g)
           IN  \/ hit.verdict = "ReAnchor" /\ gate' = hit.g /\ fhss_lock(b)
               \/ /\ hit.verdict = "Ignore" /\ gate' = miss.g
                  /\ IF miss.verdict = "Rescan" THEN anchor' = <<>> /\ state' = "Scanning"
                     ELSE UNCHANGED <<anchor, state>>
                  /\ UNCHANGED last
  BY <1>2 DEF TickTracking
<1>4. calm' \in Nat /\ (OnAir(b) \/ Again(b) \/ (b = <<>> /\ Silence)) BY <1>3, RxIs
<1>5. PICK slot : slot = cur_slot(anchor, now) + 0 + 1
  OBVIOUS
<1>6. PICK hit : hit = IF b = <<>> THEN [g |-> gate, verdict |-> "Ignore"] ELSE offer_tracked(gate, b, slot)
  OBVIOUS
<1>7. \/ hit.verdict = "ReAnchor" /\ gate' = hit.g /\ fhss_lock(b)
      \/ /\ hit.verdict = "Ignore" /\ gate' = beacon_missed(hit.g).g
         /\ anchor' = anchor \/ anchor' = <<>>
         /\ last' = last
  BY <1>3, <1>5, <1>6
<1>8. CASE hit.verdict = "ReAnchor" /\ gate' = hit.g /\ fhss_lock(b)
  <2>1. b # <<>> /\ hit = offer_tracked(gate, b, slot) BY <1>6, <1>8
  <2>2. offer_tracked_ok(gate, b, slot) BY <1>8, <2>1 DEF offer_tracked
  <2>3. hit = [g |-> [gate EXCEPT !.epoch = b.epoch, !.miss = 0], verdict |-> "ReAnchor"]
    BY <2>1, <2>2 DEF offer_tracked
  <2>4. gate' = [gate EXCEPT !.epoch = b.epoch, !.miss = 0] BY <1>8, <2>3
  <2>5. gate' = [epoch |-> b.epoch, miss |-> 0, cand |-> gate.cand] BY <1>1, <2>4
  <2>6. GateIs(b.epoch, gate.cand) /\ SetTo(b) BY <1>8, <2>5 DEF GateIs, SetTo, fhss_lock
  <2> QED BY <1>2, <1>4, <1>5, <2>1, <2>2, <2>6 DEF offer_tracked_ok
<1>9. CASE /\ hit.verdict = "Ignore" /\ gate' = beacon_missed(hit.g).g
           /\ anchor' = anchor \/ anchor' = <<>>
           /\ last' = last
  <2>1. hit.g = gate
    <3>1. CASE b = <<>> BY <1>6, <3>1
    <3>2. CASE b # <<>>
      <4>1. hit = offer_tracked(gate, b, slot) BY <1>6, <3>2
      <4>2. ~offer_tracked_ok(gate, b, slot) BY <1>9, <4>1 DEF offer_tracked
      <4> QED BY <4>1, <4>2 DEF offer_tracked
    <3> QED BY <3>1, <3>2
  <2>2. gate' = [gate EXCEPT !.miss = gate.miss + 1] BY <1>9, <2>1 DEF beacon_missed
  <2>3. PICK m : m = gate.miss + 1
    OBVIOUS
  <2>4. gate' = [epoch |-> gate.epoch, miss |-> m, cand |-> gate.cand] BY <1>1, <2>2, <2>3
  <2>5. GateIs(gate.epoch, gate.cand) /\ RunsOn BY <1>9, <2>4 DEF GateIs, RunsOn
  <2> QED BY <1>2, <1>4, <2>5
<1> QED BY <1>7, <1>8, <1>9

LEMMA ScanIs ==
  ASSUME HopInv, TickScanning
  PROVE  /\ calm' \in Nat
         /\ \/ \E b : /\ OnAir(b) \/ Again(b)
                      /\ t0 # -1 /\ consistent(gate, b, now + 1 - t0)
                      /\ GateIs(b.epoch, <<>>) /\ SetTo(b)
            \/ \E b : /\ OnAir(b) \/ Again(b)
                      /\ GateIs(gate.epoch, b) /\ anchor' = <<>> /\ last' = last /\ t0' = now + 1
            \/ \E b : /\ OnAir(b) \/ Again(b) \/ Silence
                      /\ GateIs(gate.epoch, gate.cand) /\ anchor' = <<>> /\ last' = last /\ t0' = t0
<1>1. gate = [epoch |-> gate.epoch, miss |-> gate.miss, cand |-> gate.cand] BY DEF HopInv, HopTypes
<1>3. PICK b :
        /\ Rx(Rendezvous, b)
        /\ LET elapsed == IF t0 = -1 THEN -1 ELSE now + 1 - t0
               r == IF b = <<>> THEN [g |-> gate, verdict |-> "Hold"]
                    ELSE offer_scanning(gate, b, elapsed)
           IN  /\ gate' = r.g
               /\ IF r.verdict = "Lock"
                  THEN fhss_lock(b) /\ t0' = -1
                  ELSE /\ t0' = IF r.verdict = "Replaced" THEN now + 1 ELSE t0
                       /\ anchor' = <<>> /\ state' = "Scanning"
                       /\ UNCHANGED last
  BY DEF TickScanning
<1>4. calm' \in Nat /\ (OnAir(b) \/ Again(b) \/ (b = <<>> /\ Silence)) BY <1>3, RxIs
<1>5. PICK elapsed : elapsed = IF t0 = -1 THEN -1 ELSE now + 1 - t0
  OBVIOUS
<1>6. PICK r : r = IF b = <<>> THEN [g |-> gate, verdict |-> "Hold"] ELSE offer_scanning(gate, b, elapsed)
  OBVIOUS
<1>7. /\ gate' = r.g
      /\ IF r.verdict = "Lock"
         THEN fhss_lock(b) /\ t0' = -1
         ELSE /\ t0' = IF r.verdict = "Replaced" THEN now + 1 ELSE t0
              /\ anchor' = <<>> /\ last' = last
  BY <1>3, <1>5, <1>6
<1>8. ASSUME r = [g |-> gate, verdict |-> "Hold"] \/ r = [g |-> gate, verdict |-> "Reject"]
      PROVE  GateIs(gate.epoch, gate.cand) /\ anchor' = <<>> /\ last' = last /\ t0' = t0
  <2>1. r.g = gate /\ r.verdict # "Lock" /\ r.verdict # "Replaced" BY <1>8
  <2>2. GateIs(gate.epoch, gate.cand) BY <1>1, <1>7, <2>1 DEF GateIs
  <2> QED BY <1>7, <2>1, <2>2
<1>9. CASE b = <<>>
  <2>1. r = [g |-> gate, verdict |-> "Hold"] BY <1>6, <1>9
  <2> QED BY <1>4, <1>8, <2>1
<1>10. CASE b # <<>>
  <2>1. r = offer_scanning(gate, b, elapsed) /\ (OnAir(b) \/ Again(b)) BY <1>4, <1>6, <1>10
  <2>2. CASE consistent(gate, b, elapsed) /\ ~(b.epoch < gate.epoch)
    <3>1. r = [g |-> reset(b.epoch), verdict |-> "Lock"] BY <2>1, <2>2 DEF offer_scanning
    <3>2. gate' = [epoch |-> b.epoch, miss |-> 0, cand |-> <<>>] /\ fhss_lock(b) BY <1>7, <3>1 DEF reset
    <3>3. GateIs(b.epoch, <<>>) /\ SetTo(b) BY <3>2 DEF GateIs, SetTo, fhss_lock
    <3>4. t0 # -1 /\ elapsed = now + 1 - t0 BY <1>5, <2>2 DEF consistent
    <3> QED BY <1>4, <2>1, <2>2, <3>3, <3>4
  <2>3. CASE ~consistent(gate, b, elapsed) /\ ~(b.epoch < gate.epoch) /\ replaces(gate, b)
    <3>1. r = [g |-> [gate EXCEPT !.cand = b], verdict |-> "Replaced"] BY <2>1, <2>3 DEF offer_scanning
    <3>2. gate' = [gate EXCEPT !.cand = b] /\ anchor' = <<>> /\ last' = last /\ t0' = now + 1 BY <1>7, <3>1
    <3>3. gate' = [epoch |-> gate.epoch, miss |-> gate.miss, cand |-> b] BY <1>1, <3>2
    <3>4. GateIs(gate.epoch, b) BY <3>3 DEF GateIs
    <3> QED BY <1>4, <2>1, <3>2, <3>4
  <2>4. CASE b.epoch < gate.epoch \/ (~consistent(gate, b, elapsed) /\ ~replaces(gate, b))
    <3>1. r = [g |-> gate, verdict |-> "Hold"] \/ r = [g |-> gate, verdict |-> "Reject"]
      BY <2>1, <2>4 DEF offer_scanning
    <3> QED BY <1>4, <1>8, <2>1, <3>1
  <2> QED BY <2>2, <2>3, <2>4
<1> QED BY <1>9, <1>10

\* What a slot with or without a beacon comes to, apart from the clock and the candidate.
LEMMA SlotTypes ==
  ASSUME HopInv, SlotPasses, calm' \in Nat, NEW b, OnAir(b) \/ Again(b) \/ Silence,
         NEW e \in Nat, NEW c, GateIs(e, c), last' \in Nat, last' <= now + 1
  PROVE  HopTypes' /\ gate'.epoch = e /\ gate'.cand = c
<1>1. PICK m : gate' = [epoch |-> e, miss |-> m, cand |-> c] BY DEF GateIs
<1>2. gate'.epoch = e /\ gate'.cand = c /\ gate' = [epoch |-> gate'.epoch, miss |-> gate'.miss, cand |-> gate'.cand]
  BY <1>1
<1>3. replays' \in Nat /\ replays' <= MaxReplays BY DEF HopInv, HopTypes, OnAir, Again, Silence
<1>4. now' \in Nat /\ master'.anchor <= now' BY DEF HopInv, HopTypes, SlotPasses
<1> QED BY <1>2, <1>3, <1>4 DEF HopInv, HopTypes, SlotPasses

LEMMA MissSlot ==
  ASSUME HopInv, SlotPasses, calm' \in Nat, NEW b, OnAir(b) \/ Again(b) \/ Silence,
         GateIs(gate.epoch, gate.cand), RunsOn, t0' = t0
  PROVE  HopInv'
<1>1. /\ HopTypes /\ last \in Nat /\ last <= now /\ now \in Nat /\ gate.epoch \in Nat /\ replays \in Nat
  BY DEF HopInv, HopTypes
<1>2. HopTypes' /\ gate'.epoch = gate.epoch /\ gate'.cand = gate.cand
  <2>1. last' \in Nat /\ last' <= now + 1 BY <1>1 DEF RunsOn
  <2> QED BY <1>1, <2>1, SlotTypes
<1>3. InSlotInv'
  <2>1. last' # now' BY <1>1 DEF RunsOn, SlotPasses
  <2> QED BY <2>1 DEF InSlotInv, SlotPasses
<1>4. ASSUME ~reused PROVE SessionsInv' /\ CandInv' /\ ClockInv'
  <2>1. SessionsInv /\ CandInv /\ ClockInv BY <1>4 DEF HopInv
  <2>2. SessionsInv' BY <1>1, <2>1, SessionsLast DEF SlotPasses
  <2>3. capture' = capture \/ capture = <<>> BY DEF OnAir, Again, Silence
  <2>4. CandInv' BY <1>1, <1>2, <2>1, <2>3 DEF CandInv, SlotPasses
  <2>5. replays' \in Nat /\ replays <= replays' BY <1>1 DEF OnAir, Again, Silence
  <2>6. ClockInv'
    <3>1. SUFFICES ASSUME anchor' # <<>> PROVE ClockInv' BY DEF ClockInv
    <3>2. anchor' = anchor /\ anchor # <<>> BY <3>1 DEF RunsOn
    <3>3. PICK x \in Nat, y \in Nat, z \in Nat : x = anchor[1] /\ y = anchor[2] /\ z = starts[gate.epoch]
      BY <2>1, <3>2 DEF ClockInv, SessionsInv
    <3>4. Near(x + z, y, replays) BY <2>1, <3>2, <3>3 DEF ClockInv
    <3>5. Near(x + z, y, replays') BY <1>1, <2>5, <3>4, NearMore
    <3>6. y <= now BY <2>1, <3>2, <3>3 DEF ClockInv
    <3>7. y <= now + 1 BY <1>1, <3>6
    <3> QED BY <1>2, <2>1, <3>2, <3>3, <3>5, <3>7 DEF ClockInv, SlotPasses
  <2> QED BY <2>2, <2>4, <2>6
<1>5. reused' = reused BY DEF SlotPasses
<1> QED BY <1>2, <1>3, <1>4, <1>5 DEF HopInv

\* Scanning, a beacon becomes the candidate.
LEMMA HoldSlot ==
  ASSUME HopInv, SlotPasses, calm' \in Nat, NEW b, OnAir(b) \/ Again(b),
         GateIs(gate.epoch, b), anchor' = <<>>, last' = last, t0' = now + 1
  PROVE  HopInv'
<1>1. /\ HopTypes /\ last \in Nat /\ last <= now /\ now \in Nat /\ gate.epoch \in Nat
      /\ master.anchor \in Nat /\ master.anchor <= now
  BY DEF HopInv, HopTypes
<1>2. HopTypes' /\ gate'.epoch = gate.epoch /\ gate'.cand = b
  <2>1. last' \in Nat /\ last' <= now + 1 BY <1>1
  <2> QED BY <1>1, <2>1, SlotTypes
<1>3. InSlotInv' BY DEF InSlotInv, SlotPasses
<1>4. ASSUME ~reused PROVE SessionsInv' /\ CandInv' /\ ClockInv'
  <2>1. SessionsInv BY <1>4 DEF HopInv
  <2>2. SessionsInv' BY <1>1, <2>1, SessionsLast DEF SlotPasses
  <2>3. ClockInv' BY DEF ClockInv
  <2>4. b \in Beacons /\ b.epoch \in DOMAIN starts BY <2>1 DEF OnAir, Again, SessionsInv
  <2>5. b = capture' \/ b.slot + starts[b.epoch] = now + 1
    <3>1. CASE Again(b) BY <3>1 DEF Again
    <3>2. CASE OnAir(b)
      <4>1. b.slot = now + 1 - master.anchor /\ starts[b.epoch] = master.anchor
        BY <2>1, <3>2 DEF OnAir, SessionsInv
      <4> QED BY <1>1, <4>1
    <3> QED BY <3>1, <3>2
  <2>6. CandInv' BY <1>1, <1>2, <2>4, <2>5 DEF CandInv, SlotPasses
  <2> QED BY <2>2, <2>3, <2>6
<1>5. reused' = reused BY DEF SlotPasses
<1> QED BY <1>2, <1>3, <1>4, <1>5 DEF HopInv

\* The clock is set to a beacon that is near the truth.
LEMMA LockSlot ==
  ASSUME HopInv, SlotPasses, calm' \in Nat, NEW b, OnAir(b) \/ Again(b), NEW c,
         GateIs(b.epoch, c), SetTo(b), c = <<>> \/ (c = gate.cand /\ t0' = t0),
         Again(b) /\ ~reused => Near(b.slot + starts[b.epoch], now + 1, replays')
  PROVE  HopInv'
<1>1. /\ HopTypes /\ last \in Nat /\ now \in Nat /\ replays \in Nat /\ calm \in Nat
      /\ master \in [epoch : Nat, anchor : Nat, hopping : BOOLEAN] /\ master.anchor <= now
  BY DEF HopInv, HopTypes
<1>2. b \in Beacons /\ b.epoch \in Nat /\ b.slot \in Nat BY DEF OnAir, Again, Beacons
<1>3. HopTypes' /\ gate'.epoch = b.epoch /\ gate'.cand = c
  <2>1. last' \in Nat /\ last' <= now + 1 BY <1>1 DEF SetTo
  <2> QED BY <1>2, <2>1, SlotTypes
<1>4. InSlotInv'
  <2>1. slotTx' = "none" /\ now' = now + 1 /\ master' = master BY DEF SlotPasses
  <2>2. CASE Again(b) BY <2>1, <2>2 DEF InSlotInv, Again
  <2>3. CASE OnAir(b)
    <3>1. master.hopping /\ b.slot = now + 1 - master.anchor /\ anchor' = <<b.slot, now + 1>>
      BY <2>3 DEF OnAir, SetTo
    <3>2. anchor' = <<now' - master'.anchor, now'>>
      <4>1. PICK m \in Nat, n \in Nat : m = master.anchor /\ n = now BY <1>1
      <4>2. b.slot = n + 1 - m /\ now' = n + 1 /\ master'.anchor = m BY <2>1, <3>1, <4>1
      <4> QED BY <3>1, <4>1, <4>2
    <3>3. master'.hopping BY <2>1, <3>1, Zenon
    <3>4. slotTx' # "missed" BY <2>1
    <3> QED BY <3>2, <3>3, <3>4, Zenon DEF InSlotInv
  <2> QED BY <2>2, <2>3
<1>5. ASSUME ~reused PROVE SessionsInv' /\ CandInv' /\ ClockInv'
  <2>1. SessionsInv /\ CandInv BY <1>5 DEF HopInv
  <2>2. SessionsInv' BY <1>1, <2>1, SessionsLast DEF SlotPasses
  <2>3. b.epoch \in DOMAIN starts BY <2>1 DEF OnAir, Again, SessionsInv
  <2>4. CandInv'
    <3>1. capture' = capture \/ capture = <<>> BY DEF OnAir, Again
    <3>2. CASE c = <<>> BY <1>3, <3>2 DEF CandInv
    <3>3. CASE c = gate.cand /\ t0' = t0 BY <1>1, <1>3, <2>1, <3>1, <3>3 DEF CandInv, SlotPasses
    <3> QED BY <3>2, <3>3
  <2>5. replays' \in Nat BY <1>1 DEF OnAir, Again
  <2>6. PICK z \in Nat : z = starts[b.epoch] BY <2>1, <2>3 DEF SessionsInv
  <2>7. Near(b.slot + z, now + 1, replays')
    <3>1. CASE Again(b) BY <1>5, <2>6, <3>1
    <3>2. CASE OnAir(b)
      <4>1. b.slot = now + 1 - master.anchor /\ z = master.anchor /\ master.anchor \in Nat
        BY <1>1, <2>1, <2>6, <3>2 DEF OnAir, SessionsInv
      <4>2. b.slot + z = now + 1 /\ now + 1 \in Int BY <1>1, <4>1
      <4> QED BY <2>5, <4>2, NearExact
    <3> QED BY <3>1, <3>2
  <2>8. PICK a : a = anchor' /\ a = <<b.slot, now + 1>> BY DEF SetTo
  <2>9. a[1] = b.slot /\ a[2] = now + 1 /\ a = <<a[1], a[2]>> BY <2>8
  <2>10. ClockInv' BY <1>1, <1>2, <1>3, <2>3, <2>6, <2>7, <2>8, <2>9 DEF ClockInv, SlotPasses
  <2> QED BY <2>2, <2>4, <2>10
<1>6. reused' = reused BY DEF SlotPasses
<1> QED BY <1>3, <1>4, <1>5, <1>6 DEF HopInv

LEMMA TickStep ==
  ASSUME HopInv, NodeTick
  PROVE  HopInv'
<1>1. SlotPasses BY DEF NodeTick, SlotPasses
<1>2. HopTypes /\ now \in Nat /\ replays \in Nat BY DEF HopInv, HopTypes
<1>3. CASE TickTracking
  <2>1. t0' = t0 /\ calm' \in Nat /\ anchor # <<>> BY <1>3, TrackIs
  <2>2. ASSUME NEW b, OnAir(b) \/ Again(b), b.epoch >= gate.epoch,
               abs_diff(b.slot, cur_slot(anchor, now) + 0 + 1) <= ResyncSlack,
               GateIs(b.epoch, gate.cand), SetTo(b)
        PROVE  HopInv'
    <3>1. ASSUME Again(b), ~reused PROVE Near(b.slot + starts[b.epoch], now + 1, replays')
      <4>1. SessionsInv /\ ClockInv BY <3>1 DEF HopInv
      <4>2. PICK x \in Nat, y \in Nat, z \in Nat : x = anchor[1] /\ y = anchor[2] /\ z = starts[gate.epoch]
        BY <2>1, <4>1 DEF ClockInv, SessionsInv
      <4>3. Near(x + z, y, replays) BY <2>1, <4>1, <4>2 DEF ClockInv
      <4>4. PICK w \in Nat : w = starts[b.epoch] BY <3>1, <4>1 DEF Again, SessionsInv
      <4>5. PICK s \in Nat : s = b.slot BY <3>1 DEF Again, Beacons
      <4>6. z <= w
        <5>1. b.epoch \in DOMAIN starts /\ gate.epoch \in DOMAIN starts /\ b.epoch \in Nat /\ gate.epoch \in Nat
          BY <1>2, <2>1, <3>1, <4>1 DEF Again, ClockInv, HopTypes, Beacons
        <5>2. gate.epoch <= b.epoch BY <2>2, <5>1
        <5> QED BY <4>1, <4>2, <4>4, <5>1, <5>2 DEF SessionsInv
      <4>7. s + w <= now
        <5>1. s <= now - w BY <3>1, <4>4, <4>5 DEF Again
        <5> QED BY <1>2, <5>1
      <4>8. cur_slot(anchor, now) + 0 + 1 = x + (now - y) + 1 BY <1>2, <4>2 DEF cur_slot
      <4>9. abs_diff(s, x + (now - y) + 1) <= ResyncSlack BY <2>2, <4>5, <4>8
      <4>10. Near(s + w, now + 1, replays + 1) BY <1>2, <4>3, <4>6, <4>7, <4>9, TrackedNear
      <4>11. replays' = replays + 1 BY <3>1 DEF Again
      <4> QED BY <4>4, <4>5, <4>10, <4>11
    <3> QED BY <1>1, <2>1, <2>2, <3>1, LockSlot
  <2> QED BY <1>1, <1>3, <2>1, <2>2, TrackIs, MissSlot
<1>4. CASE TickScanning
  <2>1. calm' \in Nat BY <1>4, ScanIs
  <2>2. ASSUME NEW b, OnAir(b) \/ Again(b), t0 # -1, consistent(gate, b, now + 1 - t0),
               GateIs(b.epoch, <<>>), SetTo(b)
        PROVE  HopInv'
    <3>1. ASSUME Again(b), ~reused PROVE Near(b.slot + starts[b.epoch], now + 1, replays')
      <4>1. SessionsInv /\ CandInv BY <3>1 DEF HopInv
      <4>2. /\ gate.cand # <<>> /\ gate.cand.epoch = b.epoch /\ b.slot > gate.cand.slot
            /\ abs_diff(b.slot - gate.cand.slot, now + 1 - t0) <= AcquireSlack
        BY <2>2 DEF consistent
      <4>3. /\ gate.cand \in Beacons /\ t0 \in Nat
            /\ gate.cand = capture \/ gate.cand.slot + starts[gate.cand.epoch] = t0
        BY <4>1, <4>2 DEF CandInv
      <4>4. PICK s \in Nat, c \in Nat : s = b.slot /\ c = gate.cand.slot BY <3>1, <4>3 DEF Again, Beacons
      <4>5. gate.cand # capture
        <5>1. b # gate.cand BY <4>2, <4>4
        <5> QED BY <3>1, <4>2, <5>1 DEF Again
      <4>6. PICK w \in Nat : w = starts[b.epoch] BY <3>1, <4>1 DEF Again, SessionsInv
      <4>7. c + w = t0 BY <4>2, <4>3, <4>4, <4>5, <4>6
      <4>8. abs_diff(s - c, now + 1 - t0) <= AcquireSlack BY <4>2, <4>4
      <4>9. replays' \in Nat BY <1>2, <3>1 DEF Again
      <4>10. Near(s + w, now + 1, replays') BY <1>2, <4>3, <4>7, <4>8, <4>9, LockedNear
      <4> QED BY <4>4, <4>6, <4>10
    <3> QED BY <1>1, <2>1, <2>2, <3>1, LockSlot
  <2>3. ASSUME NEW b, OnAir(b) \/ Again(b) \/ Silence, GateIs(gate.epoch, gate.cand), anchor' = <<>>, last' = last,
               t0' = t0
        PROVE  HopInv'
    <3>1. RunsOn BY <2>3 DEF RunsOn
    <3> QED BY <1>1, <2>1, <2>3, <3>1, MissSlot
  <2> QED BY <1>1, <1>4, <2>1, <2>2, <2>3, ScanIs, HoldSlot
<1> QED BY <1>3, <1>4 DEF NodeTick

-----------------------------------------------------------------------------
(***************************************************************************)
(* The theorem                                                             *)
(***************************************************************************)

LEMMA HopStep == HopInv /\ [HopNext]_hopVars => HopInv'
<1> SUFFICES ASSUME HopInv, [HopNext]_hopVars PROVE HopInv'
  OBVIOUS
<1>1. CASE UNCHANGED hopVars
  BY <1>1 DEF hopVars, HopInv, HopTypes, InSlotInv, SessionsInv, CandInv, ClockInv
<1> QED BY <1>1, MasterStartStep, SuspendStep, NodeStartStep, TickStep, SleepStep, SendStep DEF HopNext

LEMMA HopInvHolds ==
  ASSUME HopInv
  PROVE  AnchorIsReal /\ SentInSlot
<1>1. SentInSlot BY DEF HopInv, InSlotInv, SentInSlot
<1>2. SUFFICES ASSUME anchor # <<>>, ~reused
               PROVE  /\ gate.epoch \in DOMAIN starts
                      /\ abs_diff(anchor[1] + starts[gate.epoch], anchor[2]) <= AcquireSlack + MaxReplays * ResyncSlack
  BY <1>1 DEF AnchorIsReal
<1>3. ClockInv /\ SessionsInv /\ replays \in Nat /\ replays <= MaxReplays BY <1>2 DEF HopInv, HopTypes
<1>4. PICK x \in Nat, y \in Nat, z \in Nat : x = anchor[1] /\ y = anchor[2] /\ z = starts[gate.epoch]
  BY <1>2, <1>3 DEF ClockInv, SessionsInv
<1>5. Near(x + z, y, MaxReplays)
  <2>1. Near(x + z, y, replays) BY <1>2, <1>3, <1>4 DEF ClockInv
  <2> QED BY <1>3, <2>1, NearMore, HopAssumption
<1>6. PICK m \in Nat : m = Error(MaxReplays) /\ m = AcquireSlack + MaxReplays * ResyncSlack
  BY ErrorIs, HopAssumption DEF Error
<1>7. abs_diff(x + z, y) <= m BY <1>5, <1>6 DEF Near, abs_diff
<1> QED BY <1>2, <1>3, <1>4, <1>6, <1>7 DEF ClockInv

(***************************************************************************)
(* Unless a lost epoch write made a session reuse an epoch, the clock a    *)
(* node follows is the clock of the session it believes in, up to the      *)
(* slack of one acquisition and of the beacons heard again; and a frame    *)
(* sent after the gateway's beacon of that slot is on the channel the      *)
(* gateway listens on (EpochGate::offer_scanning, offer_tracked, fhss_send *)
(* in crates/net/src/epoch.rs and firmware/src/radio/net/fhss.rs).         *)
(***************************************************************************)
THEOREM ClockIsReal == HopSpec => [](AnchorIsReal /\ SentInSlot)
<1>1. HopInit => HopInv BY InitHolds
<1>2. HopInv /\ [HopNext]_hopVars => HopInv' BY HopStep
<1>3. HopInv => AnchorIsReal /\ SentInSlot BY HopInvHolds
<1> QED BY <1>1, <1>2, <1>3, PTL DEF HopSpec

=============================================================================
