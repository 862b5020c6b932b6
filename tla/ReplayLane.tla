----------------------------- MODULE ReplayLane -----------------------------
(***************************************************************************)
(* The replay lanes of a receiver: crates/net/src/replay.rs, driven by     *)
(* Net::add_peer, remove_peer, raise_peer_floor and lane_accept            *)
(* (firmware/src/radio/net/mod.rs) and by the gateway's boot, NodeAdd and  *)
(* NodeRemove handlers (firmware/apps/radio_dongle_gateway.rs).            *)
(*                                                                         *)
(* A lane lives in RAM with the peer it belongs to; its last-seen counter  *)
(* is written to one of Locals EEPROM records on every Persist-th accept.  *)
(* Every frame a node ever sealed is on the air for good: any of its       *)
(* counters may arrive at any time, in any order, any number of times.     *)
(*                                                                         *)
(* The keys of a node are numbered in the order it is given them, and a    *)
(* key-check value is the key itself.  The re-ACK allowance of a lane is   *)
(* part of ConfirmedLink.                                                  *)
(***************************************************************************)
EXTENDS Integers, FiniteSetsExt

CONSTANTS
  Addrs,      \* node addresses (all valid by peer_addr_valid)
  Locals,     \* MAX_PEERS: lane records, peer slots and registry capacity
  Persist,    \* persist_period: accepts between two writes of a lane
  MaxFrame,   \* bound: highest counter on the air
  Floors,     \* rx_floor values a NodeAdd may carry (0: a fresh key)
  MaxKeys,    \* bound: keys a node is given in its life
  MaxOps,     \* bound: NodeAdds, NodeRemoves and reboots
  MaxFaults,  \* bound: EEPROM writes that fail
  AllFloors   \* does `floor` follow every NodeAdd, or those that raise a lane?

ASSUME LaneAssumption ==
  /\ Locals \in Nat \ {0} /\ Persist \in Nat \ {0} /\ MaxFrame \in Nat
  /\ MaxKeys \in Nat /\ MaxOps \in Nat /\ MaxFaults \in Nat
  /\ Floors \subseteq 0 .. MaxFrame /\ AllFloors \in BOOLEAN /\ "none" \notin Addrs

VARIABLES
  peers,    \* RAM: the peer table, address -> peer or NoPeer
  records,  \* EEPROM: lane records, local -> record or NoRecord
  registry, \* EEPROM: the nodes to install at boot, with their keys
  booting,  \* nodes the boot has still to install
  newest,   \* the last key each node was given (0: none)
  got,      \* history: counters delivered under the newest key
  floor,    \* history: highest rx_floor a NodeAdd of the newest key carried
  slack,    \* history: how many of `got` a reset may reopen
  ops,      \* operations so far
  faults    \* failed writes so far

laneVars == <<peers, records, registry, booting, newest, got, floor, slack, ops, faults>>

NoPeer   == [key |-> 0, seen |-> 0, accepts |-> 0, local |-> 0]
NoRecord == [addr |-> "none", seen |-> 0, kcv |-> 0]
NoKey    == 0

Locs     == 1 .. Locals
LaneCounters == 0 .. MaxFrame
LiveIn(t) == {a \in Addrs : t[a] # NoPeer}

LaneInit ==
  /\ peers = [a \in Addrs |-> NoPeer] /\ records = [l \in Locs |-> NoRecord]
  /\ registry = [a \in Addrs |-> NoKey] /\ booting = {}
  /\ newest = [a \in Addrs |-> NoKey] /\ got = [a \in Addrs |-> {}]
  /\ floor = [a \in Addrs |-> 0] /\ slack = [a \in Addrs |-> 0]
  /\ ops = 0 /\ faults = 0

-----------------------------------------------------------------------------
(***************************************************************************)
(* The kernel: assign_lane, classify, accept_every                         *)
(***************************************************************************)

\* classify: Fresh (the other verdicts leave the lane alone).
Fresh(p, c) == c # 0 /\ c > p.seen

\* The period is rounded up once more.
Fault_EveryOther(p) == (p.accepts + 1) % (2 * Persist) = 0

\* accept_every: is the lane to be persisted now?
Persists(p) == (p.accepts + 1) % Persist = 0

Accepted(p, c) == [p EXCEPT !.seen = c, !.accepts = (@ + 1) % Persist]

\* assign_lane without the key check.
Fault_AnyKey(a, k, recs, free) ==
  LET own   == {l \in free : recs[l].addr = a}
      blank == {l \in free : recs[l] = NoRecord}
  IN  IF own # {} THEN [index |-> Min(own), seen |-> recs[Min(own)].seen, fresh |-> FALSE]
      ELSE [index |-> Min(IF blank = {} THEN free ELSE blank), seen |-> 0, fresh |-> TRUE]

\* assign_lane: this node's record under this key (the highest), its record
\* under another key, a record never written, then any record of a node that
\* is not installed.
AssignLane(a, k, recs, free) ==
  LET own   == {l \in free : recs[l].addr = a}
      mine  == {l \in own : recs[l].kcv = k}
      best  == {l \in mine : \A m \in mine : recs[l].seen >= recs[m].seen}
      blank == {l \in free : recs[l] = NoRecord}
      claim(ls) == [index |-> Min(ls), seen |-> 0, fresh |-> TRUE]
  IN  IF mine # {} THEN [index |-> Min(best), seen |-> recs[Min(best)].seen, fresh |-> FALSE]
      ELSE IF own # {} THEN claim(own)
      ELSE IF blank # {} THEN claim(blank)
      ELSE claim(free)

LaneRecord(a, seen, k) == [addr |-> a, seen |-> seen, kcv |-> k]

\* set_bytes of one record, its result ignored: it may fail.
Outcomes(recs, l, rec) ==
  {[recs |-> [recs EXCEPT ![l] = rec], failed |-> 0]}
  \cup (IF faults < MaxFaults THEN {[recs |-> recs, failed |-> 1]} ELSE {})

-----------------------------------------------------------------------------
(***************************************************************************)
(* The peer table: what add_peer and raise_peer_floor make of it           *)
(***************************************************************************)

\* add_peer: re-key in place (the lane restarts on a changed key only), or
\* bind a record and install.  Each result: the table, the records, the
\* failed writes, and whether the lane was begun anew.
AddPeer(a, k, table, recs) ==
  LET p    == table[a]
      used == {table[b].local : b \in LiveIn(table)}
      bind == AssignLane(a, k, recs, Locs \ used)
      lane(seen, l) == [table EXCEPT ![a] = [key |-> k, seen |-> seen, accepts |-> 0, local |-> l]]
      done(t, w, n) == [table |-> t, recs |-> w.recs, failed |-> w.failed, anew |-> n]
      kept == [recs |-> recs, failed |-> 0]
  IN  IF p # NoPeer /\ p.key = k THEN {done(table, kept, FALSE)}
      ELSE IF p # NoPeer
      THEN {done(lane(0, p.local), w, TRUE) : w \in Outcomes(recs, p.local, LaneRecord(a, 0, k))}
      ELSE IF ~bind.fresh THEN {done(lane(bind.seen, bind.index), kept, TRUE)}
      ELSE {done(lane(0, bind.index), w, TRUE) :
              w \in Outcomes(recs, bind.index, LaneRecord(a, 0, k))}

\* The lane is raised in RAM only.
Fault_RaiseLaneInRam(a, seen, table, recs) ==
  {[table |-> IF seen > table[a].seen
              THEN [table EXCEPT ![a].seen = seen, ![a].accepts = 0] ELSE table,
    recs |-> recs, failed |-> 0]}

\* raise: the lane at a higher counter, its accepts counted from there.
Raised(p, seen) == [p EXCEPT !.seen = seen, !.accepts = 0]

\* raise_peer_floor: never lowers; the record follows the lane.
RaisePeerFloor(a, seen, table, recs) ==
  IF seen <= table[a].seen THEN {[table |-> table, recs |-> recs, failed |-> 0]}
  ELSE {[table |-> [table EXCEPT ![a] = Raised(@, seen)],
         recs |-> w.recs, failed |-> w.failed] :
           w \in Outcomes(recs, table[a].local, LaneRecord(a, seen, table[a].key))}

\* The counter a node's lane is restored at: its record under its last key.
Durable(a) ==
  LET mine == {l \in Locs : records[l].addr = a /\ records[l].kcv = newest[a]}
  IN  IF mine = {} THEN 0 ELSE Max({records[l].seen : l \in mine})

\* What may be accepted above the record from here on: Persist - 1 counters
\* once the record covers all that was delivered, else `more` than before.
SlackTo(a, more) ==
  slack' = [slack EXCEPT ![a] = IF got'[a] \subseteq 0 .. Durable(a)' THEN Persist - 1 ELSE @ + more]

-----------------------------------------------------------------------------
(***************************************************************************)
(* The receiver                                                            *)
(***************************************************************************)

Running == booting = {}
Bounded == ops < MaxOps /\ ops' = ops + 1
RegistryHasRoom(a) ==
  registry[a] # NoKey \/ Cardinality({b \in Addrs : registry[b] # NoKey}) < Locals

\* A NodeAdd with the node's current key, or with the next one.
KeyGiven(a, k) ==
  /\ k \in {newest[a], newest[a] + 1} /\ k \in 1 .. MaxKeys
  /\ newest' = [newest EXCEPT ![a] = k]
  /\ got' = IF k = newest[a] THEN got ELSE [got EXCEPT ![a] = {}]

\* NodeAdd: store the record, install the peer, raise its lane, answer OK.
NodeAdd(a, k, f) ==
  /\ Running /\ Bounded /\ RegistryHasRoom(a) /\ KeyGiven(a, k)
  /\ registry' = [registry EXCEPT ![a] = k]
  /\ \E r \in AddPeer(a, k, peers, records) :
       \E s \in RaisePeerFloor(a, f, r.table, r.recs) :
         /\ peers' = s.table /\ records' = s.recs
         /\ faults' = faults + r.failed + s.failed /\ faults' <= MaxFaults
         /\ SlackTo(a, IF r.anew \/ s.table # r.table THEN Persist - 1 ELSE 0)
         /\ floor' = [floor EXCEPT ![a] =
              Max({IF k = newest[a] THEN @ ELSE 0,
                   IF AllFloors \/ f > r.table[a].seen THEN f ELSE 0})]
  /\ UNCHANGED booting

\* A power cut inside a NodeAdd: the key is stored, the lane record perhaps
\* claimed, the floor not raised and nothing answered.
NodeAddCut(a, k) ==
  /\ Running /\ Bounded /\ RegistryHasRoom(a) /\ KeyGiven(a, k)
  /\ registry' = [registry EXCEPT ![a] = k]
  /\ \E r \in AddPeer(a, k, peers, records) :
       records' \in {records, r.recs}
  /\ SlackTo(a, 0)
  /\ floor' = [floor EXCEPT ![a] = IF k = newest[a] THEN @ ELSE 0]
  /\ peers' = [b \in Addrs |-> NoPeer]
  /\ booting' = {b \in Addrs : registry'[b] # NoKey}
  /\ UNCHANGED faults

\* NodeRemove: the registry record and the peer go, the lane record stays.
NodeRemove(a) ==
  /\ Running /\ Bounded /\ registry[a] # NoKey
  /\ registry' = [registry EXCEPT ![a] = NoKey]
  /\ peers' = [peers EXCEPT ![a] = NoPeer]
  /\ UNCHANGED <<records, booting, newest, got, floor, slack, faults>>

\* A reset at any point of the receiver's life.
LaneReboot ==
  /\ Bounded
  /\ peers' = [a \in Addrs |-> NoPeer]
  /\ booting' = {a \in Addrs : registry[a] # NoKey}
  /\ UNCHANGED <<records, registry, newest, got, floor, slack, faults>>

\* The boot installs one more registered node (in bucket order: any order).
BootInstall(a) ==
  /\ a \in booting /\ booting' = booting \ {a}
  /\ \E r \in AddPeer(a, registry[a], peers, records) :
       /\ peers' = r.table /\ records' = r.recs
       /\ faults' = faults + r.failed
       /\ UNCHANGED <<registry, newest, got, floor, ops>>
       /\ SlackTo(a, IF r.anew THEN Persist - 1 ELSE 0)

\* recv, an authentic frame of node a with a counter above its lane's:
\* lane_accept, and the frame goes up to the app.
Deliver(a, c) ==
  /\ Running /\ peers[a] # NoPeer /\ Fresh(peers[a], c)
  /\ peers' = [peers EXCEPT ![a] = Accepted(@, c)]
  /\ got' = [got EXCEPT ![a] = @ \cup {c}]
  /\ UNCHANGED <<registry, booting, newest, floor, ops>>
  /\ IF Persists(peers[a])
     THEN \E w \in Outcomes(records, peers[a].local, LaneRecord(a, c, peers[a].key)) :
            /\ records' = w.recs /\ faults' = faults + w.failed
            /\ SlackTo(a, w.failed * Persist)
     ELSE UNCHANGED <<records, slack, faults>>

\* A power cut inside the lane write: persisted, never delivered.
DeliverCut(a, c) ==
  /\ Running /\ Bounded /\ peers[a] # NoPeer /\ Fresh(peers[a], c) /\ Persists(peers[a])
  /\ records' = [records EXCEPT ![peers[a].local] = LaneRecord(a, c, peers[a].key)]
  /\ peers' = [b \in Addrs |-> NoPeer]
  /\ booting' = {b \in Addrs : registry[b] # NoKey}
  /\ UNCHANGED <<registry, newest, got, floor, faults>>
  /\ SlackTo(a, 0)

LaneNext ==
  \/ \E a \in Addrs, k \in 1 .. MaxKeys, f \in Floors : NodeAdd(a, k, f)
  \/ \E a \in Addrs, k \in 1 .. MaxKeys : NodeAddCut(a, k)
  \/ \E a \in Addrs : NodeRemove(a) \/ BootInstall(a)
  \/ LaneReboot
  \/ \E a \in Addrs, c \in LaneCounters : Deliver(a, c) \/ DeliverCut(a, c)

LaneSpec == LaneInit /\ [][LaneNext]_laneVars

-----------------------------------------------------------------------------
(***************************************************************************)
(* Properties                                                              *)
(***************************************************************************)

\* Type invariant.
LaneTypeOK ==
  /\ \A a \in Addrs :
       /\ peers[a].key \in 0 .. MaxKeys /\ peers[a].seen \in LaneCounters
       /\ peers[a].accepts \in 0 .. Persist - 1 /\ peers[a].local \in 0 .. Locals
  /\ \A l \in Locs : records[l].seen \in LaneCounters /\ records[l].kcv \in 0 .. MaxKeys
  /\ registry \in [Addrs -> 0 .. MaxKeys] /\ newest \in [Addrs -> 0 .. MaxKeys]
  /\ booting \subseteq Addrs /\ got \in [Addrs -> SUBSET LaneCounters]
  /\ floor \in [Addrs -> LaneCounters] /\ ops \in 0 .. MaxOps /\ faults \in 0 .. MaxFaults

\* No two installed nodes share a lane record, and whatever was removed,
\* re-keyed and re-installed in whatever order, the record under an installed
\* node's lane is that node's, tracked under the key it has now (assign_lane,
\* "two live peers never share a local"), unless an EEPROM write failed.
LaneIsOwn ==
  /\ LaneTypeOK
  /\ \A a \in LiveIn(peers) :
       /\ peers[a].local \in Locs
       /\ \A b \in LiveIn(peers) \ {a} : peers[b].local # peers[a].local
       /\ faults = 0 =>
            records[peers[a].local].addr = a /\ records[peers[a].local].kcv = peers[a].key

\* Delivered counters a reset would make fresh again.
Window(a) == Cardinality({c \in got[a] : c > Durable(a)})

\* What a reset makes fresh again of what was delivered is at most Persist - 1
\* counters for the lane that is running, and as many again for every lane
\* begun before the record covered them all, and Persist for a write that
\* failed: with Persist = 1 and no failed write nothing is ever fresh again.
\* Removing, re-adding and re-keying nodes in any order reopens nothing
\* beyond that while there are records for all of them.
WindowBounded == \A a \in Addrs : Window(a) <= slack[a]

\* Once a NodeAdd with an rx_floor was answered OK, the node's lane stays at
\* or above it for as long as the node keeps that key, across removals and
\* resets: "none of that peer's recorded frames at or below it is accepted any
\* more" (firmware/src/radio/net/mod.rs:491).  It holds when the NodeAdd
\* raised the lane (AllFloors = FALSE); a lane already past the floor in RAM
\* is not written, and a reset brings it back below.  A lane write that fails
\* goes unreported, and its floor with it.
FloorHonoured == faults = 0 => \A a \in LiveIn(peers) : peers[a].seen >= floor[a]
=============================================================================
